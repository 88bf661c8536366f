---------------------------- MODULE LibraryProofs ---------------------------
(***************************************************************************)
(* What is proved of the parts, for the bench: a behaviour of Library is   *)
(* one of the part it takes, so the part's inductive invariant holds.      *)
(***************************************************************************)
EXTENDS Library, LibraryPartsProofs

\* The bench takes steps of its part only.
LEMMA QueueSteps ==
    ASSUME part = "MsgQueueIPC", [Next]_vars PROVE part' = part /\ [MQ!Next]_(MQ!vars)
  BY DEF Next, vars, MQ!vars

LEMMA ServerSteps ==
    ASSUME part = "SocketServer", [Next]_vars PROVE part' = part /\ [SS!Next]_(SS!vars)
  BY DEF Next, vars, SS!vars

LEMMA MemorySteps ==
    ASSUME part = "JsonBuffer", [Next]_vars PROVE part' = part /\ [JB!Next]_(JB!vars)
  BY DEF Next, vars, JB!vars

LEMMA RingSteps ==
    ASSUME part = "BufferList", [Next]_vars PROVE part' = part /\ [BL!Next]_(BL!vars)
  BY DEF Next, vars, BL!vars

LEMMA BlockSteps ==
    ASSUME part = "BTreeStorage", [Next]_vars PROVE part' = part /\ [BT!Next]_(BT!vars)
  BY DEF Next, vars, BT!vars

LEMMA PoolSteps ==
    ASSUME part = "JsonMap", [Next]_vars PROVE part' = part /\ [JM!Next]_(JM!vars)
  BY DEF Next, vars, JM!vars, JM!parser, JM!store

LEMMA TreeSteps ==
    ASSUME part = "JsonTree", [Next]_vars PROVE part' = part /\ [JT!Next]_(JT!vars)
  BY DEF Next, vars, JT!vars

LEMMA MapSteps ==
    ASSUME part = "FileHashMap", [Next]_vars PROVE part' = part /\ [HM!Next]_(HM!vars)
  BY DEF Next, vars, HM!vars

\* The part stays.
LEMMA SamePart == [Next]_vars => part' = part
  BY DEF Next, vars

-----------------------------------------------------------------------------
(* Msg_Queue_IPC.                                                          *)

QueueInv == part = "MsgQueueIPC" => QueueWell

LEMMA QueueHolds == Spec => []QueueInv
<1>1. Roles
  BY QueueRoles DEF Roles
<1>2. Init => QueueInv
  BY <1>1, QueueInit DEF Init, QueueInv
<1>3. QueueInv /\ [Next]_vars => QueueInv'
  BY <1>1, SamePart, QueueSteps, QueueNext DEF QueueInv
<1> QED
  BY <1>2, <1>3, PTL DEF Spec

\* Queues, buffers and threads keep their types, the values copied included.
THEOREM MessagesTyped == Spec => [](part = "MsgQueueIPC" => QueueTyped)
<1>1. QueueInv => (part = "MsgQueueIPC" => QueueTyped)
  BY DEF QueueInv, QueueWell
<1> QED
  BY <1>1, QueueHolds, PTL

\* However the threads' system calls interleave, and until the queues are removed,
\* a buffer of Msg_Queue_IPC is in one queue once or in one hand: none is lost, and
\* no two threads work on the same.
THEOREM BufferOwned == Spec => []BufferHasOneOwner
<1>1. QueueInv => BufferHasOneOwner
  <2>1. Roles
    BY QueueRoles DEF Roles
  <2> QED BY <2>1, QueueOwner DEF QueueInv, BufferHasOneOwner
<1> QED
  BY <1>1, QueueHolds, PTL

\* MSGRcv hands out what the sender of that buffer wrote, in the order of the queue,
\* also when another object removes the queues while it works.
THEOREM MessageIntact == Spec => []DataIntact
<1>1. QueueInv => DataIntact
  BY DEF QueueInv, DataIntact, QueueWell, Filled
<1> QED
  BY <1>1, QueueHolds, PTL

-----------------------------------------------------------------------------
(* The memory of Basic/Json.hpp.                                           *)

MemoryInv == part = "JsonBuffer" => JB!Inv

LEMMA MemoryHolds == Spec => []MemoryInv
<1>1. Init => MemoryInv
  BY MemoryInit DEF Init, MemoryInv
<1>2. MemoryInv /\ [Next]_vars => MemoryInv'
  BY SamePart, MemorySteps, MemoryNext DEF MemoryInv
<1> QED
  BY <1>1, <1>2, PTL DEF Spec

\* No piece that JsonBuffer handed out shares a byte with another, whatever
\* sizes were asked for and however the pools filled up.
THEOREM PiecesApart == Spec => []PiecesDisjoint
<1>1. MemoryInv => PiecesDisjoint
  BY DEF MemoryInv, PiecesDisjoint, JB!Inv
<1> QED
  BY <1>1, MemoryHolds, PTL

-----------------------------------------------------------------------------
(* BufferList, B_Tree/FileStorage.hpp and FileStrHashMap.                  *)

RingInv == part = "BufferList" => BL!Inv

LEMMA RingHolds == Spec => []RingInv
<1>1. Init => RingInv
  BY RingNumbers, BL!InitInv DEF Init, RingInv
<1>2. RingInv /\ [Next]_vars => RingInv'
  BY RingNumbers, SamePart, RingSteps, BL!NextInv DEF RingInv
<1> QED
  BY <1>1, <1>2, PTL DEF Spec

\* While BufferList has not thrown records away, the bytes between its indices
\* are the records pushed and not popped, whole and in order across the wrap,
\* and what pop_front delivered was the oldest.
THEOREM RecordsStay == Spec => []RecordsWhole
<1>1. RingInv => RecordsWhole
  BY RingNumbers, BL!InvRecords DEF RingInv, RecordsWhole
<1> QED
  BY <1>1, RingHolds, PTL

\* m_leftSpace is the space there is, and a length more for every buffer that
\* was too small; BufferList overwrites or discards records only after such a call.
THEOREM SpaceCounted == Spec => []SpaceAgrees
<1>1. RingInv => SpaceAgrees
  BY RingNumbers, BL!InvSpace DEF RingInv, SpaceAgrees
<1> QED
  BY <1>1, RingHolds, PTL

BlocksInv == part = "BTreeStorage" => BT!Inv

LEMMA BlocksHold == Spec => []BlocksInv
<1>1. Init => BlocksInv
  BY BlocksNotEmpty, BT!InitInv DEF Init, BlocksInv
<1>2. BlocksInv /\ [Next]_vars => BlocksInv'
  BY BlocksNotEmpty, SamePart, BlockSteps, BT!NextInv DEF BlocksInv
<1> QED
  BY <1>1, <1>2, PTL DEF Spec

\* Unless a free block was merged with one it does not touch, or the process was
\* killed with an old index file: the blocks of the client of B_Tree/FileStorage.hpp
\* and the free ones tile the file, through any calls and any number of
\* processes, and what was stored in a block is loaded.
THEOREM BlocksAreKept == Spec => []BlocksKept
<1>1. BlocksInv => BlocksKept
  BY BlocksNotEmpty, BT!InvTiles, BT!InvStored DEF BlocksInv, BlocksKept
<1> QED
  BY <1>1, BlocksHold, PTL

-----------------------------------------------------------------------------

MapInv == part = "FileHashMap" => HM!Inv

LEMMA MapHolds == Spec => []MapInv
<1>1. Init => MapInv
  BY HM!InitInv DEF Init, MapInv
<1>2. MapInv /\ [Next]_vars => MapInv'
  BY MapNumbers, SamePart, MapSteps, HM!NextInv DEF MapInv
<1> QED
  BY <1>1, <1>2, PTL DEF Spec

\* Whatever add of FileStrHashMap put into the map last is found, with its value
\* and whole, and what del took out is not, through restarts and through being
\* killed between any two operations on the storage, but where the file leads to a
\* freed block, and inside any but allocate, whose split is two writes.
THEOREM AddedIsFound == Spec => []KeptIsFound
<1>1. MapInv => KeptIsFound
  BY MapNumbers, HM!InvHolds DEF MapInv, KeptIsFound
<1> QED
  BY <1>1, MapHolds, PTL

\* In the same states every chain of the map ends, holds the nodes of its bucket
\* only and no key twice, and no block has two uses.
THEOREM ChainsAreSound == Spec => []ChainsSound
<1>1. MapInv => ChainsSound
  BY MapNumbers, HM!InvHolds DEF MapInv, ChainsSound
<1> QED
  BY <1>1, MapHolds, PTL

\* An iterator of the map reads every entry once, and size() is their number,
\* unless the process was killed between linking or unlinking an entry and
\* counting it.
THEOREM EveryEntryIsRead == Spec => []IterationComplete
<1>1. MapInv => IterationComplete
  BY MapNumbers, HM!InvHolds DEF MapInv, IterationComplete
<1> QED
  BY <1>1, MapHolds, PTL

-----------------------------------------------------------------------------
(* The documents.                                                          *)

PoolHeld == part = "JsonMap" => PoolInv

LEMMA PoolHolds == Spec => []PoolHeld
<1>1. Init => PoolHeld
  BY PoolInit DEF Init, PoolHeld
<1>2. PoolHeld /\ [Next]_vars => PoolHeld'
  BY JsonIndices, SamePart, PoolSteps, PoolNext DEF PoolHeld
<1> QED
  BY <1>1, <1>2, PTL DEF Spec

\* No pointer that the object of Basic/Json.hpp keeps leads to a node that a
\* parse gave back, whatever is parsed, looked up and assigned, unless the last
\* text was refused at its first character (parse, add, operator[], operator=).
THEOREM NoneDangles == Spec => []NothingDangling
<1>1. PoolHeld => NothingDangling
  BY PoolDangling DEF PoolHeld, NothingDangling
<1> QED
  BY <1>1, PoolHolds, PTL

TreeHeld == part = "JsonTree" => TreeSound

LEMMA TreeHolds == Spec => []TreeHeld
<1>1. Init => TreeHeld
  BY TreeInit DEF Init, TreeHeld
<1>2. TreeHeld /\ [Next]_vars => TreeHeld'
  BY SamePart, TreeSteps, TreeNext DEF TreeHeld
<1> QED
  BY <1>1, <1>2, PTL DEF Spec

\* Whatever is parsed, looked up, converted and assigned, and whatever throws on the
\* way: until a conversion has freed a new node, the nodes of Json/new/Json.hpp form
\* a tree of nodes in use with the cursor in it, and the keys and strings in it are
\* in the copy of the last text or of their own, unless that text was refused at its
\* first character or had a container in an object before it had a key.  A string
\* that was assigned has no text: its record was overwritten.
THEOREM TreeStaysWhole == Spec => []TreeIntact
<1>1. TreeHeld => TreeIntact
  BY TreeWhole DEF TreeHeld, TreeIntact
<1> QED
  BY <1>1, TreeHolds, PTL

-----------------------------------------------------------------------------
(* The server of Socket_Svr_Epoll.                                         *)

ServerInv == part = "SocketServer" => ServerWell

LEMMA ServerHolds == Spec => []ServerInv
<1>1. Init => ServerInv
  BY ServerInit DEF Init, ServerInv
<1>2. ServerInv /\ [Next]_vars => ServerInv'
  BY SamePart, ServerSteps, ServerNext DEF ServerInv
<1> QED
  BY <1>1, <1>2, PTL DEF Spec

\* The sockets, events, queue and threads of the server keep their types, through
\* any number of starts beside a running one.
THEOREM ServerTyped == Spec => [](part = "SocketServer" => ServerTypes)
<1>1. ServerInv => (part = "SocketServer" => ServerTypes)
  BY DEF ServerInv, ServerWell
<1> QED
  BY <1>1, ServerHolds, PTL

\* While the server of Socket_Svr_Epoll runs, on the socket it has registered, a
\* connection that waits has an event of the edge-triggered epoll to come, or
\* control_thread_run is on its way through the accept loop: of the four failures
\* that end the loop one found nothing waiting, unless accept failed four times
\* beside a waiting connection, and what came later has an event of its own.
THEOREM NoneOverlooked == Spec => []WaitingIsSignalled
<1>1. ServerInv => WaitingIsSignalled
  BY DEF ServerInv, WaitingIsSignalled, ServerWell
<1> QED
  BY <1>1, ServerHolds, PTL
=============================================================================
