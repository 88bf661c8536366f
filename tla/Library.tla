------------------------------- MODULE Library -------------------------------
(***************************************************************************)
(* A bench for the parts of the library that nothing connects: a behaviour *)
(* takes one of them and exercises it alone.  The constants are those of   *)
(* the parts.  The variables of the part are v1, v2, ...; the others stay  *)
(* Off.                                                                    *)
(*                                                                         *)
(* The parts with proofs of their own are instances of the modules of the  *)
(* proofs: they have the part's definitions and what is proved of them.    *)
(***************************************************************************)
EXTENDS LibraryParts

CONSTANTS Keys, Values, bucketSize, Hash, MaxHandle, MaxCrash, MaxCall,   \* FileHashMap
          BlockSizes, MaxEnd,                                             \* BTreeStorage
          lenSize, BufSizes, Lengths, Payloads, Word, MaxShort            \* BufferList

VARIABLE part

vars == <<part, v1, v2, v3, v4, v5, v6, v7, v8, v9, v10, v11, v12, v13, v14, v15>>

Off == "off"

-----------------------------------------------------------------------------

HM == INSTANCE FileHashMapProofs WITH
    store <- v1, mem <- v2, todo <- v3, call <- v4, allowed <- v5, dangled <- v6,
    miscounted <- v7, crashes <- v8, calls <- v9

BT == INSTANCE BTreeStorageProofs WITH
    Sizes <- BlockSizes, space <- v1, index <- v2, data <- v3, held <- v4,
    strayed <- v5, lost <- v6

BL == INSTANCE BufferListProofs WITH
    ring <- v1, content <- v2, got <- v3, shorts <- v4, broken <- v5

ASSUME BlocksNotEmpty == BT!SomeSizes
ASSUME RingNumbers == BL!Numbers
ASSUME MapNumbers == HM!MapBounds

-----------------------------------------------------------------------------

Init ==
    \/ /\ part = "JsonMap" /\ JM!Init
       /\ v15 = Off
    \/ /\ part = "JsonTree" /\ JT!Init
       /\ v15 = Off
    \/ /\ part = "FileHashMap" /\ HM!Init
       /\ v10 = Off /\ v11 = Off /\ v12 = Off /\ v13 = Off /\ v14 = Off /\ v15 = Off
    \/ /\ part = "BTreeStorage" /\ BT!Init
       /\ v7 = Off /\ v8 = Off /\ v9 = Off /\ v10 = Off /\ v11 = Off /\ v12 = Off /\ v13 = Off /\ v14 = Off /\ v15 = Off
    \/ /\ part = "BufferList" /\ BL!Init
       /\ v6 = Off /\ v7 = Off /\ v8 = Off /\ v9 = Off /\ v10 = Off /\ v11 = Off /\ v12 = Off /\ v13 = Off /\ v14 = Off /\ v15 = Off
    \/ /\ part = "MsgQueueIPC" /\ MQ!Init
       /\ v11 = Off /\ v12 = Off /\ v13 = Off /\ v14 = Off /\ v15 = Off
    \/ /\ part = "SocketServer" /\ SS!Init
    \/ /\ part = "JsonBuffer" /\ JB!Init
       /\ v5 = Off /\ v6 = Off /\ v7 = Off /\ v8 = Off /\ v9 = Off /\ v10 = Off /\ v11 = Off /\ v12 = Off /\ v13 = Off /\ v14 = Off /\ v15 = Off

Next ==
    /\ UNCHANGED part
    /\ \/ /\ part = "JsonMap" /\ JM!Next /\ UNCHANGED <<v15>>
       \/ /\ part = "JsonTree" /\ JT!Next /\ UNCHANGED <<v15>>
       \/ /\ part = "FileHashMap" /\ HM!Next /\ UNCHANGED <<v10, v11, v12, v13, v14, v15>>
       \/ /\ part = "BTreeStorage" /\ BT!Next /\ UNCHANGED <<v7, v8, v9, v10, v11, v12, v13, v14, v15>>
       \/ /\ part = "BufferList" /\ BL!Next /\ UNCHANGED <<v6, v7, v8, v9, v10, v11, v12, v13, v14, v15>>
       \/ /\ part = "MsgQueueIPC" /\ MQ!Next /\ UNCHANGED <<v11, v12, v13, v14, v15>>
       \/ /\ part = "SocketServer" /\ SS!Next
       \/ /\ part = "JsonBuffer" /\ JB!Next /\ UNCHANGED <<v5, v6, v7, v8, v9, v10, v11, v12, v13, v14, v15>>

\* The threads of the server are scheduled.
ServerStep(A) == part = "SocketServer" /\ A /\ UNCHANGED part
Fairness ==
    /\ WF_vars(ServerStep(SS!ControlStep))
    /\ \A w \in Workers : WF_vars(ServerStep(SS!WorkerStep(w)))
    /\ WF_vars(ServerStep(SS!MainStep))

Spec == Init /\ [][Next]_vars /\ Fairness

-----------------------------------------------------------------------------
(***************************************************************************)
(* The properties of the parts; each is stated and explained in its        *)
(* module.                                                                 *)
(***************************************************************************)

\* Every part keeps its types.
TypeOK ==
    /\ part = "JsonMap" => JM!TypeOK
    /\ part = "JsonTree" => JT!TypeOK
    /\ part = "FileHashMap" => HM!TypeOK
    /\ part = "BTreeStorage" => BT!TypeOK
    /\ part = "BufferList" => BL!TypeOK
    /\ part = "MsgQueueIPC" => MQ!TypeOK
    /\ part = "SocketServer" => SS!TypeOK
    /\ part = "JsonBuffer" => JB!TypeOK

\* A text that parse of Basic/Json.hpp accepts has become the document it means.
ParsedDocument == part = "JsonMap" => JM!ParsedDocument

\* No pointer of the document of Basic/Json.hpp leads to freed memory.
NothingDangling == part = "JsonMap" => JM!NothingDangling

\* Basic/Json.hpp and Json/new/Json.hpp implement a document with a cursor
\* (JsonDocument), in the calls that succeed.  What a string becomes that is
\* assigned to the latter cannot be read back.
MapIsDocument ==
    /\ part = "JsonMap" => JM!D!Init
    /\ [][part = "JsonMap" => [JM!D!Next]_JM!D!document]_vars
TreeIsDocument ==
    /\ part = "JsonTree" => JT!D!Init
    /\ [][part = "JsonTree" => [JT!D!Next]_JT!D!document]_vars

\* The same for parse of Json/new/Json.hpp, which nothing is said of where a
\* container stands in an object before its first key.
ParsedTree == part = "JsonTree" => JT!ParsedTree

\* The nodes of Json/new/Json.hpp form a tree of nodes in use, and no key or string
\* in it is in a text that was freed, but for what JsonTree says of texts that are
\* refused or have a container in place of a key.
TreeIntact == part = "JsonTree" => JT!TreeIntact

\* What was added to the hash map of FileStrHashMap is found, and only that.
KeptIsFound == part = "FileHashMap" => HM!KeptIsFound

\* Its chains are sound and share no block.
ChainsSound == part = "FileHashMap" => HM!ChainsSound

\* Its iterator reads every entry once.
IterationComplete == part = "FileHashMap" => HM!IterationComplete

\* The blocks of the client of B_Tree/FileStorage.hpp and the free ones tile
\* the file, and what was stored in a block is loaded.
BlocksKept == part = "BTreeStorage" => BT!BlocksTile /\ BT!StoredIsLoaded

\* The records of BufferList come out as they went in.
RecordsWhole == part = "BufferList" => BL!RecordsWhole

\* Its space on record is the space there is.
SpaceAgrees == part = "BufferList" => BL!SpaceAgrees

\* A buffer of Msg_Queue_IPC has one owner.
BufferHasOneOwner == part = "MsgQueueIPC" => MQ!BufferHasOneOwner

\* A message of Msg_Queue_IPC arrives as it was sent.
DataIntact == part = "MsgQueueIPC" => MQ!DataIntact

\* No connection waits while nothing is about to accept it.
WaitingIsSignalled == part = "SocketServer" => SS!WaitingIsSignalled

\* Stop_Svr of Socket_Svr_Epoll comes to its end.
StopReturns ==
    (part = "SocketServer" /\ v12 = "joining") ~> (part = "SocketServer" /\ v12 \in {"stopped", "thrown"})

\* The pieces that JsonBuffer hands out share no byte.
PiecesDisjoint == part = "JsonBuffer" => JB!PiecesDisjoint
=============================================================================
