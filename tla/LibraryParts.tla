---------------------------- MODULE LibraryParts ----------------------------
(***************************************************************************)
(* The parts of the bench, Library, whose proofs are made for the bench,   *)
(* in LibraryPartsProofs.                                                  *)
(***************************************************************************)
EXTENDS Integers, Sequences

CONSTANTS Texts, Names, Indices, Leaves, MaxCalls, ParseCalls,            \* JsonMap, JsonTree
          Senders, Receivers, ArraySize, Messages, MaxTimes,              \* MsgQueueIPC
          Workers, Ports, Backlog, MaxConn, QueueSize, MaxStart,          \* SocketServer
          buffSize, PieceSizes, MaxPieces                                 \* JsonBuffer

VARIABLES v1, v2, v3, v4, v5, v6, v7, v8, v9, v10, v11, v12, v13, v14, v15

\* What the two models of a document have in common has one place.
JM == INSTANCE JsonMap WITH
    Keys <- Names, given <- v1, cur <- v2, pos <- v3, pc <- v4, ret <- v5,
    m_Map <- v6, node <- v7, allocated <- v8, m_DeepNode <- v9, m_Stack <- v10,
    at <- v11, m_NodeID <- v12, calls <- v13, m_head <- v14

JT == INSTANCE JsonTree WITH
    Keys <- Names, given <- v1, buffer <- v2, pos <- v3, pc <- v4, ret <- v5,
    key <- v6, node <- v7, allocated <- v8, m_DeepNode <- v9, m_Stack <- v10,
    at <- v11, misread <- v12, calls <- v13, keyless <- v14

MQ == INSTANCE MsgQueueIPC WITH
    Data <- Messages,
    free <- v1, used <- v2, exists <- v3, buffer <- v4, pc <- v5, hand <- v6,
    datum <- v7, times <- v8, due <- v9, wanted <- v10

SS == INSTANCE SocketServer WITH
    m_svr_status <- v1, m_sck <- v2, listening <- v3, taken <- v4, pending <- v5,
    edge <- v6, event <- v7, control <- v8, retry <- v9, queue <- v10,
    worker <- v11, main <- v12, joined <- v13, connections <- v14, failures <- v15

JB == INSTANCE JsonBuffer WITH
    Sizes <- PieceSizes, m_buffPool <- v1, nowBuff <- v2, leftSize <- v3, pieces <- v4

ASSUME JsonIndices == Indices \subseteq Int
ASSUME QueueRoles == Senders \cap Receivers = {} /\ ArraySize \in Nat /\ MaxTimes \in Nat
ASSUME ServerBounds == Backlog \in Nat /\ MaxConn \in Nat /\ QueueSize \in Nat /\ MaxStart \in Nat
ASSUME MemoryRequests == PieceSizes \subseteq Nat \ {0} /\ buffSize \in Int
=============================================================================
