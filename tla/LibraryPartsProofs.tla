--------------------------- MODULE LibraryPartsProofs -----------------------
(***************************************************************************)
(* What is proved of the parts of the bench in LibraryParts: for each an   *)
(* invariant that its initial states satisfy and its steps keep, and what  *)
(* follows from it.  LibraryProofs concludes the theorems of the bench.    *)
(***************************************************************************)
EXTENDS LibraryParts, SequenceTheorems, FiniteSetTheorems, WellFoundedInduction, TLAPS

\* The instances count as FiniteSets does.
LEMMA SameCount == ASSUME NEW S PROVE JT!Cardinality(S) = Cardinality(S) /\ MQ!Cardinality(S) = Cardinality(S)
<1>1. JT!Cardinality(S) = Cardinality(S)
  BY DEF JT!Cardinality, Cardinality
<1>2. MQ!Cardinality(S) = Cardinality(S)
  BY DEF MQ!Cardinality, Cardinality
<1> QED BY <1>1, <1>2

(***************************************************************************)
(* The two models of a document.  Basic/Json.hpp gives its nodes back all  *)
(* at once, when a parse begins; its map and its cursor name nodes of the  *)
(* pool.  Json/new/Json.hpp frees what it replaces, and its nodes form a   *)
(* tree all the same: a node is younger than its parent, so its pointer is *)
(* the greater number.                                                     *)
(***************************************************************************)

\* The variables by the names that JsonMap and JsonTree give them: v2 is cur for
\* the one and buffer for the other, v6 m_Map and key, v12 m_NodeID and misread,
\* v14 m_head and keyless.
given == v1
cur == v2
pos == v3
pc == v4
ret == v5
m_Map == v6
node == v7
allocated == v8
m_DeepNode == v9
m_Stack == v10
at == v11
m_NodeID == v12
calls == v13
m_head == v14
buffer == v2
key == v6
misread == v12
keyless == v14

USE DEF given, cur, pos, pc, ret, m_Map, node, allocated, m_DeepNode,
        m_Stack, at, m_NodeID, calls, m_head, buffer, key, misread, keyless

(* The pool and the map of Basic/Json.hpp.                                 *)

\* A node of the pool, and the entries that its elements have in the map.
PoolShaped(p) ==
    /\ node[p] = [value |-> node[p].value, id |-> node[p].id, num |-> node[p].num]
    /\ node[p].num \in Nat
PoolListed(p) == \A i \in 0 .. node[p].num - 1 : <<node[p].id, JM!Index(i)>> \in DOMAIN m_Map

PoolParsing == pc \in {"outer", "members", "elements"}

\* Whatever the map leads to is in the pool, and so is the current container, unless
\* the text was refused at its first character: then the pool is empty.
PoolInv ==
    /\ \A p \in DOMAIN node : PoolShaped(p) /\ PoolListed(p)
    /\ \A m \in DOMAIN m_Map : m = <<m[1], m[2]>> /\ m_Map[m] \in DOMAIN node
    /\ m_Stack \in Seq(DOMAIN node)
    /\ PoolParsing => cur \in DOMAIN node /\ ret = "parsing"
    /\ pc = "members" => JM!TypeOf(cur) # "array"
    /\ IF ret \in {"none", "-1"} THEN DOMAIN node = {} ELSE m_head \in DOMAIN node /\ m_DeepNode \in DOMAIN node

LEMMA PoolInit == JM!Init => PoolInv
<1> SUFFICES ASSUME JM!Init PROVE PoolInv
  OBVIOUS
<1>1. node = <<>> /\ m_Map = <<>> /\ DOMAIN node = {} /\ DOMAIN m_Map = {} /\ m_Stack = <<>>
  BY DEF JM!Init
<1> QED BY <1>1 DEF JM!Init, PoolInv, PoolParsing

\* A member p with the key k comes into the container q.
LEMMA PoolMember ==
    ASSUME PoolInv, NEW q \in DOMAIN node, NEW p, NEW value, NEW k,
           k = JM!Index(node[q].num) \/ JM!TypeOf(q) # "array",
           node' = JM!With([node EXCEPT ![q].num = IF JM!TypeOf(q) = "array" THEN @ + 1 ELSE @], p, JM!NewNode(value)),
           m_Map' = JM!add(m_Map, node[q].id, k, p)
    PROVE  /\ DOMAIN node \cup {p} = DOMAIN node'
           /\ \A x \in DOMAIN node' : PoolShaped(x)' /\ PoolListed(x)'
           /\ \A m \in DOMAIN m_Map' : m = <<m[1], m[2]>> /\ m_Map'[m] \in DOMAIN node'
<1> DEFINE n == [node EXCEPT ![q].num = IF JM!TypeOf(q) = "array" THEN @ + 1 ELSE @]
           entry == <<node[q].id, k>>
<1>1. /\ DOMAIN n = DOMAIN node /\ \A x \in DOMAIN node : x # q => n[x] = node[x]
      /\ n[q] = [node[q] EXCEPT !.num = IF JM!TypeOf(q) = "array" THEN @ + 1 ELSE @]
  OBVIOUS
<1>2. /\ node[q] = [value |-> node[q].value, id |-> node[q].id, num |-> node[q].num] /\ node[q].num \in Nat
      /\ PoolListed(q)
  BY DEF PoolInv, PoolShaped
<1>3. /\ n[q].value = node[q].value /\ n[q].id = node[q].id
      /\ n[q].num = (IF JM!TypeOf(q) = "array" THEN node[q].num + 1 ELSE node[q].num)
      /\ n[q] = [value |-> n[q].value, id |-> n[q].id, num |-> n[q].num]
  BY <1>1, <1>2
<1>4. /\ DOMAIN m_Map' = DOMAIN m_Map \cup {entry} /\ m_Map'[entry] = p
      /\ \A m \in DOMAIN m_Map : m # entry => m_Map'[m] = m_Map[m]
  <2>1. m_Map' = JM!With(m_Map, entry, p)
    BY DEF JM!add
  <2> HIDE DEF entry
  <2> QED BY ONLY <2>1 DEF JM!With
<1> HIDE DEF n
<1>5. /\ DOMAIN node' = DOMAIN node \cup {p} /\ node'[p] = JM!NewNode(value)
      /\ \A x \in DOMAIN node : x # p => node'[x] = n[x]
  <2>1. node' = JM!With(n, p, JM!NewNode(value))
    BY DEF n
  <2> QED BY ONLY <1>1, <2>1 DEF JM!With
<1>6. ASSUME NEW x \in DOMAIN node' PROVE PoolShaped(x)' /\ PoolListed(x)'
  <2>1. CASE x = p
    <3>1. node'[x] = [value |-> value, id |-> m_NodeID, num |-> 0]
      BY <1>5, <2>1 DEF JM!NewNode
    <3>2. node'[x].value = value /\ node'[x].id = m_NodeID /\ node'[x].num = 0
      BY <3>1
    <3>3. node'[x] = [value |-> node'[x].value, id |-> node'[x].id, num |-> node'[x].num]
      BY <3>1, <3>2
    <3>4. PoolShaped(x)'
      BY <3>2, <3>3 DEF PoolShaped
    <3>5. PoolListed(x)'
      BY <3>2 DEF PoolListed
    <3> QED BY <3>4, <3>5
  <2>2. CASE x # p /\ x = q
    <3>1. node'[x] = n[q]
      BY <1>5, <2>2
    <3>2. PoolShaped(x)'
      <4>1. n[q].num \in Nat
        BY <1>2, <1>3
      <4> QED BY <1>3, <3>1, <4>1 DEF PoolShaped
    <3>3. ASSUME NEW i \in 0 .. n[q].num - 1 PROVE <<n[q].id, JM!Index(i)>> \in DOMAIN m_Map'
      <4>1. CASE i \in 0 .. node[q].num - 1
        BY <1>2, <1>3, <1>4, <4>1 DEF PoolListed
      <4>2. CASE i \notin 0 .. node[q].num - 1
        <5>1. JM!TypeOf(q) = "array" /\ i = node[q].num
          BY <1>2, <1>3, <4>2
        <5> QED BY <1>3, <1>4, <5>1
      <4> QED BY <4>1, <4>2
    <3> QED BY <3>1, <3>2, <3>3 DEF PoolListed
  <2>3. CASE x # p /\ x # q
    <3>1. x \in DOMAIN node /\ node'[x] = node[x]
      BY <1>1, <1>5, <2>3
    <3>2. PoolShaped(x) /\ PoolListed(x)
      BY <3>1 DEF PoolInv
    <3> QED BY <1>4, <3>1, <3>2 DEF PoolShaped, PoolListed
  <2> QED BY <2>1, <2>2, <2>3
<1>7. ASSUME NEW m \in DOMAIN m_Map' PROVE m = <<m[1], m[2]>> /\ m_Map'[m] \in DOMAIN node'
  <2>1. CASE m = entry
    BY <1>4, <1>5, <2>1
  <2>2. CASE m # entry
    BY <1>4, <1>5, <2>2 DEF PoolInv
  <2> QED BY <2>1, <2>2
<1> QED BY <1>5, <1>6, <1>7

LEMMA PoolParse == ASSUME PoolInv, NEW t \in Texts, JM!parse(t) PROVE PoolInv'
<1>0. PICK p : p = allocated + 1
  OBVIOUS
<1>1. m_Stack' = <<>> /\ m_Map' = <<>> /\ DOMAIN m_Map' = {}
  <2>1. m_Stack' = <<>> /\ m_Map' = <<>>
    BY DEF JM!parse, JM!EmptyMap
  <2> QED BY <2>1
<1>2. \/ JM!Answer("-1") /\ node' = <<>>
      \/ /\ pc' = "outer" /\ ret' = "parsing" /\ m_head' = p /\ m_DeepNode' = p /\ cur' = p
         /\ \E type : node' = JM!With(<<>>, p, JM!NewNode(JM!EmptyOf(type)))
  <2> DEFINE start == JM!NextNotIn(t.chars, 1, {" "})
             type == CASE JM!At(t.chars, start) = "{" -> "object"
                       [] JM!At(t.chars, start) = "[" -> "array"
                       [] OTHER -> "none"
  <2> HIDE DEF type
  <2> QED BY <1>0 DEF JM!parse, type
<1>3. CASE JM!Answer("-1") /\ node' = <<>>
  <2>1. DOMAIN node' = {}
    BY <1>3
  <2> QED BY <1>1, <1>3, <2>1 DEF JM!Answer, PoolInv, PoolParsing
<1>4. CASE /\ pc' = "outer" /\ ret' = "parsing" /\ m_head' = p /\ m_DeepNode' = p /\ cur' = p
           /\ \E type : node' = JM!With(<<>>, p, JM!NewNode(JM!EmptyOf(type)))
  <2>1. PICK type : node' = JM!With(<<>>, p, JM!NewNode(JM!EmptyOf(type)))
    BY <1>4
  <2>2. DOMAIN node' = {p} /\ node'[p] = JM!NewNode(JM!EmptyOf(type))
    BY ONLY <2>1 DEF JM!With
  <2>3. node'[p] = [value |-> JM!EmptyOf(type), id |-> m_NodeID, num |-> 0]
    BY <2>2 DEF JM!NewNode
  <2>4. node'[p].value = JM!EmptyOf(type) /\ node'[p].id = m_NodeID /\ node'[p].num = 0
    BY <2>3
  <2>5. PoolShaped(p)' /\ PoolListed(p)'
    <3>1. node'[p] = [value |-> node'[p].value, id |-> node'[p].id, num |-> node'[p].num]
      BY <2>3, <2>4
    <3>2. PoolShaped(p)'
      BY <2>4, <3>1 DEF PoolShaped
    <3>3. PoolListed(p)'
      BY <2>4 DEF PoolListed
    <3> QED BY <3>2, <3>3
  <2> QED BY <1>1, <1>4, <2>2, <2>5 DEF PoolInv
<1> QED BY <1>2, <1>3, <1>4

LEMMA FrontIs ==
    ASSUME NEW S, NEW s \in Seq(S), s # <<>>
    PROVE  JM!Front(s) \in Seq(S) /\ JM!Last(s) \in S
<1>1. Len(s) \in Nat /\ Len(s) # 0
  OBVIOUS
<1>2. Len(s) \in 1 .. Len(s) /\ Len(s) - 1 \in 0 .. Len(s)
  BY <1>1
<1> QED BY <1>2 DEF JM!Front, JM!Last

LEMMA PoolClose == ASSUME PoolInv, pc = "outer", NEW p, JM!Close(p), UNCHANGED m_DeepNode PROVE PoolInv'
<1>1. node' = node /\ m_Map' = m_Map /\ m_head' = m_head /\ m_DeepNode' = m_DeepNode
  BY DEF JM!Close, JM!store
<1>2. m_Stack' \in Seq(DOMAIN node) /\ cur' \in DOMAIN node
  <2>1. CASE m_Stack = <<>>
    BY <2>1 DEF JM!Close, PoolInv, PoolParsing
  <2>2. CASE m_Stack # <<>>
    BY <2>2, FrontIs DEF JM!Close, PoolInv
  <2> QED BY <2>1, <2>2
<1>3. ret' \in {"parsing", "1", "threw"} /\ (PoolParsing' => ret' = "parsing") /\ pc' # "members"
  BY DEF JM!Close, JM!Answer, PoolInv, PoolParsing
<1>4. m_head \in DOMAIN node /\ m_DeepNode \in DOMAIN node
  BY DEF PoolInv, PoolParsing
<1> QED BY <1>1, <1>2, <1>3, <1>4 DEF PoolInv, PoolShaped, PoolListed

LEMMA PoolInsert ==
    ASSUME PoolInv, PoolParsing, NEW k, NEW v, NEW loop \in {"members", "elements"}, NEW closing,
           k = JM!Index(node[cur].num) \/ JM!TypeOf(cur) # "array",
           loop = "members" => JM!TypeOf(cur) # "array",
           JM!Insert(k, v, loop, closing), UNCHANGED m_DeepNode
    PROVE  PoolInv'
<1> DEFINE p == allocated + 1
<1>1. cur \in DOMAIN node /\ ret = "parsing" /\ m_head \in DOMAIN node /\ m_DeepNode \in DOMAIN node
  BY DEF PoolInv
<1>2. /\ node' = JM!With([node EXCEPT ![cur].num = IF JM!TypeOf(cur) = "array" THEN @ + 1 ELSE @], p, JM!NewNode(v.value))
      /\ m_Map' = JM!add(m_Map, node[cur].id, k, p) /\ m_head' = m_head
  BY DEF JM!Insert
<1>3. /\ DOMAIN node \cup {p} = DOMAIN node'
      /\ \A x \in DOMAIN node' : PoolShaped(x)' /\ PoolListed(x)'
      /\ \A m \in DOMAIN m_Map' : m = <<m[1], m[2]>> /\ m_Map'[m] \in DOMAIN node'
  BY <1>1, <1>2, PoolMember
<1>4. m_Stack' \in Seq(DOMAIN node') /\ cur' \in DOMAIN node'
  <2>1. m_Stack \in Seq(DOMAIN node')
    BY <1>3 DEF PoolInv
  <2>2. (m_Stack' = m_Stack /\ cur' = cur) \/ (m_Stack' = Append(m_Stack, cur) /\ cur' = p)
    BY DEF JM!Insert
  <2> QED BY <1>1, <1>3, <2>1, <2>2
<1>5. ret' \in {"parsing", "threw"} /\ (PoolParsing' => ret' = "parsing")
  BY <1>1 DEF JM!Insert, JM!Answer, PoolParsing
<1>6. pc' = "members" => JM!TypeOf(cur)' # "array"
  <2> SUFFICES ASSUME pc' = "members" PROVE JM!TypeOf(cur)' # "array"
    OBVIOUS
  <2>1. ~JM!IsContainer(v.value[1]) /\ loop = "members" /\ cur' = cur
    BY DEF JM!Insert, JM!Answer
  <2>2. CASE cur = p
    <3> DEFINE n == [node EXCEPT ![cur].num = IF JM!TypeOf(cur) = "array" THEN @ + 1 ELSE @]
    <3>1. node' = JM!With(n, p, JM!NewNode(v.value))
      BY <1>2
    <3> HIDE DEF n, p
    <3>2. node'[p] = JM!NewNode(v.value)
      BY ONLY <3>1 DEF JM!With
    <3>3. node'[p].value = v.value
      BY <3>2 DEF JM!NewNode
    <3> QED BY <2>1, <2>2, <3>3 DEF JM!TypeOf, JM!IsContainer, p
  <2>3. CASE cur # p
    <3>1. [node EXCEPT ![cur].num = IF JM!TypeOf(cur) = "array" THEN @ + 1 ELSE @][cur].value = node[cur].value
      BY <1>1 DEF PoolInv, PoolShaped
    <3>2. node'[cur].value = node[cur].value
      <4> DEFINE n == [node EXCEPT ![cur].num = IF JM!TypeOf(cur) = "array" THEN @ + 1 ELSE @]
      <4>1. DOMAIN n = DOMAIN node
        OBVIOUS
      <4> HIDE DEF n
      <4>2. node'[cur] = n[cur]
        <5>1. node' = JM!With(n, p, JM!NewNode(v.value))
          BY <1>2 DEF n
        <5> QED BY ONLY <1>1, <2>3, <4>1, <5>1 DEF JM!With
      <4> QED BY <3>1, <4>2 DEF n
    <3> QED BY <2>1, <3>2 DEF JM!TypeOf
  <2> QED BY <2>2, <2>3
<1> QED BY <1>1, <1>2, <1>3, <1>4, <1>5, <1>6 DEF PoolInv

LEMMA PoolStep == ASSUME PoolInv, JM!ParseStep PROVE PoolInv'
<1>1. ASSUME PoolParsing, UNCHANGED <<cur, m_Stack, JM!store, m_DeepNode>>, JM!Answer("0") \/ JM!Answer("threw") \/ (JM!Crash /\ ret' = ret)
      PROVE  PoolInv'
  <2>1. node' = node /\ m_Map' = m_Map /\ m_Stack' = m_Stack /\ m_head' = m_head /\ m_DeepNode' = m_DeepNode
    BY <1>1 DEF JM!store
  <2>2. ~PoolParsing' /\ pc' # "members" /\ ret' \in {"0", "threw", "parsing"}
    BY <1>1 DEF JM!Answer, JM!Crash, PoolParsing, PoolInv
  <2>3. m_head \in DOMAIN node /\ m_DeepNode \in DOMAIN node
    BY <1>1 DEF PoolInv
  <2> QED BY <2>1, <2>2, <2>3 DEF PoolInv, PoolShaped, PoolListed
<1>2. PoolParsing /\ UNCHANGED m_DeepNode
  BY DEF JM!ParseStep, PoolParsing, JM!ParseMember, JM!ParseElement
<1>3. CASE JM!ParseMember /\ (pc = "members" \/ (pc = "outer" /\ JM!TypeOf(cur) = "object"))
  <2> DEFINE start == JM!skip_space_and_enter(pos)
             k == JM!getKey(start + 1)
             value == JM!getValue(JM!skip_space_and_enter(k.next))
  <2>1. \/ pc = "outer" /\ JM!Close(start)
        \/ JM!Answer("threw") /\ UNCHANGED <<cur, m_Stack, JM!store>>
        \/ JM!Crash /\ UNCHANGED <<cur, m_Stack, ret, JM!store>>
        \/ JM!Insert(k.value[2], value, "members", "}")
    <3> HIDE DEF value, k, start
    <3> QED BY <1>3 DEF JM!ParseMember, value, k, start
  <2>2. JM!TypeOf(cur) # "array"
    BY <1>3 DEF PoolInv
  <2> HIDE DEF value, k, start
  <2> QED BY <1>1, <1>2, <2>1, <2>2, PoolClose, PoolInsert
<1>4. CASE JM!ParseElement
  <2> DEFINE value == JM!getValue(pos)
  <2>1. \/ pc = "outer" /\ JM!Close(pos)
        \/ JM!Crash /\ UNCHANGED <<cur, m_Stack, ret, JM!store>>
        \/ JM!Insert(JM!Index(node[cur].num), value, "elements", "]")
    <3> HIDE DEF value
    <3> QED BY <1>4 DEF JM!ParseElement, value
  <2> HIDE DEF value
  <2> QED BY <1>1, <1>2, <2>1, PoolClose, PoolInsert
<1>5. CASE JM!Answer("0") /\ UNCHANGED <<cur, m_Stack, JM!store, m_DeepNode>>
  BY <1>1, <1>2, <1>5
<1> QED BY <1>3, <1>4, <1>5 DEF JM!ParseStep

-----------------------------------------------------------------------------

LEMMA PoolFound == ASSUME PoolInv, NEW id, NEW k, JM!find(id, k) # JM!NULL PROVE JM!find(id, k) \in DOMAIN node
  BY DEF JM!find, PoolInv

LEMMA PoolElement ==
    ASSUME PoolInv, NEW p \in DOMAIN node, NEW i \in 0 .. node[p].num - 1
    PROVE  JM!find(node[p].id, JM!Index(i)) \in DOMAIN node
<1>1. PoolListed(p)
  BY DEF PoolInv
<1> QED BY <1>1 DEF PoolInv, JM!find, PoolListed

\* A call that leaves the nodes and the map as they are.
LEMMA PoolStill ==
    ASSUME PoolInv, JM!Call, node' = node, m_Map' = m_Map, pc' \in {"idle", "crashed"}, ret' = ret,
           \/ m_DeepNode' = m_DeepNode
           \/ m_DeepNode' = m_head
           \/ m_DeepNode' \in DOMAIN node
    PROVE  PoolInv'
  BY DEF PoolInv, JM!Call, PoolShaped, PoolListed, PoolParsing

LEMMA PoolAdded ==
    ASSUME PoolInv, JM!Call, NEW k, ~(m_DeepNode \notin DOMAIN node), k = JM!Index(node[m_DeepNode].num) \/ JM!TypeOf(m_DeepNode) # "array", JM!Added(k)
    PROVE  PoolInv'
<1> DEFINE p == allocated + 1
<1>1. /\ node' = JM!With([node EXCEPT ![m_DeepNode].num = IF JM!TypeOf(m_DeepNode) = "array" THEN @ + 1 ELSE @], p, JM!NewNode(JM!EmptyOf("null")))
      /\ m_Map' = JM!add(m_Map, node[m_DeepNode].id, k, p) /\ m_DeepNode' = p /\ pc' = pc
  BY DEF JM!Added
<1>2. /\ DOMAIN node \cup {p} = DOMAIN node'
      /\ \A x \in DOMAIN node' : PoolShaped(x)' /\ PoolListed(x)'
      /\ \A m \in DOMAIN m_Map' : m = <<m[1], m[2]>> /\ m_Map'[m] \in DOMAIN node'
  BY <1>1, PoolMember
<1>3. pc = "idle" /\ m_Stack' = m_Stack /\ m_head' = m_head
  BY DEF JM!Call
<1>4. m_Stack \in Seq(DOMAIN node')
  BY <1>2 DEF PoolInv
<1>5. m_head \in DOMAIN node /\ ret \notin {"none", "-1"}
  BY DEF PoolInv
<1>6. ret' = "used"
  BY DEF JM!Added
<1> QED BY <1>1, <1>2, <1>3, <1>4, <1>5, <1>6 DEF PoolInv, PoolParsing

LEMMA PoolAssign == ASSUME PoolInv, NEW v \in Leaves, JM!AssignLeaf(v) PROVE PoolInv'
<1>1. CASE m_DeepNode \notin DOMAIN node
  BY <1>1, PoolStill DEF JM!AssignLeaf, JM!Lost, JM!Crash
<1>2. CASE m_DeepNode \in DOMAIN node
  <2>1. /\ node' = [node EXCEPT ![m_DeepNode].value = v] /\ m_DeepNode' = m_head /\ ret' = "used"
        /\ pc = "idle" /\ pc' = pc /\ m_Map' = m_Map /\ m_Stack' = m_Stack /\ m_head' = m_head
    BY <1>2 DEF JM!AssignLeaf, JM!Call
  <2>2. DOMAIN node' = DOMAIN node /\ m_head \in DOMAIN node
    BY <1>2, <2>1 DEF PoolInv
  <2>3. ASSUME NEW p \in DOMAIN node PROVE PoolShaped(p)' /\ PoolListed(p)'
    <3>1. PoolShaped(p) /\ PoolListed(p)
      BY DEF PoolInv
    <3>2. CASE p # m_DeepNode
      <4>1. node'[p] = node[p]
        BY <2>1, <3>2
      <4> QED BY <2>1, <3>1, <4>1 DEF PoolShaped, PoolListed
    <3>3. CASE p = m_DeepNode
      <4>1. node'[p] = [node[p] EXCEPT !.value = v]
        BY <2>1, <3>3
      <4>2. /\ node'[p] = [value |-> node'[p].value, id |-> node'[p].id, num |-> node'[p].num]
            /\ node'[p].id = node[p].id /\ node'[p].num = node[p].num
        BY <3>1, <4>1 DEF PoolShaped
      <4> QED BY <2>1, <3>1, <4>2 DEF PoolShaped, PoolListed
    <3> QED BY <3>2, <3>3
  <2> QED BY <2>1, <2>2, <2>3 DEF PoolInv, PoolParsing
<1> QED BY <1>1, <1>2

LEMMA PoolLookUp == ASSUME PoolInv, NEW k, JM!LookUp(k) \/ JM!LookUpString(k) PROVE PoolInv'
<1>1. CASE JM!Misused("object")
  BY <1>1, PoolStill DEF JM!LookUp, JM!LookUpString, JM!Lost, JM!Crash
<1>2. CASE ~JM!Misused("object")
  <2>1. m_DeepNode \in DOMAIN node /\ JM!TypeOf(m_DeepNode) # "array" /\ JM!Call
    BY <1>2 DEF JM!Misused, JM!LookUp, JM!LookUpString
  <2>2. \/ JM!Added(k)
        \/ JM!find(node[m_DeepNode].id, k) # JM!NULL /\ JM!Moved(k, JM!find(node[m_DeepNode].id, k))
        \/ UNCHANGED <<pc, ret, node, allocated, m_Map, m_NodeID, m_DeepNode, at>>
    BY <1>2 DEF JM!LookUp, JM!LookUpString
  <2>3. CASE JM!Added(k)
    BY <2>1, <2>3, PoolAdded
  <2>4. CASE JM!find(node[m_DeepNode].id, k) # JM!NULL /\ JM!Moved(k, JM!find(node[m_DeepNode].id, k))
    <3>1. m_DeepNode' \in DOMAIN node
      BY <2>4, PoolFound DEF JM!Moved
    <3> QED BY <2>1, <2>4, <3>1, PoolStill DEF JM!Moved, JM!Call
  <2>5. CASE UNCHANGED <<pc, ret, node, allocated, m_Map, m_NodeID, m_DeepNode, at>>
    BY <2>1, <2>5, PoolStill DEF JM!Call
  <2> QED BY <2>2, <2>3, <2>4, <2>5
<1> QED BY <1>1, <1>2

LEMMA PoolLookUpIndex == ASSUME PoolInv, NEW i \in Int, JM!LookUpIndex(i) PROVE PoolInv'
<1>1. CASE JM!Misused("array")
  BY <1>1, PoolStill DEF JM!LookUpIndex, JM!Lost, JM!Crash
<1>2. CASE ~JM!Misused("array")
  <2>1. m_DeepNode \in DOMAIN node /\ JM!Call
    BY <1>2 DEF JM!Misused, JM!LookUpIndex
  <2>2. CASE JM!Beyond(i)
    BY <1>2, <2>1, <2>2, PoolAdded DEF JM!LookUpIndex
  <2>3. CASE ~JM!Beyond(i)
    <3>1. JM!Moved(JM!Index(i), JM!find(node[m_DeepNode].id, JM!Index(i)))
      BY <1>2, <2>3 DEF JM!LookUpIndex
    <3>2. i \in 0 .. node[m_DeepNode].num - 1
      BY <2>1, <2>3 DEF JM!Beyond, PoolInv, PoolShaped
    <3>3. m_DeepNode' \in DOMAIN node
      BY <2>1, <3>1, <3>2, PoolElement DEF JM!Moved
    <3> QED BY <2>1, <3>1, <3>3, PoolStill DEF JM!Moved, JM!Call
  <2> QED BY <2>2, <2>3
<1> QED BY <1>1, <1>2

LEMMA PoolConvert == ASSUME PoolInv, JM!Convert PROVE PoolInv'
  BY PoolStill DEF JM!Convert, JM!Lost, JM!Crash, JM!Call

LEMMA PoolNext == ASSUME Indices \subseteq Int, PoolInv, [JM!Next]_(JM!vars) PROVE PoolInv'
<1>1. CASE UNCHANGED JM!vars
  BY <1>1 DEF JM!vars, JM!parser, JM!store, PoolInv, PoolShaped, PoolListed, PoolParsing, JM!TypeOf
<1>2. CASE JM!Next
  <2>1. ASSUME NEW i \in Indices, JM!LookUpIndex(i) PROVE PoolInv'
    BY <2>1, PoolLookUpIndex
  <2> QED BY <1>2, <2>1, PoolParse, PoolStep, PoolLookUp, PoolConvert, PoolAssign DEF JM!Next
<1> QED BY <1>1, <1>2

LEMMA PoolDangling == PoolInv => JM!NothingDangling
<1> SUFFICES ASSUME PoolInv PROVE JM!NothingDangling
  OBVIOUS
<1>1. JM!ToSet(m_Stack) \subseteq DOMAIN node
  BY DEF PoolInv, JM!ToSet
<1>2. ASSUME NEW p \in DOMAIN node, NEW k \in JM!MemberKeys(p) PROVE JM!find(node[p].id, k) \in DOMAIN node
  <2>1. CASE JM!TypeOf(p) = "array"
    <3>1. PICK i \in 0 .. node[p].num - 1 : k = JM!Index(i)
      BY <2>1 DEF JM!MemberKeys
    <3> QED BY <3>1, PoolElement
  <2>2. CASE JM!TypeOf(p) # "array"
    <3>1. PICK m \in DOMAIN m_Map : m[1] = node[p].id /\ k = m[2]
      BY <2>2 DEF JM!MemberKeys
    <3>2. m = <<node[p].id, k>> /\ m_Map[m] \in DOMAIN node
      BY <3>1 DEF PoolInv
    <3> QED BY <3>2 DEF JM!find
  <2> QED BY <2>1, <2>2
<1> QED BY <1>1, <1>2 DEF JM!NothingDangling, PoolInv

-----------------------------------------------------------------------------
(* Numbers.                                                                *)

\* The least member of a set of numbers.
LEMMA Least ==
    ASSUME NEW U, U \subseteq Nat, U # {}
    PROVE  \E x \in U : \A y \in U : x <= y
<1>1. PICK x \in U : \A y \in U : ~(<<y, x>> \in OpToRel(<, Nat))
  BY WFMin, NatLessThanWellFounded
<1>2. ASSUME NEW y \in U PROVE x <= y
  <2>1. ~(<<y, x>> \in {s \in Nat \X Nat : s[1] < s[2]})
    BY <1>1 DEF OpToRel
  <2> QED BY <2>1
<1> QED BY <1>2

LEMMA Greatest ==
    ASSUME NEW a \in Nat, NEW U, U \subseteq 1 .. a, U # {}
    PROVE  \E x \in U : \A y \in U : y <= x
<1> DEFINE V == {m \in 0 .. a : a - m \in U}
<1>1. V \subseteq Nat
  OBVIOUS
<1>2. ASSUME NEW x \in U PROVE a - x \in V
  <2>1. x \in 1 .. a /\ a - x \in 0 .. a /\ a - (a - x) = x
    OBVIOUS
  <2> QED BY <2>1
<1>3. \A m \in V : a - m \in U /\ m \in 0 .. a
  OBVIOUS
<1>4. V # {}
  BY <1>2
<1> HIDE DEF V
<1>5. PICK m \in V : \A l \in V : m <= l
  BY <1>1, <1>4, Least
<1>6. ASSUME NEW y \in U PROVE y <= a - m
  <2>1. m <= a - y /\ y \in 1 .. a /\ m \in 0 .. a
    BY <1>2, <1>3, <1>5
  <2> QED BY <2>1
<1> QED BY <1>3, <1>5, <1>6

-----------------------------------------------------------------------------
(* What is below a node.                                                   *)

Children(n, q) == {k \in JT!Kids(n, q) \cap DOMAIN n : k > q}
Closed(n, S) == \A y \in S : Children(n, y) \subseteq S
IsBelow(n, f) == f = [q \in DOMAIN n |-> Children(n, q) \cup UNION {f[k] : k \in Children(n, q)}]

\* Such a function there is: the least set that has the children of q and is
\* closed.
LEMMA BelowExists == ASSUME NEW n PROVE \E f : IsBelow(n, f)
<1> DEFINE Holds(S, q) == S \subseteq DOMAIN n /\ Children(n, q) \subseteq S /\ Closed(n, S)
           C(q) == {x \in DOMAIN n : \A S : Holds(S, q) => x \in S}
           f == [q \in DOMAIN n |-> C(q)]
           R(q) == Children(n, q) \cup UNION {f[k] : k \in Children(n, q)}
<1>1. \A q : Children(n, q) \subseteq DOMAIN n
  BY DEF Children
<1>2. ASSUME NEW q PROVE Children(n, q) \subseteq C(q) /\ C(q) \subseteq DOMAIN n
  BY <1>1
<1>3. ASSUME NEW q, NEW x \in C(q) PROVE Children(n, x) \subseteq C(q)
  <2> SUFFICES ASSUME NEW y \in Children(n, x), NEW S, Holds(S, q) PROVE y \in S
    BY <1>1
  <2>1. x \in S
    OBVIOUS
  <2> QED BY <2>1 DEF Closed
<1>4. ASSUME NEW q \in DOMAIN n PROVE R(q) = C(q)
  <2>1. ASSUME NEW x \in R(q) PROVE x \in C(q)
    <3>1. CASE x \in Children(n, q)
      BY <1>2, <3>1
    <3>2. CASE x \notin Children(n, q)
      <4>1. PICK k \in Children(n, q) : x \in C(k)
        BY <1>1, <3>2
      <4> SUFFICES ASSUME NEW S, Holds(S, q) PROVE x \in S
        BY <4>1
      <4>2. Children(n, k) \subseteq S
        BY <4>1 DEF Closed
      <4>3. Holds(S, k)
        BY <4>2
      <4> QED BY <4>1, <4>3
    <3> QED BY <3>1, <3>2
  <2>2. R(q) \subseteq DOMAIN n
    BY <1>1
  <2>3. Closed(n, R(q))
    <3> SUFFICES ASSUME NEW x \in R(q), NEW y \in Children(n, x) PROVE y \in R(q)
      BY DEF Closed
    <3>1. CASE x \in Children(n, q)
      <4>1. y \in C(x) /\ x \in DOMAIN n
        BY <1>1, <1>2, <3>1
      <4> QED BY <3>1, <4>1
    <3>2. CASE x \notin Children(n, q)
      <4>1. PICK k \in Children(n, q) : x \in C(k)
        BY <1>1, <3>2
      <4>2. y \in C(k) /\ k \in DOMAIN n
        BY <1>1, <1>3, <4>1
      <4> QED BY <4>1, <4>2
    <3> QED BY <3>1, <3>2
  <2>4. Holds(R(q), q)
    BY <2>2, <2>3
  <2> HIDE DEF R, Holds
  <2>5. ASSUME NEW x \in C(q) PROVE x \in R(q)
    BY <2>4
  <2> QED BY <2>1, <2>5
<1>5. IsBelow(n, f)
  <2>1. \A q \in DOMAIN n : C(q) = R(q)
    BY <1>4
  <2>2. f = [q \in DOMAIN n |-> R(q)]
    <3> HIDE DEF C, R
    <3> QED BY <2>1
  <2> HIDE DEF f, C
  <2> QED BY <2>2 DEF IsBelow, R
<1> QED BY <1>5

\* What such a function makes of q.
Stem(n, B, q) ==
    /\ B \subseteq DOMAIN n /\ Children(n, q) \subseteq B /\ Closed(n, B)
    /\ \A x \in B : x > q /\ \E p \in B \cup {q} : x \in Children(n, p)

LEMMA StemIs ==
    ASSUME NEW n, NEW a \in Nat, DOMAIN n \subseteq 1 .. a, NEW f, IsBelow(n, f)
    PROVE  \A q \in DOMAIN n : Stem(n, f[q], q)
<1> DEFINE Bad == {q \in DOMAIN n : ~Stem(n, f[q], q)}
<1> SUFFICES ASSUME Bad # {} PROVE FALSE
  OBVIOUS
<1>1. Bad \subseteq 1 .. a
  OBVIOUS
<1>2. PICK q \in Bad : \A p \in Bad : p <= q
  <2> HIDE DEF Bad
  <2> QED BY <1>1, Greatest
<1>3. \A k \in Children(n, q) : k \in DOMAIN n /\ k > q
  BY DEF Children
<1>4. \A k \in Children(n, q) : Stem(n, f[k], k)
  <2> SUFFICES ASSUME NEW k \in Children(n, q), k \in Bad PROVE FALSE
    BY <1>3
  <2>1. k <= q /\ k > q /\ k \in Nat /\ q \in Nat
    BY <1>1, <1>2, <1>3
  <2> QED BY <2>1
<1>5. f[q] = Children(n, q) \cup UNION {f[k] : k \in Children(n, q)}
  BY DEF IsBelow
<1>6. f[q] \subseteq DOMAIN n /\ Children(n, q) \subseteq f[q]
  BY <1>3, <1>4, <1>5 DEF Stem
<1>7. Closed(n, f[q])
  <2> SUFFICES ASSUME NEW x \in f[q], NEW y \in Children(n, x) PROVE y \in f[q]
    BY DEF Closed
  <2>1. CASE x \in Children(n, q)
    <3>1. y \in f[x]
      BY <1>4, <2>1 DEF Stem
    <3> QED BY <1>5, <2>1, <3>1
  <2>2. CASE x \notin Children(n, q)
    <3>1. PICK k \in Children(n, q) : x \in f[k]
      BY <1>5, <2>2
    <3>2. y \in f[k]
      BY <1>4, <3>1 DEF Stem, Closed
    <3> QED BY <1>5, <3>2
  <2> QED BY <2>1, <2>2
<1>8. ASSUME NEW x \in f[q] PROVE x > q /\ \E p \in f[q] \cup {q} : x \in Children(n, p)
  <2>1. CASE x \in Children(n, q)
    BY <1>3, <2>1
  <2>2. CASE x \notin Children(n, q)
    <3>1. PICK k \in Children(n, q) : x \in f[k]
      BY <1>5, <2>2
    <3>2. x > k /\ k > q /\ x \in Nat /\ k \in Nat /\ q \in Nat
      BY <1>1, <1>3, <1>4, <1>6, <3>1 DEF Stem
    <3>3. PICK p \in f[k] \cup {k} : x \in Children(n, p)
      BY <1>4, <3>1 DEF Stem
    <3>4. p \in f[q]
      BY <1>5, <3>1, <3>3
    <3> QED BY <3>2, <3>3, <3>4
  <2> QED BY <2>1, <2>2
<1>9. Stem(n, f[q], q)
  BY <1>6, <1>7, <1>8 DEF Stem
<1> QED BY <1>9

LEMMA BelowIs ==
    ASSUME NEW n, NEW a \in Nat, DOMAIN n \subseteq 1 .. a, NEW q \in DOMAIN n
    PROVE  Stem(n, JT!Below(n, q), q)
<1> DEFINE f == CHOOSE g : IsBelow(n, g)
<1>1. IsBelow(n, f)
  BY BelowExists
<1>2. JT!Below(n, q) = f[q]
  BY DEF JT!Below, IsBelow, Children
<1> HIDE DEF f
<1> QED BY <1>1, <1>2, StemIs

-----------------------------------------------------------------------------
(* The tree: T are the nodes that hang in it.                              *)

KidsOf(n, p) == DOMAIN n[p].kids
Kid(n, p, k) == n[p].kids[k].data

\* The keys of an array are its indices, and nothing hangs at a new node.
Keyed(n, p) ==
    /\ JT!TypeOf(n, p) = "new" => KidsOf(n, p) = {}
    /\ JT!TypeOf(n, p) = "array" =>
         /\ IsFiniteSet(KidsOf(n, p))
         /\ KidsOf(n, p) = {JT!Index(i) : i \in 0 .. Cardinality(KidsOf(n, p)) - 1}

Shaped(n, p) == n[p] = [value |-> n[p].value, text |-> n[p].text, kids |-> n[p].kids]

\* The nodes T hang below the entrance, each in one place, the younger below the older.
Tree(n, T) ==
    /\ T \subseteq DOMAIN n /\ JT!m_EntraceNode \in T
    /\ \A p \in T : Shaped(n, p) /\ Keyed(n, p)
    /\ \A p \in T : \A k \in KidsOf(n, p) : Kid(n, p, k) \in T /\ Kid(n, p, k) > p
    /\ \A p, q \in T : \A j \in KidsOf(n, p), k \in KidsOf(n, q) :
           Kid(n, p, j) = Kid(n, q, k) => p = q /\ j = k
    /\ \A x \in T : x # JT!m_EntraceNode => \E p \in T : \E k \in KidsOf(n, p) : x = Kid(n, p, k)

\* Where the characters are that the tree needs: in the copy b, or its own.
Spelled(n, T, b) ==
    \A p \in T : /\ n[p].text \in {JT!OWN, b, JT!WILD}
                 /\ \A k \in KidsOf(n, p) : n[p].kids[k].text \in {JT!OWN, b}

LEMMA KidsAre ==
    ASSUME NEW n, NEW T, Tree(n, T), NEW p \in T
    PROVE  /\ Children(n, p) = {Kid(n, p, k) : k \in KidsOf(n, p)}
           /\ Children(n, p) = JT!Kids(n, p) /\ Children(n, p) \subseteq T
<1>1. JT!Kids(n, p) = {Kid(n, p, k) : k \in KidsOf(n, p)}
  BY DEF JT!Kids, Kid, KidsOf
<1>2. \A k \in KidsOf(n, p) : Kid(n, p, k) \in T /\ Kid(n, p, k) \in DOMAIN n /\ Kid(n, p, k) > p
  BY DEF Tree
<1> QED BY <1>1, <1>2 DEF Children

\* The nodes below one of the tree hang in it.
LEMMA StemInTree ==
    ASSUME NEW n, NEW a \in Nat, DOMAIN n \subseteq 1 .. a, NEW T, Tree(n, T), NEW p \in T, NEW B, Stem(n, B, p)
    PROVE  B \subseteq T
<1> DEFINE Bad == B \ T
<1> SUFFICES ASSUME Bad # {} PROVE FALSE
  OBVIOUS
<1>1. B \subseteq Nat /\ T \subseteq Nat
  BY DEF Stem, Tree
<1>2. Bad \subseteq Nat
  BY <1>1
<1> HIDE DEF Bad
<1>3. PICK x \in Bad : \A y \in Bad : x <= y
  BY <1>2, Least
<1>4. PICK q \in B \cup {p} : x \in Children(n, q)
  BY <1>3 DEF Stem, Bad
<1>5. q < x /\ q \in Nat /\ x \in Nat
  <2>1. q < x
    BY <1>4 DEF Children
  <2> QED BY <1>1, <1>2, <1>3, <1>4, <2>1
<1>6. q \in T
  BY <1>3, <1>4, <1>5 DEF Bad
<1> QED BY <1>3, <1>4, <1>6, KidsAre DEF Bad

\* What TreeIntact calls the tree is T.
LEMMA TreeIs ==
    ASSUME NEW n, NEW a \in Nat, DOMAIN n \subseteq 1 .. a, NEW T, Tree(n, T)
    PROVE  JT!Below(n, JT!m_EntraceNode) \cup {JT!m_EntraceNode} = T
<1> DEFINE B == JT!Below(n, JT!m_EntraceNode)
<1>1. JT!m_EntraceNode \in T /\ T \subseteq DOMAIN n
  BY DEF Tree
<1>2. Stem(n, B, JT!m_EntraceNode)
  BY <1>1, BelowIs
<1> HIDE DEF B
<1>3. B \subseteq T
  BY <1>1, <1>2, StemInTree
<1> DEFINE Bad == T \ (B \cup {JT!m_EntraceNode})
<1>4. Bad = {}
  <2> SUFFICES ASSUME Bad # {} PROVE FALSE
    OBVIOUS
  <2>1. Bad \subseteq Nat /\ T \subseteq Nat
    BY <1>1
  <2>2. Bad \subseteq T /\ JT!m_EntraceNode \notin Bad
    OBVIOUS
  <2>3. \A x \in T : x \notin Bad => x \in B \cup {JT!m_EntraceNode}
    OBVIOUS
  <2>4. Bad \cap B = {}
    OBVIOUS
  <2> HIDE DEF Bad
  <2>5. PICK x \in Bad : \A y \in Bad : x <= y
    BY <2>1, Least
  <2>6. PICK p \in T : \E k \in KidsOf(n, p) : x = Kid(n, p, k)
    BY <2>2, <2>5 DEF Tree
  <2>7. x > p /\ x \in Children(n, p)
    BY <2>6, KidsAre DEF Tree
  <2>8. p \in B \cup {JT!m_EntraceNode}
    <3>1. p \in Nat /\ x \in Nat
      BY <2>1, <2>5
    <3> QED BY <2>3, <2>5, <2>7, <3>1
  <2>9. x \in B
    BY <1>2, <2>7, <2>8 DEF Stem, Closed
  <2> QED BY <2>4, <2>5, <2>9
<1> QED BY <1>1, <1>3, <1>4 DEF B

-----------------------------------------------------------------------------
(* What the operations make of the tree.                                   *)

LEMMA LeafIs ==
    ASSUME NEW v, NEW t
    PROVE  /\ JT!Leaf(v, t).value = v /\ JT!Leaf(v, t).text = t /\ DOMAIN JT!Leaf(v, t).kids = {}
           /\ JT!Leaf(v, t) = [value |-> JT!Leaf(v, t).value, text |-> JT!Leaf(v, t).text, kids |-> JT!Leaf(v, t).kids]
  BY DEF JT!Leaf

\* A node at which nothing hangs.
LEMMA BareIs ==
    ASSUME NEW n, NEW p, NEW v, NEW t, n[p] = JT!Leaf(v, t)
    PROVE  Shaped(n, p) /\ Keyed(n, p) /\ KidsOf(n, p) = {} /\ n[p].text = t /\ JT!TypeOf(n, p) = v[1]
<1>1. /\ n[p].value = v /\ n[p].text = t /\ KidsOf(n, p) = {}
      /\ Shaped(n, p)
  BY LeafIs DEF Shaped, KidsOf
<1>2. IsFiniteSet({}) /\ Cardinality({}) = 0
  BY FS_EmptySet
<1>3. {} = {JT!Index(i) : i \in 0 .. 0 - 1}
  <2>1. 0 .. 0 - 1 = {}
    OBVIOUS
  <2> QED BY <2>1
<1>4. Keyed(n, p)
  BY <1>1, <1>2, <1>3 DEF Keyed
<1> QED BY <1>1, <1>4 DEF JT!TypeOf

LEMMA SameAt ==
    ASSUME NEW n, NEW m, NEW p, m[p] = n[p]
    PROVE  /\ Shaped(m, p) <=> Shaped(n, p)
           /\ Keyed(m, p) <=> Keyed(n, p)
           /\ KidsOf(m, p) = KidsOf(n, p) /\ JT!TypeOf(m, p) = JT!TypeOf(n, p)
           /\ \A k : Kid(m, p, k) = Kid(n, p, k)
  BY DEF Shaped, Keyed, KidsOf, JT!TypeOf, Kid

\* The node p gets other content, and what was below it is freed.
Freed(n, p, leaf) == [JT!free_child(n, p) EXCEPT ![p] = leaf]

\* The nodes m with the tree S are n with T after that.
Pruned(n, T, m, S, p, v, t) ==
    /\ DOMAIN m \subseteq DOMAIN n /\ m[p] = JT!Leaf(v, t)
    /\ Tree(m, S) /\ p \in S
    /\ \A x \in T : x < p => x \in S /\ m[x] = n[x]
    /\ \A b : Spelled(n, T, b) /\ t \in {JT!OWN, b, JT!WILD} => Spelled(m, S, b)

LEMMA FreedTree ==
    ASSUME NEW n, NEW a \in Nat, DOMAIN n \subseteq 1 .. a, NEW T, Tree(n, T), NEW p \in T, NEW v, NEW t
    PROVE  Pruned(n, T, Freed(n, p, JT!Leaf(v, t)), T \ JT!Below(n, p), p, v, t)
<1> DEFINE m == Freed(n, p, JT!Leaf(v, t))
           B == JT!Below(n, p)
           S == T \ B
<1> SUFFICES Pruned(n, T, m, S, p, v, t)
  OBVIOUS
<1>1. T \subseteq DOMAIN n /\ T \subseteq Nat /\ p \in Nat /\ JT!m_EntraceNode \in T /\ p \in DOMAIN n
  BY DEF Tree
<1>2. Stem(n, B, p)
  BY <1>1, BelowIs
<1>3. B \subseteq T
  BY <1>1, <1>2, StemInTree
<1> HIDE DEF B
<1>4. \A x \in B : x > p /\ x \in Nat
  BY <1>1, <1>2, <1>3 DEF Stem
<1>5. p \notin B
  BY <1>1, <1>4
<1>6. DOMAIN m = DOMAIN n \ B /\ m[p] = JT!Leaf(v, t) /\ \A x \in DOMAIN n \ B : x # p => m[x] = n[x]
  <2> DEFINE Left == DOMAIN n \ B
  <2>1. JT!free_child(n, p) = [[x \in Left |-> n[x]] EXCEPT ![p] = JT!Container("new")]
    BY DEF JT!free_child, JT!Restrict, B
  <2>2. p \in Left
    BY <1>1, <1>5
  <2> HIDE DEF Left
  <2>3. DOMAIN m = Left /\ m[p] = JT!Leaf(v, t) /\ \A x \in Left : x # p => m[x] = n[x]
    BY <2>1, <2>2 DEF Freed
  <2> QED BY <2>3 DEF Left
<1>7. p \in S /\ S \subseteq DOMAIN m
  BY <1>1, <1>5, <1>6
<1>8. JT!m_EntraceNode \in S
  <2>1. JT!m_EntraceNode = 1 /\ p \in 1 .. a
    BY <1>1 DEF JT!m_EntraceNode
  <2> QED BY <1>1, <1>4, <2>1
<1>9. \A x \in S : x # p => m[x] = n[x]
  BY <1>1, <1>6
<1>10. ASSUME NEW x \in S, x # p
       PROVE  /\ x \in T /\ Shaped(m, x) /\ Keyed(m, x) /\ KidsOf(m, x) = KidsOf(n, x)
              /\ \A k : Kid(m, x, k) = Kid(n, x, k)
  BY <1>9, <1>10, SameAt DEF Tree
<1>11. Shaped(m, p) /\ Keyed(m, p) /\ KidsOf(m, p) = {} /\ m[p].text = t
  <2>1. m[p] = JT!Leaf(v, t)
    BY <1>6
  <2>2. m[p].text = t
    BY <2>1, LeafIs
  <2> QED BY <2>1, <2>2, BareIs
<1>12. ASSUME NEW x \in S, NEW k \in KidsOf(m, x) PROVE Kid(m, x, k) \in S /\ Kid(m, x, k) > x
  <2>1. x # p /\ x \in T /\ k \in KidsOf(n, x) /\ Kid(m, x, k) = Kid(n, x, k)
    BY <1>10, <1>11
  <2>2. Kid(n, x, k) \in T /\ Kid(n, x, k) > x
    BY <2>1 DEF Tree
  <2>3. Kid(n, x, k) \notin B
    <3> SUFFICES ASSUME Kid(n, x, k) \in B PROVE FALSE
      OBVIOUS
    <3>1. PICK q \in B \cup {p} : Kid(n, x, k) \in Children(n, q)
      BY <1>2 DEF Stem
    <3>2. q \in T
      BY <1>3
    <3>3. PICK j \in KidsOf(n, q) : Kid(n, x, k) = Kid(n, q, j)
      BY <3>1, <3>2, KidsAre
    <3>4. x = q
      BY <2>1, <3>2, <3>3 DEF Tree
    <3> QED BY <2>1, <3>4
  <2> QED BY <2>1, <2>2, <2>3
<1>13. ASSUME NEW x \in S, NEW y \in S, NEW j \in KidsOf(m, x), NEW k \in KidsOf(m, y), Kid(m, x, j) = Kid(m, y, k)
       PROVE  x = y /\ j = k
  <2>1. /\ x \in T /\ j \in KidsOf(n, x) /\ Kid(m, x, j) = Kid(n, x, j)
        /\ y \in T /\ k \in KidsOf(n, y) /\ Kid(m, y, k) = Kid(n, y, k)
    BY <1>10, <1>11
  <2>2. Kid(n, x, j) = Kid(n, y, k)
    BY <1>13, <2>1
  <2> QED BY <2>1, <2>2 DEF Tree
<1>14. ASSUME NEW x \in S, x # JT!m_EntraceNode PROVE \E q \in S : \E k \in KidsOf(m, q) : x = Kid(m, q, k)
  <2>1. PICK q \in T : \E k \in KidsOf(n, q) : x = Kid(n, q, k)
    BY <1>14 DEF Tree
  <2>2. x \in Children(n, q)
    BY <2>1, KidsAre
  <2>3. q \notin B /\ q # p
    BY <1>2, <2>2 DEF Stem, Closed
  <2>4. q \in S
    BY <2>3
  <2> QED BY <1>10, <2>1, <2>3, <2>4
<1>15. \A x \in S : Shaped(m, x) /\ Keyed(m, x)
  BY <1>10, <1>11
<1>16. Tree(m, S)
  <2> HIDE DEF S, m
  <2> QED BY <1>7, <1>8, <1>12, <1>13, <1>14, <1>15 DEF Tree
<1>17. ASSUME NEW x \in T, x < p PROVE x \in S /\ m[x] = n[x]
  <2>1. x \notin B /\ x # p
    BY <1>1, <1>4, <1>17
  <2> QED BY <1>9, <2>1
<1>18. ASSUME NEW b, Spelled(n, T, b), t \in {JT!OWN, b, JT!WILD} PROVE Spelled(m, S, b)
  <2>1. ASSUME NEW x \in S
        PROVE  m[x].text \in {JT!OWN, b, JT!WILD} /\ \A k \in KidsOf(m, x) : m[x].kids[k].text \in {JT!OWN, b}
    <3>1. CASE x = p
      BY <1>11, <1>18, <3>1
    <3>2. CASE x # p
      BY <1>9, <1>10, <1>18, <3>2 DEF Spelled
    <3> QED BY <3>1, <3>2
  <2> QED BY <2>1 DEF Spelled
<1> HIDE DEF S, m
<1> QED BY <1>6, <1>7, <1>16, <1>17, <1>18 DEF Pruned

\* The nodes m are n with that content at p, and the same tree.
Refilled(n, T, m, p, v, t) ==
    /\ DOMAIN m = DOMAIN n /\ m[p] = JT!Leaf(v, t) /\ Tree(m, T)
    /\ \A b : Spelled(n, T, b) /\ t \in {JT!OWN, b, JT!WILD} => Spelled(m, T, b)

\* The node p, at which nothing hangs, gets other content.
LEMMA PutTree ==
    ASSUME NEW n, NEW T, Tree(n, T), NEW p \in T, KidsOf(n, p) = {}, NEW v, NEW t,
           NEW m, m = [n EXCEPT ![p] = JT!Leaf(v, t)]
    PROVE  Refilled(n, T, m, p, v, t)
<1>1. DOMAIN m = DOMAIN n /\ m[p] = JT!Leaf(v, t) /\ \A x \in T : x # p => m[x] = n[x]
  BY DEF Tree
<1>2. Shaped(m, p) /\ Keyed(m, p) /\ KidsOf(m, p) = {} /\ m[p].text = t
  <2>1. m[p] = JT!Leaf(v, t)
    BY <1>1
  <2>2. Shaped(m, p)
    BY ONLY <2>1, BareIs
  <2>3. Keyed(m, p)
    BY ONLY <2>1, BareIs
  <2>4. KidsOf(m, p) = {}
    BY ONLY <2>1, BareIs
  <2>5. m[p].text = t
    BY ONLY <2>1, LeafIs
  <2> QED BY <2>2, <2>3, <2>4, <2>5
<1>3. ASSUME NEW x \in T
      PROVE  Shaped(m, x) /\ Keyed(m, x) /\ KidsOf(m, x) = KidsOf(n, x) /\ \A k \in KidsOf(n, x) : Kid(m, x, k) = Kid(n, x, k)
  <2>1. CASE x = p
    BY <1>2, <2>1
  <2>2. CASE x # p
    <3>1. m[x] = n[x]
      BY <1>1, <2>2
    <3>2. Shaped(n, x) /\ Keyed(n, x)
      BY DEF Tree
    <3> QED BY ONLY <3>1, <3>2, SameAt
  <2> QED BY <2>1, <2>2
<1>4. ASSUME NEW x \in T, x # JT!m_EntraceNode PROVE \E q \in T : \E k \in KidsOf(m, q) : x = Kid(m, q, k)
  <2>1. PICK q \in T : \E k \in KidsOf(n, q) : x = Kid(n, q, k)
    BY <1>4 DEF Tree
  <2>2. PICK k \in KidsOf(n, q) : x = Kid(n, q, k)
    BY <2>1
  <2>3. k \in KidsOf(m, q) /\ x = Kid(m, q, k)
    BY <1>3, <2>2
  <2> QED BY <2>3
<1>5. Tree(m, T)
  <2>1. ASSUME NEW x \in T, NEW k \in KidsOf(m, x) PROVE Kid(m, x, k) \in T /\ Kid(m, x, k) > x
    <3>1. k \in KidsOf(n, x) /\ Kid(m, x, k) = Kid(n, x, k)
      BY <1>3
    <3> QED BY <3>1 DEF Tree
  <2>2. ASSUME NEW x \in T, NEW y \in T, NEW j \in KidsOf(m, x), NEW k \in KidsOf(m, y), Kid(m, x, j) = Kid(m, y, k)
        PROVE  x = y /\ j = k
    <3>1. j \in KidsOf(n, x) /\ k \in KidsOf(n, y) /\ Kid(n, x, j) = Kid(n, y, k)
      BY <1>3, <2>2
    <3> QED BY <3>1 DEF Tree
  <2>3. T \subseteq DOMAIN m /\ JT!m_EntraceNode \in T
    BY <1>1 DEF Tree
  <2> QED BY <1>3, <1>4, <2>1, <2>2, <2>3 DEF Tree
<1>6. ASSUME NEW b, Spelled(n, T, b), t \in {JT!OWN, b, JT!WILD} PROVE Spelled(m, T, b)
  <2>1. ASSUME NEW x \in T
        PROVE  m[x].text \in {JT!OWN, b, JT!WILD} /\ \A k \in KidsOf(m, x) : m[x].kids[k].text \in {JT!OWN, b}
    <3>1. CASE x = p
      BY <1>2, <1>6, <3>1
    <3>2. CASE x # p
      BY <1>1, <1>3, <1>6, <3>2 DEF Spelled
    <3> QED BY <3>1, <3>2
  <2> QED BY <2>1 DEF Spelled
<1> QED BY <1>1, <1>5, <1>6 DEF Refilled

\* One more index.
LEMMA IndexedMore ==
    ASSUME NEW K, IsFiniteSet(K), K = {JT!Index(i) : i \in 0 .. Cardinality(K) - 1}, NEW k, k = JT!Index(Cardinality(K))
    PROVE  /\ k \notin K /\ IsFiniteSet(K \cup {k})
           /\ K \cup {k} = {JT!Index(i) : i \in 0 .. Cardinality(K \cup {k}) - 1}
<1> DEFINE c == Cardinality(K)
<1>1. c \in Nat
  BY FS_CardinalityType
<1>2. k \notin K
  <2> SUFFICES ASSUME k \in K PROVE FALSE
    OBVIOUS
  <2>1. PICK i \in 0 .. c - 1 : k = JT!Index(i)
    OBVIOUS
  <2>2. i = c
    BY <2>1 DEF JT!Index
  <2> QED BY <1>1, <2>2
<1>3. IsFiniteSet(K \cup {k}) /\ Cardinality(K \cup {k}) = c + 1
  BY <1>2, FS_AddElement
<1> HIDE DEF c
<1>4. K \cup {k} = {JT!Index(i) : i \in 0 .. c + 1 - 1}
  <2>1. 0 .. c + 1 - 1 = (0 .. c - 1) \cup {c}
    BY <1>1
  <2>2. K = {JT!Index(i) : i \in 0 .. c - 1} /\ k = JT!Index(c)
    BY DEF c
  <2> QED BY <2>1, <2>2
<1>5. 0 .. Cardinality(K \cup {k}) - 1 = 0 .. c + 1 - 1
  BY <1>1, <1>3
<1> QED BY <1>2, <1>3, <1>4, <1>5

\* The nodes m with the tree S are n with T and a new node q.
Grown(n, T, m, S, q, w, v, t) ==
    /\ DOMAIN m = DOMAIN n \cup {q} /\ m[q] = JT!Leaf(v, t)
    /\ Tree(m, S)
    /\ \A x \in T : JT!TypeOf(m, x) = JT!TypeOf(n, x)
    /\ \A b : Spelled(n, T, b) /\ w \in {JT!OWN, b} /\ t \in {JT!OWN, b, JT!WILD} => Spelled(m, S, b)

\* The key k of an object or an array p, which has none such, gets a new node.
LEMMA AdoptedTree ==
    ASSUME NEW n, NEW T, Tree(n, T), NEW p \in T, NEW q, q \notin DOMAIN n, q > p, q # JT!m_EntraceNode,
           NEW k, k \notin KidsOf(n, p), JT!TypeOf(n, p) # "new",
           JT!TypeOf(n, p) = "array" => k = JT!Index(Cardinality(KidsOf(n, p))),
           NEW w, NEW v, NEW t, NEW m, m = JT!Adopt(n, p, k, w, q, JT!Leaf(v, t))
    PROVE  Grown(n, T, m, T \cup {q}, q, w, v, t)
<1> DEFINE e == [data |-> q, text |-> w]
           g == [n EXCEPT ![p].kids = JT!With(n[p].kids, k, e)]
<1>1. T \subseteq DOMAIN n /\ JT!m_EntraceNode \in T /\ q \notin T
  BY DEF Tree
<1>2. DOMAIN g = DOMAIN n /\ (\A x \in T : x # p => g[x] = n[x]) /\ g[p] = [n[p] EXCEPT !.kids = JT!With(n[p].kids, k, e)]
  BY <1>1
<1>3. /\ g[p].value = n[p].value /\ g[p].text = n[p].text /\ g[p].kids = JT!With(n[p].kids, k, e)
      /\ g[p] = [value |-> g[p].value, text |-> g[p].text, kids |-> g[p].kids]
  <2>1. n[p] = [value |-> n[p].value, text |-> n[p].text, kids |-> n[p].kids]
    BY DEF Tree, Shaped
  <2> HIDE DEF g, e
  <2> QED BY <1>2, <2>1
<1>4. m = JT!With(g, q, JT!Leaf(v, t))
  BY DEF JT!Adopt
<1> HIDE DEF g
<1>5. DOMAIN m = DOMAIN n \cup {q} /\ m[q] = JT!Leaf(v, t) /\ \A x \in T : m[x] = g[x]
  BY ONLY <1>1, <1>2, <1>4 DEF JT!With
<1> HIDE DEF e
<1>6. /\ KidsOf(m, p) = KidsOf(n, p) \cup {k} /\ m[p].kids[k] = e
      /\ \A j \in KidsOf(n, p) : m[p].kids[j] = n[p].kids[j]
  <2>1. m[p].kids = JT!With(n[p].kids, k, e)
    BY <1>3, <1>5
  <2> QED BY <2>1 DEF JT!With, KidsOf
<1>7. m[p].value = n[p].value /\ m[p].text = n[p].text /\ JT!TypeOf(m, p) = JT!TypeOf(n, p) /\ Shaped(m, p)
  BY <1>3, <1>5 DEF JT!TypeOf, Shaped
<1>8. Keyed(m, p)
  <2>1. CASE JT!TypeOf(n, p) # "array"
    BY <1>7, <2>1 DEF Keyed
  <2>2. CASE JT!TypeOf(n, p) = "array"
    <3>1. IsFiniteSet(KidsOf(n, p)) /\ KidsOf(n, p) = {JT!Index(i) : i \in 0 .. Cardinality(KidsOf(n, p)) - 1}
      BY <2>2 DEF Tree, Keyed
    <3>2. /\ IsFiniteSet(KidsOf(n, p) \cup {k})
          /\ KidsOf(n, p) \cup {k} = {JT!Index(i) : i \in 0 .. Cardinality(KidsOf(n, p) \cup {k}) - 1}
      BY <2>2, <3>1, IndexedMore
    <3> QED BY <1>6, <1>7, <3>2 DEF Keyed
  <2> QED BY <2>1, <2>2
<1>9. e.data = q /\ e.text = w
  BY DEF e
<1>10. Kid(m, p, k) = q /\ \A j \in KidsOf(n, p) : Kid(m, p, j) = Kid(n, p, j)
  BY <1>6, <1>9 DEF Kid
<1>11. Shaped(m, q) /\ Keyed(m, q) /\ KidsOf(m, q) = {} /\ m[q].text = t
  <2>1. m[q] = JT!Leaf(v, t)
    BY <1>5
  <2>2. m[q].text = t
    BY <2>1, LeafIs
  <2> QED BY ONLY <2>1, <2>2, BareIs
<1>12. ASSUME NEW x \in T, x # p
       PROVE  /\ m[x] = n[x] /\ Shaped(m, x) /\ Keyed(m, x) /\ KidsOf(m, x) = KidsOf(n, x) /\ JT!TypeOf(m, x) = JT!TypeOf(n, x)
              /\ \A j : Kid(m, x, j) = Kid(n, x, j)
  <2>1. m[x] = n[x]
    BY <1>2, <1>5, <1>12
  <2>2. Shaped(n, x) /\ Keyed(n, x)
    BY DEF Tree
  <2> QED BY ONLY <2>1, <2>2, SameAt
\* An edge of the new tree is the new one or an old one.
<1>13. ASSUME NEW x \in T \cup {q}, NEW j \in KidsOf(m, x)
       PROVE  \/ x = p /\ j = k /\ Kid(m, x, j) = q
              \/ x \in T /\ j \in KidsOf(n, x) /\ Kid(m, x, j) = Kid(n, x, j)
  <2>1. CASE x = p
    BY <1>6, <1>10, <2>1
  <2>2. CASE x # p
    BY <1>11, <1>12, <2>2
  <2> QED BY <2>1, <2>2
<1>14. ASSUME NEW x \in T, NEW j \in KidsOf(n, x) PROVE j \in KidsOf(m, x) /\ Kid(m, x, j) = Kid(n, x, j)
  <2>1. CASE x = p
    BY <1>6, <1>10, <2>1
  <2>2. CASE x # p
    BY <1>12, <2>2
  <2> QED BY <2>1, <2>2
<1>15. \A x \in T : \A j \in KidsOf(n, x) : Kid(n, x, j) \in T /\ Kid(n, x, j) > x
  BY DEF Tree
<1>16. Tree(m, T \cup {q})
  <2>1. T \cup {q} \subseteq DOMAIN m /\ JT!m_EntraceNode \in T \cup {q}
    BY <1>1, <1>5
  <2>2. \A x \in T \cup {q} : Shaped(m, x) /\ Keyed(m, x)
    BY <1>7, <1>8, <1>11, <1>12
  <2>3. \A x \in T \cup {q} : \A j \in KidsOf(m, x) : Kid(m, x, j) \in T \cup {q} /\ Kid(m, x, j) > x
    BY <1>13, <1>15
  <2>4. ASSUME NEW x \in T \cup {q}, NEW y \in T \cup {q}, NEW j \in KidsOf(m, x), NEW l \in KidsOf(m, y),
               Kid(m, x, j) = Kid(m, y, l)
        PROVE  x = y /\ j = l
    <3>1. CASE x = p /\ j = k /\ Kid(m, x, j) = q
      <4>1. Kid(m, y, l) = q
        BY <2>4, <3>1
      <4>2. ~(y \in T /\ l \in KidsOf(n, y) /\ Kid(m, y, l) = Kid(n, y, l))
        BY <1>1, <1>15, <4>1
      <4>3. y = p /\ l = k
        BY <1>13, <4>2
      <4> QED BY <3>1, <4>3
    <3>2. CASE x \in T /\ j \in KidsOf(n, x) /\ Kid(m, x, j) = Kid(n, x, j)
      <4>1. Kid(m, y, l) # q
        BY <1>1, <1>15, <2>4, <3>2
      <4>2. y \in T /\ l \in KidsOf(n, y) /\ Kid(n, x, j) = Kid(n, y, l)
        BY <1>13, <2>4, <3>2, <4>1
      <4> QED BY <3>2, <4>2 DEF Tree
    <3> QED BY <1>13, <3>1, <3>2
  <2>5. ASSUME NEW x \in T \cup {q}, x # JT!m_EntraceNode PROVE \E y \in T \cup {q} : \E j \in KidsOf(m, y) : x = Kid(m, y, j)
    <3>1. CASE x = q
      BY <1>6, <1>10, <3>1
    <3>2. CASE x # q
      <4>1. PICK y \in T : \E j \in KidsOf(n, y) : x = Kid(n, y, j)
        BY <2>5, <3>2 DEF Tree
      <4> QED BY <1>14, <4>1
    <3> QED BY <3>1, <3>2
  <2> QED BY <2>1, <2>2, <2>3, <2>4, <2>5 DEF Tree
<1>17. ASSUME NEW b, Spelled(n, T, b), w \in {JT!OWN, b}, t \in {JT!OWN, b, JT!WILD} PROVE Spelled(m, T \cup {q}, b)
  <2>1. ASSUME NEW x \in T \cup {q}
        PROVE  m[x].text \in {JT!OWN, b, JT!WILD} /\ \A j \in KidsOf(m, x) : m[x].kids[j].text \in {JT!OWN, b}
    <3>1. CASE x = q
      BY <1>11, <1>17, <3>1
    <3>2. CASE x = p
      BY <1>6, <1>7, <1>9, <1>17, <3>2 DEF Spelled
    <3>3. CASE x # q /\ x # p
      BY <1>12, <1>17, <3>3 DEF Spelled
    <3> QED BY <3>1, <3>2, <3>3
  <2> QED BY <2>1 DEF Spelled
<1>18. \A x \in T : JT!TypeOf(m, x) = JT!TypeOf(n, x)
  BY <1>7, <1>12
<1> QED BY <1>5, <1>16, <1>17, <1>18 DEF Grown

\* A tree in which nothing changes.
LEMMA SameTree ==
    ASSUME NEW n, NEW T, Tree(n, T), NEW m, T \subseteq DOMAIN m, \A x \in T : m[x] = n[x]
    PROVE  Tree(m, T) /\ \A b : Spelled(n, T, b) => Spelled(m, T, b)
<1>1. ASSUME NEW x \in T
      PROVE  /\ Shaped(m, x) /\ Keyed(m, x) /\ KidsOf(m, x) = KidsOf(n, x)
             /\ \A k : Kid(m, x, k) = Kid(n, x, k)
  <2>1. m[x] = n[x] /\ Shaped(n, x) /\ Keyed(n, x)
    BY DEF Tree
  <2> QED BY ONLY <2>1, SameAt
<1>2. Tree(m, T)
  <2>1. JT!m_EntraceNode \in T
    BY DEF Tree
  <2>2. ASSUME NEW x \in T, NEW k \in KidsOf(m, x) PROVE Kid(m, x, k) \in T /\ Kid(m, x, k) > x
    <3>1. k \in KidsOf(n, x) /\ Kid(m, x, k) = Kid(n, x, k)
      BY <1>1
    <3> QED BY <3>1 DEF Tree
  <2>3. ASSUME NEW x \in T, NEW y \in T, NEW j \in KidsOf(m, x), NEW k \in KidsOf(m, y), Kid(m, x, j) = Kid(m, y, k)
        PROVE  x = y /\ j = k
    <3>1. j \in KidsOf(n, x) /\ k \in KidsOf(n, y) /\ Kid(n, x, j) = Kid(n, y, k)
      BY <1>1, <2>3
    <3> QED BY <3>1 DEF Tree
  <2>4. ASSUME NEW x \in T, x # JT!m_EntraceNode PROVE \E q \in T : \E k \in KidsOf(m, q) : x = Kid(m, q, k)
    <3>1. PICK q \in T : \E k \in KidsOf(n, q) : x = Kid(n, q, k)
      BY <2>4 DEF Tree
    <3>2. PICK k \in KidsOf(n, q) : x = Kid(n, q, k)
      BY <3>1
    <3>3. k \in KidsOf(m, q) /\ x = Kid(m, q, k)
      BY <1>1, <3>2
    <3> QED BY <3>3
  <2> QED BY <1>1, <2>1, <2>2, <2>3, <2>4 DEF Tree
<1>3. ASSUME NEW b, Spelled(n, T, b) PROVE Spelled(m, T, b)
  BY <1>1, <1>3 DEF Spelled
<1> QED BY <1>2, <1>3

-----------------------------------------------------------------------------
(* The invariant.                                                          *)

Parsing == pc \in {"field", "key", "value"}

\* The containers around the current one, and it, by descent.
Stacked(T) ==
    /\ m_Stack \in Seq(T) /\ m_Stack # <<>> /\ m_DeepNode = m_Stack[Len(m_Stack)]
    /\ \A i, j \in 1 .. Len(m_Stack) : i < j => m_Stack[i] < m_Stack[j]
    /\ \A i \in 1 .. Len(m_Stack) : JT!IsContainer(JT!TypeOf(node, m_Stack[i]))

\* The value of an object's member comes behind a key of the same text.
KeyRead == pc = "value" /\ JT!TypeOf(node, m_DeepNode) = "object" => key.text = buffer

\* T is the tree, with the cursor in it; in a parse the containers around it too.
Sound(T) ==
    /\ allocated \in Nat /\ DOMAIN node \subseteq 1 .. allocated
    /\ Tree(node, T) /\ m_DeepNode \in T
    /\ Parsing => Stacked(T)
    /\ KeyRead
    /\ ret # "refused" /\ ~keyless => Spelled(node, T, buffer)

\* There is such a tree until a member that was not there has been read.
TreeSound ==
    /\ pc \in {"idle", "field", "key", "value", "crashed"}
    /\ Parsing => ret = "parsing"
    /\ pc # "crashed" /\ ~misread => \E T : Sound(T)

LEMMA TreeInit == ASSUME JT!Init PROVE TreeSound
<1> DEFINE T == {JT!m_EntraceNode}
<1>1. DOMAIN node = T /\ node[JT!m_EntraceNode] = JT!Leaf(<<"new", <<>>>>, JT!OWN)
  BY DEF JT!Init, JT!With, JT!Container
<1>2. Shaped(node, JT!m_EntraceNode) /\ Keyed(node, JT!m_EntraceNode) /\ KidsOf(node, JT!m_EntraceNode) = {} /\ node[JT!m_EntraceNode].text = JT!OWN
  BY <1>1, BareIs
<1>3. Tree(node, T) /\ Spelled(node, T, buffer)
  BY <1>1, <1>2 DEF Tree, Spelled
<1>4. Sound(T)
  BY <1>1, <1>3 DEF Sound, JT!Init, Parsing, KeyRead, JT!m_EntraceNode
<1> HIDE DEF T
<1> QED BY <1>4 DEF TreeSound, JT!Init, Parsing

LEMMA TreeWhole ==
    ASSUME TreeSound
    PROVE  JT!TreeIntact
<1> SUFFICES ASSUME pc # "crashed", ~misread,
                    NEW tree, tree = JT!Below(node, JT!m_EntraceNode) \cup {JT!m_EntraceNode}
             PROVE  /\ tree \subseteq DOMAIN node
                    /\ m_DeepNode \in tree /\ (pc # "idle" => JT!ToSet(m_Stack) \subseteq tree)
                    /\ \A p \in tree : JT!Kids(node, p) \subseteq DOMAIN node
                    /\ \A p, q \in tree : \A j \in DOMAIN node[p].kids, k \in DOMAIN node[q].kids :
                           node[p].kids[j].data = node[q].kids[k].data => p = q /\ j = k
                    /\ ret # "refused" /\ ~keyless =>
                           \A p \in tree : /\ node[p].text \in {JT!OWN, buffer, JT!WILD}
                                           /\ \A k \in DOMAIN node[p].kids : node[p].kids[k].text \in {JT!OWN, buffer}
  BY DEF JT!TreeIntact
<1>1. PICK T : Sound(T)
  BY DEF TreeSound
<1>2. tree = T
  BY <1>1, TreeIs DEF TreeSound, Sound
<1>3. tree \subseteq DOMAIN node /\ m_DeepNode \in tree
  BY <1>1, <1>2 DEF Sound, Tree
<1>4. ASSUME pc # "idle" PROVE JT!ToSet(m_Stack) \subseteq tree
  <2>1. Parsing
    BY <1>4 DEF Parsing, TreeSound
  <2> QED BY <1>1, <1>2, <2>1 DEF Sound, Stacked, JT!ToSet
<1>5. \A p \in tree : JT!Kids(node, p) \subseteq DOMAIN node
  BY <1>1, <1>2, <1>3, KidsAre DEF Sound
<1>6. \A p, q \in tree : \A j \in DOMAIN node[p].kids, k \in DOMAIN node[q].kids :
          node[p].kids[j].data = node[q].kids[k].data => p = q /\ j = k
  BY <1>1, <1>2 DEF Sound, Tree, Kid, KidsOf
<1>7. ret # "refused" /\ ~keyless =>
          \A p \in tree : /\ node[p].text \in {JT!OWN, buffer, JT!WILD}
                          /\ \A k \in DOMAIN node[p].kids : node[p].kids[k].text \in {JT!OWN, buffer}
  BY <1>1, <1>2 DEF Sound, Spelled, KidsOf
<1> QED BY <1>3, <1>4, <1>5, <1>6, <1>7

-----------------------------------------------------------------------------
(* parse.                                                                  *)

\* A step that leaves the nodes alone.
LEMMA TreeKeeps ==
    ASSUME TreeSound, UNCHANGED <<node, allocated, buffer, misread, keyless>>, KeyRead',
           pc' \in {"idle", "field", "key", "value", "crashed"}, Parsing' => ret' = "parsing",
           pc' # "crashed" => /\ pc # "crashed" /\ m_DeepNode' \in {m_DeepNode, JT!m_EntraceNode}
                              /\ ret = "refused" => ret' = "refused"
                              /\ Parsing' => Parsing /\ UNCHANGED <<m_DeepNode, m_Stack>>
    PROVE  TreeSound'
<1>1. ASSUME pc' # "crashed", ~misread' PROVE \E T : Sound(T)'
  <2>1. PICK T : Sound(T)
    BY <1>1 DEF TreeSound
  <2>2. Tree(node, T)' /\ m_DeepNode' \in T /\ (allocated \in Nat /\ DOMAIN node \subseteq 1 .. allocated)'
    BY <1>1, <2>1 DEF Sound, Tree
  <2>3. ASSUME Parsing' PROVE Stacked(T)'
    <3>1. Stacked(T) /\ node' = node /\ m_DeepNode' = m_DeepNode /\ m_Stack' = m_Stack
      BY <1>1, <2>1, <2>3 DEF Sound
    <3> QED BY <3>1 DEF Stacked, JT!TypeOf
  <2>4. ret' # "refused" /\ ~keyless' => Spelled(node, T, buffer)'
    BY <1>1, <2>1 DEF Sound, Spelled, KidsOf
  <2> QED BY <2>2, <2>3, <2>4 DEF Sound
<1> QED BY <1>1 DEF TreeSound

LEMMA TreeParse == ASSUME TreeSound, NEW t \in Texts, JT!parse(t) PROVE TreeSound'
<1> DEFINE start == JT!NextNotIn(t.chars, 1, {" "})
           c == JT!At(t.chars, start)
           T == {JT!m_EntraceNode}
<1>1. m_DeepNode' = JT!m_EntraceNode /\ allocated' = allocated /\ misread' = misread /\ pc = "idle"
  BY DEF JT!parse, JT!MayParse
<1>2. CASE JT!m_EntraceNode \notin DOMAIN node
  BY <1>1, <1>2 DEF JT!parse, TreeSound, Parsing
<1>3. CASE JT!m_EntraceNode \in DOMAIN node /\ c \in {"{", "["}
  <2>1. PICK y \in {"object", "array"} :
              /\ node' = [node EXCEPT ![JT!m_EntraceNode] = JT!Leaf(<<y, <<>>>>, JT!OWN)]
              /\ m_Stack' = <<JT!m_EntraceNode>>
              /\ (pc' = "idle" /\ ret' = "threw") \/ (pc' = "field" /\ ret' = "parsing")
    BY <1>3 DEF JT!parse, JT!Throw, JT!Container
  <2>2. DOMAIN node' = DOMAIN node /\ node'[JT!m_EntraceNode] = JT!Leaf(<<y, <<>>>>, JT!OWN)
    BY <1>3, <2>1
  <2>3. /\ Shaped(node', JT!m_EntraceNode) /\ Keyed(node', JT!m_EntraceNode) /\ KidsOf(node', JT!m_EntraceNode) = {}
        /\ node'[JT!m_EntraceNode].text = JT!OWN /\ JT!TypeOf(node', JT!m_EntraceNode) = y
    <3>1. <<y, <<>>>>[1] = y
      OBVIOUS
    <3> QED BY <2>2, <3>1, BareIs
  <2>4. Tree(node', T) /\ Spelled(node', T, buffer')
    BY <1>3, <2>2, <2>3 DEF Tree, Spelled
  <2>5. Stacked(T)'
    BY <1>1, <2>1, <2>3 DEF Stacked, JT!IsContainer
  <2>7. KeyRead'
    BY <2>1 DEF KeyRead
  <2>6. ASSUME ~misread PROVE Sound(T)'
    <3>1. allocated \in Nat /\ DOMAIN node \subseteq 1 .. allocated
      BY <1>1, <2>6 DEF TreeSound, Sound
    <3> QED BY <1>1, <2>2, <2>4, <2>5, <2>7, <3>1 DEF Sound
  <2> QED BY <1>1, <2>1, <2>2, <2>6 DEF TreeSound, Parsing
<1>4. CASE JT!m_EntraceNode \in DOMAIN node /\ c \notin {"{", "["}
  <2>1. node' = node /\ pc' = "idle" /\ ret' = "refused"
    BY <1>4 DEF JT!parse
  <2>2. ASSUME ~misread' PROVE \E S : Sound(S)'
    <3>1. PICK S : Sound(S)
      BY <1>1, <2>2 DEF TreeSound
    <3> QED BY <1>1, <2>1, <3>1 DEF Sound, Tree, Parsing, KeyRead
  <2> QED BY <1>1, <2>1, <2>2 DEF TreeSound, Parsing
<1> QED BY <1>2, <1>3, <1>4

\* The stack's elements do not descend from the current one.
LEMMA StackBelow ==
    ASSUME NEW T, T \subseteq Nat, Stacked(T), NEW i \in 1 .. Len(m_Stack)
    PROVE  m_Stack[i] \in T /\ m_Stack[i] <= m_DeepNode /\ m_DeepNode \in T
<1>1. m_Stack \in Seq(T) /\ Len(m_Stack) \in 1 .. Len(m_Stack)
  <2>1. m_Stack \in Seq(T) /\ m_Stack # <<>> /\ Len(m_Stack) \in Nat
    BY DEF Stacked
  <2>2. Len(m_Stack) # 0
    BY <2>1, EmptySeq
  <2> QED BY <2>1, <2>2
<1>2. \A j \in 1 .. Len(m_Stack) : m_Stack[j] \in T /\ m_Stack[j] \in Nat
  BY <1>1, ElementOfSeq
<1>3. CASE i = Len(m_Stack)
  BY <1>1, <1>2, <1>3 DEF Stacked
<1>4. CASE i # Len(m_Stack)
  <2>1. i < Len(m_Stack)
    BY <1>1, <1>4
  <2>2. m_Stack[i] < m_Stack[Len(m_Stack)]
    BY <1>1, <2>1 DEF Stacked
  <2> QED BY <1>1, <1>2, <2>2 DEF Stacked
<1> QED BY <1>3, <1>4

LEMMA StackStays ==
    ASSUME NEW T, T \subseteq Nat, Stacked(T), UNCHANGED <<m_Stack, m_DeepNode>>, NEW S,
           \A x \in T : x <= m_DeepNode => x \in S /\ JT!TypeOf(node', x) = JT!TypeOf(node, x)
    PROVE  Stacked(S)'
<1>1. \A i \in 1 .. Len(m_Stack) : m_Stack[i] \in S /\ JT!TypeOf(node', m_Stack[i]) = JT!TypeOf(node, m_Stack[i])
  BY StackBelow
<1>2. m_Stack \in Seq(S)
  <2>1. m_Stack \in Seq(T)
    BY DEF Stacked
  <2> QED BY <1>1, <2>1, SeqDef
<1> QED BY <1>1, <1>2 DEF Stacked

LEMMA StackGrows ==
    ASSUME NEW T, T \subseteq Nat, Stacked(T), NEW q \in Nat, m_Stack' = Append(m_Stack, q), m_DeepNode' = q,
           NEW S, q \in S, q > m_DeepNode, JT!IsContainer(JT!TypeOf(node', q)),
           \A x \in T : x <= m_DeepNode => x \in S /\ JT!TypeOf(node', x) = JT!TypeOf(node, x)
    PROVE  Stacked(S)'
<1> DEFINE l == Len(m_Stack)
<1>1. \A i \in 1 .. l : /\ m_Stack[i] \in S /\ JT!TypeOf(node', m_Stack[i]) = JT!TypeOf(node, m_Stack[i])
                        /\ m_Stack[i] \in Nat /\ m_Stack[i] < q
  <2>1. ASSUME NEW i \in 1 .. l
        PROVE  m_Stack[i] \in T /\ m_Stack[i] <= m_DeepNode /\ m_DeepNode \in Nat
    BY <2>1, StackBelow
  <2>2. \A x \in T : x \in Nat
    OBVIOUS
  <2> QED BY ONLY <2>1, <2>2, q > m_DeepNode, q \in Nat, \A x \in T : x <= m_DeepNode => x \in S /\ JT!TypeOf(node', x) = JT!TypeOf(node, x)
<1>2. m_Stack \in Seq(S) /\ l \in Nat
  <2>1. m_Stack \in Seq(T)
    BY DEF Stacked
  <2> QED BY <1>1, <2>1, SeqDef
<1>3. /\ m_Stack' \in Seq(S) /\ Len(m_Stack') = l + 1 /\ m_Stack' # <<>>
      /\ m_Stack'[l + 1] = q /\ \A i \in 1 .. l : m_Stack'[i] = m_Stack[i]
  BY <1>2
<1>4. \A i, j \in 1 .. l : i < j => m_Stack[i] < m_Stack[j]
  BY DEF Stacked
<1>5. \A i \in 1 .. l : JT!IsContainer(JT!TypeOf(node', m_Stack[i]))
  BY <1>1 DEF Stacked
<1> HIDE DEF l
<1>6. \A i, j \in 1 .. l + 1 : i < j => m_Stack'[i] < m_Stack'[j]
  <2> SUFFICES ASSUME NEW i \in 1 .. l + 1, NEW j \in 1 .. l + 1, i < j PROVE m_Stack'[i] < m_Stack'[j]
    OBVIOUS
  <2>1. i \in 1 .. l /\ (j \in 1 .. l \/ j = l + 1)
    BY <1>2
  <2> QED BY <1>1, <1>3, <1>4, <2>1
<1>7. \A i \in 1 .. l + 1 : JT!IsContainer(JT!TypeOf(node', m_Stack'[i]))
  <2>1. \A i \in 1 .. l + 1 : i \in 1 .. l \/ i = l + 1
    BY <1>2
  <2> QED BY <1>3, <1>5, <2>1
<1> QED BY <1>3, <1>6, <1>7 DEF Stacked

LEMMA StackShrinks ==
    ASSUME NEW T, Stacked(T), UNCHANGED node, m_Stack' = JT!Front(m_Stack), m_Stack' # <<>>, m_DeepNode' = JT!Last(m_Stack')
    PROVE  Stacked(T)' /\ m_DeepNode' \in T
<1> DEFINE l == Len(m_Stack)
<1>1. m_Stack \in Seq(T) /\ l \in Nat /\ m_Stack # <<>>
  BY DEF Stacked
<1>2. m_Stack' = SubSeq(m_Stack, 1, l - 1)
  BY DEF JT!Front
<1>3. l # 0 /\ l # 1
  <2>1. l # 0
    BY <1>1, EmptySeq
  <2>2. l = 1 => SubSeq(m_Stack, 1, l - 1) = <<>>
    BY <1>1
  <2> QED BY <1>2, <2>1, <2>2
<1>4. m_Stack' \in Seq(T) /\ Len(m_Stack') = l - 1 /\ l - 1 \in 1 .. l - 1 /\ \A i \in 1 .. l - 1 : m_Stack'[i] = m_Stack[i]
  BY <1>1, <1>2, <1>3
<1>5. m_DeepNode' = m_Stack'[l - 1] /\ m_DeepNode' \in T
  BY <1>4 DEF JT!Last
<1>6. \A i, j \in 1 .. l - 1 : i < j => m_Stack'[i] < m_Stack'[j]
  BY <1>1, <1>4 DEF Stacked
<1>7. \A i \in 1 .. l - 1 : JT!IsContainer(JT!TypeOf(node, m_Stack'[i]))
  BY <1>1, <1>4 DEF Stacked
<1> QED BY <1>4, <1>5, <1>6, <1>7 DEF Stacked

\* The nodes m with a member q of the current container that has other content,
\* or is new and has its key in w.
Member(T, m, a, q, v, t, w) ==
    /\ DOMAIN m \subseteq 1 .. a /\ m[q] = JT!Leaf(v, t) /\ q \in Nat /\ q > m_DeepNode
    /\ \E S : /\ Tree(m, S) /\ q \in S /\ m_DeepNode \in S
              /\ \A x \in T : x <= m_DeepNode => x \in S /\ JT!TypeOf(m, x) = JT!TypeOf(node, x)
              /\ Spelled(node, T, buffer) /\ w \in {JT!OWN, buffer} => Spelled(m, S, buffer)

LEMMA MemberAgain ==
    ASSUME allocated \in Nat, DOMAIN node \subseteq 1 .. allocated, NEW T, Tree(node, T), m_DeepNode \in T,
           NEW k, JT!find_add(node, m_DeepNode, k), NEW q, q = node[m_DeepNode].kids[k].data,
           NEW v, NEW t, t \in {JT!OWN, buffer}, NEW m, m = Freed(node, q, JT!Leaf(v, t)), NEW w
    PROVE  Member(T, m, allocated, q, v, t, w)
<1>1. q \in T /\ q > m_DeepNode
  BY DEF JT!find_add, Tree, Kid, KidsOf
<1>2. T \subseteq Nat
  BY DEF Tree
<1> DEFINE S == T \ JT!Below(node, q)
<1>3. /\ DOMAIN m \subseteq DOMAIN node /\ m[q] = JT!Leaf(v, t)
      /\ Tree(m, S) /\ q \in S
      /\ \A x \in T : x < q => x \in S /\ m[x] = node[x]
      /\ Spelled(node, T, buffer) /\ t \in {JT!OWN, buffer, JT!WILD} => Spelled(m, S, buffer)
  <2>1. Pruned(node, T, m, S, q, v, t)
    BY <1>1, FreedTree
  <2> HIDE DEF S
  <2> QED BY <2>1 DEF Pruned
<1> HIDE DEF S
<1>4. \A x \in T : x <= m_DeepNode => x < q
  BY <1>1, <1>2
<1>5. \A x \in T : x <= m_DeepNode => x \in S /\ JT!TypeOf(m, x) = JT!TypeOf(node, x)
  BY <1>3, <1>4 DEF JT!TypeOf
<1>6. m_DeepNode \in S
  BY <1>1, <1>3
<1> QED BY <1>1, <1>2, <1>3, <1>5, <1>6 DEF Member

LEMMA MemberNew ==
    ASSUME allocated \in Nat, DOMAIN node \subseteq 1 .. allocated, NEW T, Tree(node, T), m_DeepNode \in T,
           JT!IsContainer(JT!TypeOf(node, m_DeepNode)),
           NEW k, k \notin KidsOf(node, m_DeepNode),
           JT!TypeOf(node, m_DeepNode) = "array" => k = JT!Index(Cardinality(KidsOf(node, m_DeepNode))),
           NEW q, q = allocated + 1, NEW w,
           NEW v, NEW t, t \in {JT!OWN, buffer}, NEW m, m = JT!Adopt(node, m_DeepNode, k, w, q, JT!Leaf(v, t))
    PROVE  Member(T, m, allocated + 1, q, v, t, w)
<1>1. m_DeepNode \in 1 .. allocated /\ JT!m_EntraceNode \in 1 .. allocated
  BY DEF Tree
<1>2. q \notin DOMAIN node /\ q > m_DeepNode /\ q # JT!m_EntraceNode /\ q \in Nat
  BY <1>1
<1>3. JT!TypeOf(node, m_DeepNode) # "new"
  BY DEF JT!IsContainer
<1>4. /\ DOMAIN m = DOMAIN node \cup {q} /\ m[q] = JT!Leaf(v, t)
      /\ Tree(m, T \cup {q})
      /\ \A x \in T : JT!TypeOf(m, x) = JT!TypeOf(node, x)
      /\ Spelled(node, T, buffer) /\ w \in {JT!OWN, buffer} => Spelled(m, T \cup {q}, buffer)
  <2>1. Grown(node, T, m, T \cup {q}, q, w, v, t)
    BY <1>2, <1>3, AdoptedTree
  <2> QED BY <2>1 DEF Grown
<1>5. DOMAIN m \subseteq 1 .. allocated + 1
  BY <1>4
<1> QED BY <1>2, <1>4, <1>5 DEF Member

\* The key under which an array takes its next element is not one of its own.
LEMMA NextIsNew ==
    ASSUME NEW T, Tree(node, T), m_DeepNode \in T, JT!IsContainer(JT!TypeOf(node, m_DeepNode)), NEW k, k = JT!NextKey(m_DeepNode),
           ~(JT!TypeOf(node, m_DeepNode) = "object" /\ JT!find_add(node, m_DeepNode, k))
    PROVE  /\ k \notin KidsOf(node, m_DeepNode)
           /\ JT!TypeOf(node, m_DeepNode) = "array" => k = JT!Index(Cardinality(KidsOf(node, m_DeepNode)))
<1>1. CASE JT!TypeOf(node, m_DeepNode) = "array"
  <2>1. k = JT!Index(Cardinality(KidsOf(node, m_DeepNode)))
    BY <1>1, SameCount DEF JT!NextKey, KidsOf
  <2>2. /\ IsFiniteSet(KidsOf(node, m_DeepNode))
        /\ KidsOf(node, m_DeepNode) = {JT!Index(i) : i \in 0 .. Cardinality(KidsOf(node, m_DeepNode)) - 1}
    BY <1>1 DEF Tree, Keyed
  <2> QED BY <2>1, <2>2, IndexedMore
<1>2. CASE JT!TypeOf(node, m_DeepNode) # "array"
  BY <1>2 DEF JT!IsContainer, JT!find_add, KidsOf
<1> QED BY <1>1, <1>2

\* What holds while parse runs.
LEMMA InParse ==
    ASSUME TreeSound, Parsing, ~misread
    PROVE  \E T : /\ Sound(T) /\ Stacked(T) /\ T \subseteq Nat
                  /\ m_DeepNode \in T /\ JT!IsContainer(JT!TypeOf(node, m_DeepNode))
                  /\ KeyRead /\ (~keyless => Spelled(node, T, buffer))
<1>1. PICK T : Sound(T)
  BY DEF TreeSound, Parsing
<1>2. Stacked(T) /\ T \subseteq Nat /\ m_DeepNode \in T
  BY <1>1 DEF Sound, Tree, TreeSound
<1>3. JT!IsContainer(JT!TypeOf(node, m_DeepNode))
  <2>1. m_Stack \in Seq(T) /\ m_Stack # <<>> /\ Len(m_Stack) \in Nat
    BY <1>2 DEF Stacked
  <2>2. Len(m_Stack) # 0
    BY <2>1, EmptySeq
  <2>3. Len(m_Stack) \in 1 .. Len(m_Stack)
    BY <2>1, <2>2
  <2> QED BY <1>2, <2>3 DEF Stacked
<1>4. KeyRead /\ (~keyless => Spelled(node, T, buffer))
  BY <1>1 DEF Sound, TreeSound
<1> QED BY <1>1, <1>2, <1>3, <1>4

\* The program comes to its end.
LEMMA TreeEnds == ASSUME TreeSound, JT!Ends PROVE TreeSound'
  BY DEF TreeSound, JT!Ends, Parsing

LEMMA TreeOpen ==
    ASSUME TreeSound, pc = "field", NEW p, JT!OpenContainer(p), ~JT!Ends, UNCHANGED <<buffer, misread>>
    PROVE  TreeSound'
<1> DEFINE k == JT!NextKey(m_DeepNode)
           old == node[m_DeepNode].kids[k].data
           there == JT!TypeOf(node, m_DeepNode) = "object" /\ JT!find_add(node, m_DeepNode, k)
<1>1. PICK y \in {"object", "array"} :
        IF there
        THEN /\ node' = Freed(node, old, JT!Leaf(<<y, <<>>>>, JT!OWN)) /\ allocated' = allocated
             /\ m_DeepNode' = old /\ m_Stack' = Append(m_Stack, old)
        ELSE /\ node' = JT!Adopt(node, m_DeepNode, k, JT!TextOfKey(m_DeepNode), allocated + 1, JT!Leaf(<<y, <<>>>>, JT!OWN))
             /\ allocated' = allocated + 1
             /\ m_DeepNode' = allocated + 1 /\ m_Stack' = Append(m_Stack, allocated + 1)
  BY DEF JT!OpenContainer, Freed, JT!Container
<1>2. /\ (pc' = "idle" /\ ret' = "threw") \/ (pc' = "field" /\ ret' = ret)
      /\ ~keyless' => ~keyless /\ (JT!TypeOf(node, m_DeepNode) = "object" => key.text = buffer)
  BY DEF JT!OpenContainer, JT!Throw
<1>3. Parsing /\ ret = "parsing"
  BY DEF TreeSound, Parsing
<1>4. JT!OWN \in {JT!OWN, buffer} /\ <<y, <<>>>>[1] = y
  OBVIOUS
<1> DEFINE w == JT!TextOfKey(m_DeepNode)
<1> HIDE DEF k, old, there
<1>5. ASSUME ~misread
      PROVE  \E S : Sound(S)'
  <2>1. PICK T : /\ Sound(T) /\ Stacked(T) /\ T \subseteq Nat
                 /\ m_DeepNode \in T /\ JT!IsContainer(JT!TypeOf(node, m_DeepNode))
                 /\ (~keyless => Spelled(node, T, buffer))
    BY <1>3, <1>5, InParse
  <2>2. Tree(node, T) /\ allocated \in Nat /\ DOMAIN node \subseteq 1 .. allocated
    BY <2>1 DEF Sound
  <2>6. ~keyless' => Spelled(node, T, buffer) /\ w \in {JT!OWN, buffer}
    BY <1>2, <2>1 DEF JT!TextOfKey, JT!IsContainer
  <2> HIDE DEF w
  <2>3. ASSUME allocated' \in Nat, DOMAIN node' \subseteq 1 .. allocated', NEW q \in Nat, q > m_DeepNode, node'[q] = JT!Leaf(<<y, <<>>>>, JT!OWN),
               m_DeepNode' = q, m_Stack' = Append(m_Stack, q),
               NEW S, Tree(node', S), q \in S,
               \A x \in T : x <= m_DeepNode => x \in S /\ JT!TypeOf(node', x) = JT!TypeOf(node, x),
               ~keyless' => Spelled(node', S, buffer)
        PROVE  Sound(S)'
    <3>1. JT!IsContainer(JT!TypeOf(node', q))
      BY <2>3 DEF JT!IsContainer, JT!TypeOf, JT!Leaf
    <3>2. Stacked(S)'
      BY <2>1, <2>3, <3>1, StackGrows
    <3>3. KeyRead'
      BY <1>2 DEF KeyRead
    <3> QED BY <2>3, <3>2, <3>3 DEF Sound
  <2>4. CASE there
    <3>1. JT!find_add(node, m_DeepNode, k) /\ old = node[m_DeepNode].kids[k].data
      BY <2>4 DEF there, old
    <3>2. node' = Freed(node, old, JT!Leaf(<<y, <<>>>>, JT!OWN))
      BY <1>1, <2>4
    <3>3. Member(T, node', allocated, old, <<y, <<>>>>, JT!OWN, w)
      BY <1>4, <2>1, <2>2, <3>1, <3>2, MemberAgain
    <3> QED BY <1>1, <2>1, <2>2, <2>3, <2>4, <2>6, <3>3 DEF Member
  <2>5. CASE ~there
    <3> DEFINE q == allocated + 1
    <3>1. /\ k \notin KidsOf(node, m_DeepNode)
          /\ JT!TypeOf(node, m_DeepNode) = "array" => k = JT!Index(Cardinality(KidsOf(node, m_DeepNode)))
      BY <2>1, <2>2, <2>5, NextIsNew DEF there, k
    <3>2. /\ node' = JT!Adopt(node, m_DeepNode, k, w, q, JT!Leaf(<<y, <<>>>>, JT!OWN))
          /\ allocated' = q /\ m_DeepNode' = q /\ m_Stack' = Append(m_Stack, q)
      BY <1>1, <2>5 DEF w
    <3>3. Member(T, node', allocated + 1, q, <<y, <<>>>>, JT!OWN, w)
      BY <1>4, <2>1, <2>2, <3>1, <3>2, MemberNew
    <3> HIDE DEF q
    <3>4. DOMAIN node' \subseteq 1 .. allocated' /\ allocated' \in Nat
      BY <2>2, <3>2, <3>3 DEF q, Member
    <3> QED BY <2>1, <2>3, <2>6, <3>2, <3>3, <3>4 DEF Member
  <2> QED BY <2>4, <2>5
<1> QED BY <1>2, <1>3, <1>5 DEF TreeSound, Parsing

LEMMA TreeClose ==
    ASSUME TreeSound, pc = "field", NEW p, JT!CloseContainer(p), UNCHANGED <<buffer, misread>>
    PROVE  TreeSound'
<1>1. node' = node /\ allocated' = allocated /\ keyless' = keyless /\ Parsing /\ ret = "parsing"
  BY DEF JT!CloseContainer, TreeSound, Parsing
<1>2. CASE m_Stack' = <<>>
  <2>1. pc' = "idle" /\ ret' \in {"parsed", "threw"} /\ m_DeepNode' \in {m_DeepNode, JT!m_EntraceNode}
    BY <1>2 DEF JT!CloseContainer, JT!Throw
  <2> QED BY <1>1, <2>1, TreeKeeps DEF Parsing, KeyRead
<1>3. CASE m_Stack' # <<>>
  <2>1. /\ m_Stack' = JT!Front(m_Stack) /\ m_DeepNode' = JT!Last(m_Stack')
        /\ (pc' = "idle" /\ ret' = "threw") \/ (pc' = pc /\ ret' = ret)
    BY <1>3 DEF JT!CloseContainer, JT!Throw
  <2>2. ASSUME ~misread PROVE \E T : Sound(T)'
    <3>1. PICK T : Sound(T) /\ Stacked(T) /\ (~keyless => Spelled(node, T, buffer))
      BY <1>1, <2>2, InParse
    <3>2. Stacked(T)' /\ m_DeepNode' \in T
      BY <1>1, <1>3, <2>1, <3>1, StackShrinks
    <3>3. KeyRead'
      BY <2>1 DEF KeyRead
    <3> QED BY <1>1, <3>1, <3>2, <3>3 DEF Sound
  <2> QED BY <1>1, <2>1, <2>2 DEF TreeSound, Parsing
<1> QED BY <1>2, <1>3

LEMMA TreeField ==
    ASSUME TreeSound, pc = "field", JT!Field, UNCHANGED <<buffer, misread>>
    PROVE  TreeSound'
<1> DEFINE p == JT!Skip_Separator_Char(pos)
<1>1. CASE JT!Beyond(p)
  <2>1. JT!Fails
    BY <1>1 DEF JT!Field
  <2>2. UNCHANGED <<node, allocated, m_DeepNode, m_Stack, keyless>> /\ pc' = "idle" /\ ret' = "threw"
    BY <2>1 DEF JT!Fails, JT!Throw
  <2> QED BY <2>2, TreeKeeps DEF Parsing, KeyRead, TreeSound
<1>2. CASE ~JT!Beyond(p) /\ JT!chars[p] \in {"{", "["}
  <2>1. JT!OpenContainer(p)
    BY <1>2 DEF JT!Field
  <2> QED BY <2>1, TreeOpen, TreeEnds
<1>3. CASE ~JT!Beyond(p) /\ JT!chars[p] \in {"}", "]"}
  <2>1. JT!CloseContainer(p)
    BY <1>3 DEF JT!Field
  <2> QED BY <2>1, TreeClose
<1>4. CASE ~JT!Beyond(p) /\ JT!chars[p] \notin {"{", "[", "}", "]"}
  <2> DEFINE where == IF JT!TypeOf(node, m_DeepNode) = "object" THEN "key" ELSE "value"
  <2>1. JT!GoOn(p, where)
    BY <1>4 DEF JT!Field
  <2>2. UNCHANGED <<node, allocated, m_DeepNode, m_Stack, ret, keyless>> /\ pc' = where
    <3> HIDE DEF p, where
    <3> QED BY <2>1 DEF JT!GoOn
  <2> HIDE DEF p
  <2>3. KeyRead'
    BY <2>2 DEF KeyRead
  <2> QED BY <2>2, <2>3, TreeKeeps DEF Parsing, TreeSound
<1> QED BY <1>1, <1>2, <1>3, <1>4

LEMMA TreeKey ==
    ASSUME TreeSound, pc = "key", JT!Set_Key, UNCHANGED <<buffer, misread>>
    PROVE  TreeSound'
<1>1. CASE JT!Ends
  BY <1>1, TreeEnds
<1>2. CASE ~JT!Ends
  <2>1. /\ UNCHANGED <<node, allocated, m_DeepNode, m_Stack, keyless>>
        /\ \/ pc' = "idle" /\ ret' = "threw"
           \/ pc' = "value" /\ ret' = ret /\ key'.text = buffer
    BY <1>2 DEF JT!Set_Key, JT!Fails, JT!Throw
  <2>2. KeyRead'
    BY <2>1 DEF KeyRead
  <2> QED BY <2>1, <2>2, TreeKeeps DEF Parsing, TreeSound
<1> QED BY <1>1, <1>2

LEMMA ScannedLeaf ==
    ASSUME NEW p, NEW stops
    PROVE  \E v : \E t \in {JT!OWN, buffer} : JT!Scanned(p, stops).leaf = JT!Leaf(v, t)
<1> DEFINE Is(x) == \E v : \E t \in {JT!OWN, buffer} : x = JT!Leaf(v, t)
           c == JT!At(JT!chars, p)
           last == JT!LastSolid(JT!chars, p + 1, JT!NextIn(JT!chars, p + 1, stops) - 1)
           string == <<"string", SubSeq(JT!chars, p + 1, last - 1)>>
           leaf == JT!Scanned(p, stops).leaf
<1>1. \A v : Is(JT!Leaf(v, JT!OWN)) /\ Is(JT!Leaf(v, buffer))
  OBVIOUS
<1>3. CASE c = "q"
  <2>1. leaf = JT!Leaf(string, buffer)
    BY <1>3 DEF JT!Scanned, JT!Digits
  <2> QED BY <1>1, <2>1
<1>4. CASE c # "q"
  <2>1. \E v : leaf = JT!Leaf(v, JT!OWN)
    BY <1>4 DEF JT!Scanned, JT!Container
  <2> QED BY <1>1, <2>1
<1> QED BY <1>3, <1>4

LEMMA TreeValue ==
    ASSUME TreeSound, pc = "value", JT!Set_Value, ~JT!Ends, UNCHANGED <<buffer, misread>>
    PROVE  TreeSound'
<1> DEFINE start == JT!Skip_Separator_Char(pos)
           type == JT!TypeOf(node, m_DeepNode)
           leaf == JT!Scanned(start, JT!Stops(type)).leaf
           k == JT!NextKey(m_DeepNode)
           there == type = "object" /\ JT!find_add(node, m_DeepNode, k)
           old == node[m_DeepNode].kids[k].data
<1>1. CASE JT!At(JT!chars, start) \in {"{", "["}
  <2>1. JT!GoOn(start, "field")
    BY <1>1 DEF JT!Set_Value
  <2>2. UNCHANGED <<node, allocated, m_DeepNode, m_Stack, ret, keyless>> /\ pc' = "field"
    BY <2>1 DEF JT!GoOn
  <2> QED BY <2>2, TreeKeeps DEF Parsing, KeyRead, TreeSound
<1>2. CASE JT!At(JT!chars, start) \notin {"{", "["}
  <2>1. /\ UNCHANGED <<m_DeepNode, m_Stack, keyless>>
        /\ \/ pc' = "idle" /\ ret' = "threw"
           \/ pc' \in {"field", "key", "value"} /\ ret' = ret
        /\ pc' = "value" => type = "array"
    BY <1>2 DEF JT!Set_Value, JT!Throw
  <2>2. \/ UNCHANGED <<node, allocated>>
        \/ there /\ node' = Freed(node, old, leaf) /\ allocated' = allocated
        \/ /\ ~there /\ allocated' = allocated + 1
           /\ node' = JT!Adopt(node, m_DeepNode, k, JT!TextOfKey(m_DeepNode), allocated + 1, leaf)
    BY <1>2 DEF JT!Set_Value, JT!heap, Freed
  <2>3. Parsing /\ ret = "parsing"
    BY DEF Parsing, TreeSound
  <2>4. PICK v : \E t \in {JT!OWN, buffer} : leaf = JT!Leaf(v, t)
    BY ScannedLeaf
  <2>5. PICK t \in {JT!OWN, buffer} : leaf = JT!Leaf(v, t)
    BY <2>4
  <2> HIDE DEF leaf, there, k, old
  <2>6. CASE UNCHANGED <<node, allocated>>
    <3>1. KeyRead'
      BY <2>1, <2>6 DEF KeyRead, JT!TypeOf
    <3> QED BY <2>1, <2>3, <2>6, <3>1, TreeKeeps DEF Parsing
  <2>7. ASSUME ~misread, ~UNCHANGED <<node, allocated>> PROVE \E S : Sound(S)'
    <3>1. PICK T : /\ Sound(T) /\ Stacked(T) /\ T \subseteq Nat
                   /\ m_DeepNode \in T /\ JT!IsContainer(type)
                   /\ KeyRead /\ (~keyless => Spelled(node, T, buffer))
      BY <2>3, <2>7, InParse
    <3> DEFINE w == JT!TextOfKey(m_DeepNode)
    <3>6. w \in {JT!OWN, buffer}
      BY <3>1 DEF KeyRead, JT!TextOfKey, JT!IsContainer
    <3> HIDE DEF w
    <3>2. Tree(node, T) /\ allocated \in Nat /\ DOMAIN node \subseteq 1 .. allocated
      BY <3>1 DEF Sound
    <3>3. ASSUME NEW q, Member(T, node', allocated', q, v, t, w), allocated' \in Nat PROVE \E S : Sound(S)'
      <4>1. PICK S : /\ Tree(node', S) /\ m_DeepNode \in S
                     /\ \A x \in T : x <= m_DeepNode => x \in S /\ JT!TypeOf(node', x) = JT!TypeOf(node, x)
                     /\ ~keyless => Spelled(node', S, buffer)
        BY <3>1, <3>3, <3>6 DEF Member
      <4>2. Stacked(S)'
        BY <2>1, <3>1, <4>1, StackStays
      <4>3. DOMAIN node' \subseteq 1 .. allocated'
        BY <3>3 DEF Member
      <4>4. KeyRead'
        <5>1. JT!TypeOf(node', m_DeepNode') = type
          BY <2>1, <3>1, <4>1
        <5> QED BY <2>1, <5>1 DEF KeyRead
      <4> QED BY <2>1, <3>3, <4>1, <4>2, <4>3, <4>4 DEF Sound
    <3>4. CASE there
      <4>1. JT!find_add(node, m_DeepNode, k) /\ old = node[m_DeepNode].kids[k].data
        BY <3>4 DEF there, old
      <4>2. node' = Freed(node, old, JT!Leaf(v, t)) /\ allocated' = allocated
        BY <2>2, <2>5, <2>7, <3>4
      <4>3. Member(T, node', allocated, old, v, t, w)
        BY <3>1, <3>2, <4>1, <4>2, MemberAgain
      <4> QED BY <3>2, <3>3, <4>2, <4>3
    <3>5. CASE ~there
      <4>1. /\ k \notin KidsOf(node, m_DeepNode)
            /\ type = "array" => k = JT!Index(Cardinality(KidsOf(node, m_DeepNode)))
        BY <3>1, <3>2, <3>5, NextIsNew DEF there, k
      <4>2. node' = JT!Adopt(node, m_DeepNode, k, w, allocated + 1, JT!Leaf(v, t)) /\ allocated' = allocated + 1
        BY <2>2, <2>5, <2>7, <3>5 DEF w
      <4>3. Member(T, node', allocated + 1, allocated + 1, v, t, w)
        BY <3>1, <3>2, <4>1, <4>2, MemberNew
      <4> QED BY <3>2, <3>3, <4>2, <4>3
    <3> QED BY <3>4, <3>5
  <2> QED BY <2>1, <2>3, <2>6, <2>7 DEF TreeSound, Parsing
<1> QED BY <1>1, <1>2

-----------------------------------------------------------------------------
(* The user's calls.                                                       *)

LEMMA TreeCrash == ASSUME TreeSound, JT!Crash PROVE TreeSound'
  BY DEF TreeSound, JT!Crash, Parsing

LEMMA TreeConvert == ASSUME TreeSound, NEW type, JT!Convert(type) PROVE TreeSound'
<1>1. buffer' = buffer /\ keyless' = keyless /\ pc = "idle"
  BY DEF JT!Convert, JT!Call, JT!parser
<1>2. CASE JT!Crash
  BY <1>2, TreeCrash
<1>3. CASE ~JT!Crash
  <2>1. /\ node' = JT!Restrict(node, DOMAIN node \ JT!FreedByRead(type))
        /\ misread' = (misread \/ JT!TypeOf(node, m_DeepNode) = "new")
        /\ m_DeepNode' \in {m_DeepNode, JT!m_EntraceNode} /\ UNCHANGED <<pc, ret, allocated>>
    BY <1>3 DEF JT!Convert, JT!ToTop
  <2>2. CASE misread'
    BY <1>1, <2>1, <2>2 DEF TreeSound, Parsing
  <2>3. CASE ~misread'
    <3>1. ~misread
      BY <2>1, <2>3
    <3>2. PICK T : Sound(T)
      BY <1>1, <3>1 DEF TreeSound
    <3>3. DOMAIN node' = DOMAIN node /\ \A x \in DOMAIN node : node'[x] = node[x]
      <4>1. JT!FreedByRead(type) = {}
        BY <2>1, <2>3 DEF JT!FreedByRead
      <4>2. DOMAIN node \ {} = DOMAIN node
        OBVIOUS
      <4>3. node' = JT!Restrict(node, DOMAIN node)
        BY <2>1, <4>1, <4>2
      <4> QED BY <4>3 DEF JT!Restrict
    <3>4. Tree(node', T) /\ \A b : Spelled(node, T, b) => Spelled(node', T, b)
      <4>1. Tree(node, T) /\ T \subseteq DOMAIN node
        BY <3>2 DEF Sound, Tree
      <4> QED BY <3>3, <4>1, SameTree
    <3>5. Sound(T)'
      <4>1. allocated' \in Nat /\ DOMAIN node' \subseteq 1 .. allocated'
        BY <2>1, <3>2, <3>3 DEF Sound
      <4>2. m_DeepNode' \in T
        BY <2>1, <3>2 DEF Sound, Tree
      <4>3. ~Parsing'
        BY <1>1, <2>1 DEF Parsing
      <4>4. ret' # "refused" /\ ~keyless' => Spelled(node', T, buffer')
        <5>1. ret' = ret /\ buffer' = buffer /\ keyless' = keyless
          BY <1>1, <2>1
        <5> QED BY <5>1, <3>2, <3>4 DEF Sound
      <4> QED BY <3>4, <4>1, <4>2, <4>3, <4>4 DEF Sound, KeyRead, Parsing
    <3> QED BY <1>1, <2>1, <3>5 DEF TreeSound, Parsing
  <2> QED BY <2>2, <2>3
<1> QED BY <1>2, <1>3

LEMMA TreeAssign == ASSUME TreeSound, NEW v, JT!AssignLeaf(v) PROVE TreeSound'
<1>1. buffer' = buffer /\ keyless' = keyless /\ pc = "idle"
  BY DEF JT!AssignLeaf, JT!Call, JT!parser
<1>2. CASE JT!Crash
  BY <1>2, TreeCrash
<1>3. CASE ~JT!Crash
  <2>1. \E u : \E t \in {JT!OWN, JT!WILD} :
          /\ node' = Freed(node, m_DeepNode, JT!Leaf(u, t))
          /\ ret' = (IF ret \in {"refused", "threw"} THEN ret ELSE "used")
          /\ m_DeepNode' = JT!m_EntraceNode /\ UNCHANGED <<pc, allocated, misread>>
    <3> DEFINE o == <<"string", <<"overwritten">>>>
    <3>1. PICK leaf \in {JT!Leaf(v, JT!OWN), JT!Leaf(o, JT!WILD)} :
            /\ node' = Freed(node, m_DeepNode, leaf)
            /\ ret' = (IF ret \in {"refused", "threw"} THEN ret ELSE "used")
            /\ m_DeepNode' = JT!m_EntraceNode /\ UNCHANGED <<pc, allocated, misread>>
      BY <1>3 DEF JT!AssignLeaf, Freed, JT!Used, JT!ToTop, JT!Overwritten
    <3> HIDE DEF o
    <3> QED BY <3>1
  <2>3. PICK u : \E t \in {JT!OWN, JT!WILD} :
          /\ node' = Freed(node, m_DeepNode, JT!Leaf(u, t))
          /\ ret' = (IF ret \in {"refused", "threw"} THEN ret ELSE "used")
          /\ m_DeepNode' = JT!m_EntraceNode /\ UNCHANGED <<pc, allocated, misread>>
    BY <2>1
  <2>4. PICK t \in {JT!OWN, JT!WILD} :
          /\ node' = Freed(node, m_DeepNode, JT!Leaf(u, t))
          /\ ret' = (IF ret \in {"refused", "threw"} THEN ret ELSE "used")
          /\ m_DeepNode' = JT!m_EntraceNode /\ UNCHANGED <<pc, allocated, misread>>
    BY <2>3
  <2>2. ASSUME ~misread PROVE \E S : Sound(S)'
    <3>1. PICK T : Sound(T)
      BY <1>1, <2>2 DEF TreeSound
    <3> DEFINE S == T \ JT!Below(node, m_DeepNode)
    <3>2. Pruned(node, T, node', S, m_DeepNode, u, t)
      BY <2>4, <3>1, FreedTree DEF Sound
    <3> HIDE DEF S
    <3>3. /\ DOMAIN node' \subseteq DOMAIN node /\ Tree(node', S)
          /\ Spelled(node, T, buffer) => Spelled(node', S, buffer)
      BY <3>2 DEF Pruned
    <3>4. m_DeepNode' \in S
      BY <2>4, <3>3 DEF Tree
    <3> QED BY <1>1, <2>4, <3>1, <3>3, <3>4 DEF Sound, Parsing, KeyRead
  <2> QED BY <1>1, <2>4, <2>2 DEF TreeSound, Parsing
<1> QED BY <1>2, <1>3

LEMMA TreeEnter ==
    ASSUME TreeSound, pc = "idle", buffer' = buffer, keyless' = keyless, NEW type \in {"object", "array"}, NEW k, NEW valid, JT!Enter(type, k, valid),
           NEW size, size = Cardinality(DOMAIN node[m_DeepNode].kids),
           valid /\ type = "array" => k = JT!Index(size) \/ \E i \in 0 .. size - 1 : k = JT!Index(i)
    PROVE  TreeSound'
<1> DEFINE old == JT!TypeOf(node, m_DeepNode)
           n == IF old = "new" THEN [node EXCEPT ![m_DeepNode] = JT!Container(type)] ELSE node
           there == old = type /\ JT!find_add(node, m_DeepNode, k)
<1>1. pc' = pc /\ misread' = misread /\ (ret' = ret \/ ret' = (IF ret \in {"refused", "threw"} THEN ret ELSE "used"))
  BY DEF JT!Enter, JT!Used
<1>2. ASSUME ~misread PROVE \E S : Sound(S)'
  <2>1. PICK T : Sound(T)
    BY <1>2 DEF TreeSound
  <2>2. /\ Tree(node, T) /\ m_DeepNode \in T /\ JT!m_EntraceNode \in T
        /\ allocated \in Nat /\ DOMAIN node \subseteq 1 .. allocated
    BY <2>1 DEF Sound, Tree
  \* The node looked into.
  <2>3. /\ DOMAIN n = DOMAIN node /\ Tree(n, T)
        /\ \A b : Spelled(node, T, b) => Spelled(n, T, b)
        /\ old \in {"new", type} => JT!TypeOf(n, m_DeepNode) = type /\ KidsOf(n, m_DeepNode) = KidsOf(node, m_DeepNode)
    <3>1. CASE old = "new"
      <4>1. KidsOf(node, m_DeepNode) = {}
        BY <2>2, <3>1 DEF Tree, Keyed
      <4>2. n = [node EXCEPT ![m_DeepNode] = JT!Leaf(<<type, <<>>>>, JT!OWN)]
        BY <3>1 DEF JT!Container
      <4> HIDE DEF n
      <4>3. /\ DOMAIN n = DOMAIN node /\ n[m_DeepNode] = JT!Leaf(<<type, <<>>>>, JT!OWN) /\ Tree(n, T)
            /\ \A b : Spelled(node, T, b) => Spelled(n, T, b)
        <5>1. Refilled(node, T, n, m_DeepNode, <<type, <<>>>>, JT!OWN)
          BY <2>2, <4>1, <4>2, PutTree
        <5> QED BY <5>1 DEF Refilled
      <4>4. JT!TypeOf(n, m_DeepNode) = type /\ KidsOf(n, m_DeepNode) = {}
        BY <4>3 DEF JT!TypeOf, KidsOf, JT!Leaf
      <4> QED BY <4>1, <4>3, <4>4
    <3>2. CASE old # "new"
      BY <2>2, <3>2
    <3> QED BY <3>1, <3>2
  <2> HIDE DEF n, old
  <2>4. CASE old \notin {"new", type} \/ ~valid
    <3>1. m_DeepNode' = JT!m_EntraceNode /\ node' = n /\ allocated' = allocated /\ ret' = ret
      BY <2>4 DEF JT!Enter, JT!ToTop, n, old
    <3> QED BY <1>1, <2>1, <2>2, <2>3, <3>1 DEF Sound, Parsing, KeyRead
  <2>5. CASE old \in {"new", type} /\ valid /\ there
    <3>1. m_DeepNode' = node[m_DeepNode].kids[k].data /\ UNCHANGED <<node, allocated, ret>>
      BY <2>5 DEF JT!Enter, there, old
    <3>2. m_DeepNode' \in T
      BY <2>2, <2>5, <3>1 DEF Tree, JT!find_add, Kid, KidsOf
    <3> QED BY <1>1, <2>1, <2>2, <3>1, <3>2 DEF Sound, Parsing, KeyRead
  <2>6. CASE old \in {"new", type} /\ valid /\ ~there
    <3> DEFINE q == allocated + 1
    <3>1. /\ m_DeepNode' = q /\ allocated' = q
          /\ node' = JT!Adopt(n, m_DeepNode, k, JT!OWN, q, JT!Leaf(<<"new", <<>>>>, JT!OWN))
      BY <2>6 DEF JT!Enter, there, old, n, JT!Container
    <3>2. k \notin KidsOf(n, m_DeepNode)
      <4>1. CASE old = type
        BY <2>3, <2>6, <4>1 DEF JT!find_add, KidsOf
      <4>2. CASE old # type
        <5>1. KidsOf(node, m_DeepNode) = {}
          BY <2>2, <2>6, <4>2 DEF Tree, Keyed, old
        <5> QED BY <2>3, <2>6, <5>1
      <4> QED BY <4>1, <4>2
    <3>3. JT!TypeOf(n, m_DeepNode) = "array" => k = JT!Index(Cardinality(KidsOf(n, m_DeepNode)))
      <4> SUFFICES ASSUME type = "array", k # JT!Index(size) PROVE FALSE
        BY <2>3, <2>6 DEF KidsOf
      <4>1. \E i \in 0 .. size - 1 : k = JT!Index(i)
        BY <2>6
      <4>2. KidsOf(n, m_DeepNode) = {JT!Index(i) : i \in 0 .. size - 1}
        BY <2>2, <2>3, <2>6 DEF Tree, Keyed, KidsOf
      <4> QED BY <3>2, <4>1, <4>2
    <3>4. q \notin DOMAIN n /\ q > m_DeepNode /\ q # JT!m_EntraceNode /\ JT!TypeOf(n, m_DeepNode) # "new" /\ q \in Nat
      <4>1. m_DeepNode \in 1 .. allocated /\ JT!m_EntraceNode \in 1 .. allocated
        BY <2>2 DEF Tree
      <4> QED BY <2>2, <2>3, <2>6, <4>1
    <3> HIDE DEF q
    <3>5. Grown(n, T, node', T \cup {q}, q, JT!OWN, <<"new", <<>>>>, JT!OWN)
      BY <2>2, <2>3, <3>1, <3>2, <3>3, <3>4, AdoptedTree
    <3>6. /\ DOMAIN node' = DOMAIN node \cup {q} /\ Tree(node', T \cup {q})
          /\ Spelled(node, T, buffer) => Spelled(node', T \cup {q}, buffer)
      BY <2>3, <3>5 DEF Grown
    <3>7. allocated' \in Nat /\ DOMAIN node' \subseteq 1 .. allocated'
      BY <2>2, <3>1, <3>6 DEF q
    <3> QED BY <1>1, <2>1, <3>1, <3>6, <3>7 DEF Sound, Parsing, KeyRead
  <2> QED BY <2>4, <2>5, <2>6
<1> QED BY <1>1, <1>2 DEF TreeSound, Parsing

LEMMA TreeLookUp == ASSUME TreeSound, NEW k, JT!LookUp(k) PROVE TreeSound'
<1>1. buffer' = buffer /\ keyless' = keyless /\ pc = "idle"
  BY DEF JT!LookUp, JT!Call, JT!parser
<1>2. CASE JT!Dangling \/ JT!Unreadable(m_DeepNode, k)
  BY <1>2, TreeCrash DEF JT!LookUp
<1>3. CASE ~(JT!Dangling \/ JT!Unreadable(m_DeepNode, k))
  <2>1. JT!Enter("object", k, TRUE)
    BY <1>3 DEF JT!LookUp
  <2> QED BY <1>1, <2>1, TreeEnter
<1> QED BY <1>2, <1>3

LEMMA TreeLookUpIndex == ASSUME TreeSound, NEW i, JT!LookUpIndex(i) PROVE TreeSound'
<1> DEFINE size == Cardinality(DOMAIN node[m_DeepNode].kids)
           k == JT!Index(IF i = -1 THEN size ELSE i)
           valid == i = -1 \/ i \in 0 .. size - 1
<1>1. buffer' = buffer /\ keyless' = keyless /\ pc = "idle"
  BY DEF JT!LookUpIndex, JT!Call, JT!parser
<1>2. CASE JT!Dangling
  BY <1>2, TreeCrash DEF JT!LookUpIndex
<1>3. CASE ~JT!Dangling
  <2>1. JT!Enter("array", k, valid)
    BY <1>3, SameCount DEF JT!LookUpIndex
  <2>2. valid => k = JT!Index(size) \/ \E j \in 0 .. size - 1 : k = JT!Index(j)
    OBVIOUS
  <2> HIDE DEF k, valid
  <2> QED BY <1>1, <2>1, <2>2, TreeEnter
<1> QED BY <1>2, <1>3

LEMMA TreeNext == ASSUME TreeSound, [JT!Next]_(JT!vars) PROVE TreeSound'
<1>1. ASSUME NEW t \in Texts, JT!parse(t) PROVE TreeSound'
  BY <1>1, TreeParse
<1>2. CASE JT!ParseStep
  <2>1. UNCHANGED <<buffer, misread>>
    BY <1>2 DEF JT!ParseStep
  <2> QED BY <1>2, <2>1, TreeField, TreeKey, TreeValue, TreeEnds DEF JT!ParseStep
<1>3. ASSUME NEW k \in Names, JT!LookUp(k) PROVE TreeSound'
  BY <1>3, TreeLookUp
<1>4. ASSUME NEW i \in Indices, JT!LookUpIndex(i) PROVE TreeSound'
  BY <1>4, TreeLookUpIndex
<1>5. ASSUME NEW type \in {"int", "double", "bool", "string"}, JT!Convert(type) PROVE TreeSound'
  BY <1>5, TreeConvert
<1>6. ASSUME NEW v \in Leaves, JT!AssignLeaf(v) PROVE TreeSound'
  BY <1>6, TreeAssign
<1>7. CASE UNCHANGED JT!vars
  <2>1. UNCHANGED <<node, allocated, buffer, key, misread, keyless, pc, ret, m_DeepNode, m_Stack>>
    BY <1>7 DEF JT!vars
  <2> QED BY <2>1 DEF TreeSound, Parsing, Sound, Stacked, KeyRead, Tree, Spelled, JT!TypeOf, KidsOf, Kid, Shaped, Keyed
<1> QED BY <1>1, <1>2, <1>3, <1>4, <1>5, <1>6, <1>7 DEF JT!Next

HIDE DEF given, cur, pos, pc, ret, m_Map, node, allocated, m_DeepNode,
         m_Stack, at, m_NodeID, calls, m_head, buffer, key, misread, keyless

-----------------------------------------------------------------------------
(***************************************************************************)
(* Msg_Queue_IPC, for any threads and any number of buffers: each buffer   *)
(* has one owner, and a message arrives as it was sent.  The two hang      *)
(* together: what a thread copies is safe because no other has the buffer, *)
(* and no other has it because the queues never hold it twice.             *)
(***************************************************************************)

\* The variables by the names that MsgQueueIPC gives them; m_data is its buffer and
\* place its pc.
free == v1
used == v2
exists == v3
m_data == v4
place == v5
hand == v6
datum == v7
times == v8
due == v9
wanted == v10

USE DEF free, used, exists, m_data, place, hand, datum, times, due, wanted

\* A thread sends or receives; sizes are numbers.
Roles ==
    /\ Senders \cap Receivers = {}
    /\ ArraySize \in Nat /\ MaxTimes \in Nat

Distinct(q) == \A i, j \in DOMAIN q : q[i] = q[j] => i = j
Has(q, p) == \E i \in DOMAIN q : q[i] = p

\* The types, with those of the values copied.
QueueTyped ==
    /\ MQ!TypeOK
    /\ exists \in BOOLEAN
    /\ datum \in [MQ!Threads -> Messages \cup {MQ!NoData}]
    /\ wanted \in [Receivers -> Messages \cup {MQ!NoData}]

\* A thread has a buffer in its hand where its program says so.
Placed ==
    /\ \A s \in Senders : /\ place[s] \in {"idle", "copy", "put"}
                          /\ place[s] # "idle" => datum[s] \in Messages
    /\ \A r \in Receivers : place[r] \in {"idle", "rcv", "copy", "give"}
    /\ \A t \in MQ!Threads : hand[t] # MQ!NULL <=> place[t] \in {"copy", "put", "give"}

\* No buffer is in two places, nor twice in one.
Apart ==
    /\ Distinct(free) /\ Distinct(used)
    /\ \A p \in MQ!Pointors : ~(Has(free, p) /\ Has(used, p))
    /\ \A t \in MQ!Threads : hand[t] # MQ!NULL => ~Has(free, hand[t]) /\ ~Has(used, hand[t])
    /\ \A t, u \in MQ!Threads : hand[t] = hand[u] /\ hand[t] # MQ!NULL => t = u

\* While the queues exist no buffer is lost.
Present ==
    exists => \A p \in MQ!Pointors : Has(free, p) \/ Has(used, p) \/ \E t \in MQ!Threads : hand[t] = p

\* A buffer that is filled has what its sender meant, in the sender's hand, in the
\* queue and in the receiver's.
Filled ==
    /\ MQ!DataIntact
    /\ \A s \in Senders : place[s] = "put" => m_data[hand[s]] = datum[s]
    /\ \A r \in Receivers : place[r] = "copy" => m_data[hand[r]] = wanted[r]

QueueWell == QueueTyped /\ Placed /\ Apart /\ Present /\ Filled

-----------------------------------------------------------------------------
(* Sequences.                                                              *)

\* A queue after its first has been taken.
LEMMA TailIs ==
    ASSUME NEW S, NEW q \in Seq(S), q # <<>>
    PROVE  /\ Head(q) \in S /\ Tail(q) \in Seq(S) /\ Len(q) \in Nat /\ Len(q) > 0
           /\ Head(q) = q[1] /\ 1 \in DOMAIN q
           /\ Len(Tail(q)) = Len(q) - 1
           /\ \A i \in DOMAIN Tail(q) : i + 1 \in DOMAIN q /\ Tail(q)[i] = q[i + 1]
           /\ \A i \in DOMAIN q \ {1} : i - 1 \in DOMAIN Tail(q) /\ Tail(q)[i - 1] = q[i]
<1>1. /\ Head(q) \in S /\ Tail(q) \in Seq(S) /\ Len(Tail(q)) = Len(q) - 1 /\ Head(q) = q[1]
      /\ Len(q) \in Nat /\ Len(q) > 0
      /\ \A i \in 1 .. Len(Tail(q)) : Tail(q)[i] = q[i + 1]
  BY HeadTailProperties, EmptySeq, LenProperties
<1>2. DOMAIN q = 1 .. Len(q) /\ DOMAIN Tail(q) = 1 .. Len(Tail(q))
  BY <1>1
<1>3. \A i \in DOMAIN Tail(q) : i + 1 \in DOMAIN q /\ Tail(q)[i] = q[i + 1]
  BY <1>1, <1>2
<1>4. ASSUME NEW i \in DOMAIN q \ {1} PROVE i - 1 \in DOMAIN Tail(q) /\ Tail(q)[i - 1] = q[i]
  <2>1. i - 1 \in DOMAIN Tail(q) /\ i - 1 + 1 = i
    BY <1>1, <1>2
  <2> QED BY <2>1, <1>3
<1>5. 1 \in DOMAIN q
  BY <1>1, <1>2
<1> QED BY <1>1, <1>3, <1>4, <1>5

\* Taking the first of a queue without doubles takes that item out, and only that.
LEMMA TakenIs ==
    ASSUME NEW S, NEW q \in Seq(S), q # <<>>, Distinct(q)
    PROVE  /\ Distinct(Tail(q))
           /\ \A p : Has(q, p) <=> p = Head(q) \/ Has(Tail(q), p)
           /\ ~Has(Tail(q), Head(q))
<1> PICK t : t = Tail(q)
  OBVIOUS
<1> PICK h : h = Head(q)
  OBVIOUS
<1>1. /\ h = q[1] /\ 1 \in DOMAIN q
      /\ \A i \in DOMAIN t : i \in Int /\ i > 0 /\ i + 1 \in DOMAIN q /\ t[i] = q[i + 1]
      /\ \A i \in DOMAIN q \ {1} : i - 1 \in DOMAIN t /\ t[i - 1] = q[i]
  BY TailIs
<1>2. Distinct(t)
  <2>1. ASSUME NEW i \in DOMAIN t, NEW j \in DOMAIN t, t[i] = t[j] PROVE i = j
    <3>1. i + 1 = j + 1
      BY <2>1, <1>1 DEF Distinct
    <3> QED BY <3>1, <1>1
  <2> QED BY <2>1 DEF Distinct
<1>3. ASSUME NEW p PROVE Has(q, p) <=> p = h \/ Has(t, p)
  <2>1. Has(q, p) => p = h \/ Has(t, p)
    BY <1>1 DEF Has
  <2>2. p = h \/ Has(t, p) => Has(q, p)
    BY <1>1 DEF Has
  <2> QED BY <2>1, <2>2
<1>4. ~Has(t, h)
  <2>1. ASSUME NEW i \in DOMAIN t, t[i] = h PROVE FALSE
    <3>1. i + 1 = 1
      BY <2>1, <1>1 DEF Distinct
    <3> QED BY <3>1, <1>1
  <2> QED BY <2>1 DEF Has
<1> QED BY <1>2, <1>3, <1>4

\* A queue behind which one has been put.
LEMMA PutIs ==
    ASSUME NEW S, NEW q \in Seq(S), NEW x \in S
    PROVE  /\ Append(q, x) \in Seq(S) /\ Len(Append(q, x)) = Len(q) + 1
           /\ DOMAIN Append(q, x) = DOMAIN q \cup {Len(q) + 1}
           /\ Append(q, x)[Len(q) + 1] = x
           /\ \A i \in DOMAIN q : Append(q, x)[i] = q[i]
           /\ Len(q) + 1 \notin DOMAIN q
           /\ \A p : Has(Append(q, x), p) <=> Has(q, p) \/ p = x
           /\ Distinct(q) /\ ~Has(q, x) => Distinct(Append(q, x))
<1> PICK a : a = Append(q, x)
  OBVIOUS
<1>1. /\ a \in Seq(S) /\ Len(a) = Len(q) + 1 /\ DOMAIN a = 1 .. Len(q) + 1 /\ DOMAIN q = 1 .. Len(q)
      /\ Len(q) \in Nat
      /\ \A i \in 1 .. Len(q) : a[i] = q[i]
      /\ a[Len(q) + 1] = x
  BY AppendProperties, LenProperties
<1>2. DOMAIN a = DOMAIN q \cup {Len(q) + 1} /\ Len(q) + 1 \notin DOMAIN q
  BY <1>1
<1>3. ASSUME NEW p PROVE Has(a, p) <=> Has(q, p) \/ p = x
  BY <1>1, <1>2 DEF Has
<1>4. ASSUME Distinct(q), ~Has(q, x), NEW i \in DOMAIN a, NEW j \in DOMAIN a, a[i] = a[j] PROVE i = j
  BY <1>1, <1>2, <1>4 DEF Has, Distinct
<1>5. Distinct(q) /\ ~Has(q, x) => Distinct(a)
  BY <1>4 DEF Distinct
<1> QED BY <1>1, <1>2, <1>3, <1>5

\* How often a queue without doubles has an item.
LEMMA CountIs ==
    ASSUME NEW S, NEW q \in Seq(S), Distinct(q), NEW p
    PROVE  Cardinality({i \in DOMAIN q : q[i] = p}) = IF Has(q, p) THEN 1 ELSE 0
<1>1. CASE Has(q, p)
  <2>1. PICK i \in DOMAIN q : q[i] = p
    BY <1>1 DEF Has
  <2>2. {j \in DOMAIN q : q[j] = p} = {i}
    BY <2>1 DEF Distinct
  <2> QED BY <1>1, <2>2, FS_Singleton
<1>2. CASE ~Has(q, p)
  <2>1. {j \in DOMAIN q : q[j] = p} = {}
    BY <1>2 DEF Has
  <2> QED BY <1>2, <2>1, FS_EmptySet
<1> QED BY <1>1, <1>2

-----------------------------------------------------------------------------
(* The properties, from the invariant.                                     *)

\* The parts of the invariant say what the property counts.
LEMMA QueueOwner == ASSUME QueueWell PROVE MQ!BufferHasOneOwner
<1> SUFFICES ASSUME exists, NEW p \in MQ!Pointors
             PROVE  Cardinality({i \in DOMAIN free : free[i] = p})
                    + Cardinality({i \in DOMAIN used : used[i] = p})
                    + Cardinality({t \in MQ!Threads : hand[t] = p}) = 1
  BY SameCount DEF MQ!BufferHasOneOwner
<1> DEFINE Hands == {t \in MQ!Threads : hand[t] = p}
<1>1. p # MQ!NULL
  BY DEF MQ!Pointors, MQ!NULL
<1>2. /\ Cardinality({i \in DOMAIN free : free[i] = p}) = IF Has(free, p) THEN 1 ELSE 0
      /\ Cardinality({i \in DOMAIN used : used[i] = p}) = IF Has(used, p) THEN 1 ELSE 0
  BY CountIs DEF QueueWell, QueueTyped, MQ!TypeOK, Apart
<1>3. Cardinality(Hands) = IF Hands = {} THEN 0 ELSE 1
  <2>1. CASE Hands = {}
    BY <2>1, FS_EmptySet
  <2>2. CASE Hands # {}
    <3>1. PICK t \in Hands : TRUE
      BY <2>2
    <3>2. Hands = {t}
      BY <3>1, <1>1 DEF QueueWell, Apart
    <3> QED BY <2>2, <3>2, FS_Singleton
  <2> QED BY <2>1, <2>2
<1>4. /\ Has(free, p) \/ Has(used, p) \/ Hands # {}
      /\ ~(Has(free, p) /\ Has(used, p))
      /\ Hands # {} => ~Has(free, p) /\ ~Has(used, p)
  BY <1>1 DEF QueueWell, Apart, Present
<1> HIDE DEF Hands
<1>5. Cardinality({i \in DOMAIN free : free[i] = p}) + Cardinality({i \in DOMAIN used : used[i] = p})
      + Cardinality(Hands) = 1
  BY <1>2, <1>3, <1>4
<1> QED BY <1>5 DEF Hands

-----------------------------------------------------------------------------
(* The invariant holds at first and every step keeps it.                   *)

\* At first every buffer waits in the queue of the unused ones.
LEMMA QueueInit == ASSUME Roles, MQ!Init PROVE QueueWell
<1>1. /\ DOMAIN free = MQ!Pointors /\ \A i \in MQ!Pointors : free[i] = i
      /\ free \in Seq(MQ!Pointors) /\ used = <<>> /\ due = <<>>
  <2>1. free = [i \in 1 .. ArraySize |-> i] /\ ArraySize \in Nat
    BY DEF MQ!Init, Roles, MQ!Pointors
  <2>2. \A i \in 1 .. ArraySize : i \in MQ!Pointors
    BY DEF MQ!Pointors
  <2>3. free \in Seq(MQ!Pointors)
    BY <2>1, <2>2
  <2> QED BY <2>1, <2>3 DEF MQ!Init, MQ!Pointors
<1>2. DOMAIN used = {} /\ Len(used) = 0 /\ Len(due) = 0
  BY <1>1, EmptySeq
<1>3. QueueTyped
  <2>1. \A t \in MQ!Threads : 0 \in -1 .. MaxTimes
    BY DEF Roles
  <2> QED BY <1>1, <2>1, EmptySeq DEF MQ!Init, QueueTyped, MQ!TypeOK
<1>4. Placed
  BY DEF MQ!Init, Placed, MQ!Threads, MQ!NULL
<1>5. Apart
  BY <1>1, <1>2 DEF MQ!Init, Apart, Distinct, Has, MQ!NULL
<1>6. Present
  BY <1>1 DEF Present, Has
<1>7. Filled
  BY <1>2 DEF MQ!Init, Filled, MQ!DataIntact, MQ!Threads
<1> QED BY <1>3, <1>4, <1>5, <1>6, <1>7 DEF QueueWell

\* What the types say of a thread.
LEMMA TypesAre ==
    ASSUME Roles, QueueWell
    PROVE  /\ free \in Seq(MQ!Pointors) /\ used \in Seq(MQ!Pointors) /\ due \in Seq(Messages)
           /\ m_data \in [MQ!Pointors -> Messages \cup {MQ!NoData}] /\ exists \in BOOLEAN
           /\ place \in [MQ!Threads -> {"idle", "rcv", "copy", "put", "give"}]
           /\ hand \in [MQ!Threads -> MQ!Pointors \cup {MQ!NULL}]
           /\ times \in [MQ!Threads -> -1 .. MaxTimes]
           /\ datum \in [MQ!Threads -> Messages \cup {MQ!NoData}]
           /\ wanted \in [Receivers -> Messages \cup {MQ!NoData}]
           /\ \A p \in MQ!Pointors : p # MQ!NULL
           /\ \A s \in Senders : s \in MQ!Threads /\ s \notin Receivers
           /\ \A r \in Receivers : r \in MQ!Threads /\ r \notin Senders
           /\ MQ!Threads = Senders \cup Receivers
BY DEF QueueWell, QueueTyped, MQ!TypeOK, Roles, MQ!Threads, MQ!Pointors, MQ!NULL

\* The buffer at the head goes to the hand of the sender.
LEMMA MSGSndStep == ASSUME Roles, QueueWell, NEW s \in Senders, NEW d \in Messages, MQ!MSGSnd(s, d) PROVE QueueWell'
<1>1. CASE MQ!NoUsefullPointor /\ UNCHANGED <<free, hand, place, datum>>
  <2>1. UNCHANGED MQ!vars
    BY <1>1 DEF MQ!MSGSnd, MQ!vars, MQ!GetUsefullPointor, MQ!NoUsefullPointor
  <2> QED BY <2>1 DEF MQ!vars, QueueWell, QueueTyped, MQ!TypeOK, Placed, Apart, Present, Filled, MQ!DataIntact, Distinct, Has
<1>2. CASE MQ!GetUsefullPointor(s) /\ MQ!Goto(s, "copy") /\ datum' = [datum EXCEPT ![s] = d]
  <2>1. /\ place[s] = "idle" /\ exists /\ free # <<>> /\ free' = Tail(free)
        /\ used' = used /\ exists' = exists /\ m_data' = m_data /\ times' = times /\ due' = due
        /\ wanted' = wanted
    BY <1>2 DEF MQ!MSGSnd, MQ!GetUsefullPointor
  <2>2. /\ hand' = [hand EXCEPT ![s] = Head(free)] /\ place' = [place EXCEPT ![s] = "copy"]
        /\ datum' = [datum EXCEPT ![s] = d]
    BY <1>2 DEF MQ!GetUsefullPointor, MQ!Goto
  <2>3. Head(free) \in MQ!Pointors /\ Tail(free) \in Seq(MQ!Pointors)
    BY <2>1, TypesAre, TailIs
  <2>4. /\ hand'[s] = Head(free) /\ place'[s] = "copy" /\ datum'[s] = d
        /\ \A t \in MQ!Threads \ {s} : hand'[t] = hand[t] /\ place'[t] = place[t] /\ datum'[t] = datum[t]
    BY <2>2, TypesAre
  <2>5. /\ Distinct(free') /\ \A p : Has(free, p) <=> p = Head(free) \/ Has(free', p)
        /\ ~Has(free', Head(free))
    BY <2>1, TypesAre, TakenIs DEF QueueWell, Apart
  <2>6. QueueTyped'
    BY <2>1, <2>2, <2>3, TypesAre DEF QueueTyped, MQ!TypeOK
  <2>7. Placed'
    BY <2>3, <2>4, TypesAre DEF QueueWell, Placed
  <2>8. Apart'
    <3>1. Distinct(used')
      BY <2>1 DEF QueueWell, Apart
    <3>2. ASSUME NEW p \in MQ!Pointors PROVE ~(Has(free', p) /\ Has(used', p))
      BY <2>1, <2>5 DEF QueueWell, Apart
    <3>3. ASSUME NEW t \in MQ!Threads, hand'[t] # MQ!NULL PROVE ~Has(free', hand'[t]) /\ ~Has(used', hand'[t])
      <4>1. CASE t = s
        BY <4>1, <2>1, <2>3, <2>4, <2>5 DEF QueueWell, Apart
      <4>2. CASE t # s
        BY <4>2, <3>3, <2>1, <2>4, <2>5 DEF QueueWell, Apart
      <4> QED BY <4>1, <4>2
    <3>4. ASSUME NEW t \in MQ!Threads, NEW u \in MQ!Threads, hand'[t] = hand'[u], hand'[t] # MQ!NULL PROVE t = u
      <4>1. \A x \in MQ!Threads \ {s} : hand[x] # Head(free)
        BY <2>3, <2>5, TypesAre DEF QueueWell, Apart
      <4> QED BY <4>1, <3>4, <2>4 DEF QueueWell, Apart
    <3> QED BY <2>5, <3>1, <3>2, <3>3, <3>4 DEF Apart
  <2>9. Present'
    <3>1. hand[s] = MQ!NULL
      BY <2>1, TypesAre DEF QueueWell, Placed
    <3> QED BY <3>1, <2>1, <2>4, <2>5, TypesAre DEF QueueWell, Present
  <2>10. Filled'
    <3>1. \A x \in Senders : place'[x] = "put" => place[x] = "put" /\ hand'[x] = hand[x] /\ datum'[x] = datum[x]
      BY <2>4, TypesAre
    <3>2. \A r \in Receivers : place'[r] = place[r] /\ hand'[r] = hand[r] /\ datum'[r] = datum[r]
      BY <2>4, TypesAre
    <3> QED BY <3>1, <3>2, <2>1 DEF QueueWell, Filled, MQ!DataIntact
  <2> QED BY <2>6, <2>7, <2>8, <2>9, <2>10 DEF QueueWell
<1> QED BY <1>1, <1>2 DEF MQ!MSGSnd

\* The sender writes into the buffer in its hand: no queue and no receiver has it.
LEMMA SndCopyStep == ASSUME Roles, QueueWell, NEW s \in Senders, MQ!SndCopy(s) PROVE QueueWell'
<1>1. /\ place[s] = "copy" /\ m_data' = [m_data EXCEPT ![hand[s]] = datum[s]] /\ place' = [place EXCEPT ![s] = "put"]
      /\ free' = free /\ used' = used /\ exists' = exists /\ hand' = hand /\ datum' = datum
      /\ times' = times /\ due' = due /\ wanted' = wanted
  BY DEF MQ!SndCopy, MQ!Goto
<1>2. hand[s] \in MQ!Pointors /\ hand[s] # MQ!NULL
  BY <1>1, TypesAre DEF QueueWell, Placed
<1>3. /\ place'[s] = "put" /\ \A t \in MQ!Threads \ {s} : place'[t] = place[t]
      /\ m_data'[hand[s]] = datum[s] /\ \A p \in MQ!Pointors \ {hand[s]} : m_data'[p] = m_data[p]
  BY <1>1, <1>2, TypesAre
<1>4. QueueTyped'
  BY <1>1, <1>2, TypesAre DEF QueueTyped, MQ!TypeOK
<1>5. Placed'
  BY <1>1, <1>2, <1>3, TypesAre DEF QueueWell, Placed
<1>6. Apart' /\ Present'
  BY <1>1 DEF QueueWell, Apart, Present
<1>7. Filled'
  <2>1. \A t \in MQ!Threads \ {s} : hand[t] # MQ!NULL => hand[t] \in MQ!Pointors \ {hand[s]}
    BY <1>2, TypesAre DEF QueueWell, Apart
  <2>2. ASSUME NEW i \in DOMAIN used PROVE m_data'[used[i]] = m_data[used[i]]
    <3>1. used[i] \in MQ!Pointors /\ used[i] # hand[s]
      BY <1>2, TypesAre DEF QueueWell, Apart, Has
    <3> QED BY <3>1, <1>3
  <2>3. ASSUME NEW x \in Senders, place'[x] = "put" PROVE m_data'[hand'[x]] = datum'[x]
    BY <2>1, <2>3, <1>1, <1>2, <1>3, TypesAre DEF QueueWell, Placed, Filled
  <2>4. ASSUME NEW r \in Receivers, place'[r] = "copy" PROVE m_data'[hand'[r]] = wanted'[r]
    BY <2>1, <2>4, <1>1, <1>3, TypesAre DEF QueueWell, Placed, Filled
  <2>5. MQ!DataIntact'
    BY <2>2, <1>1, <1>3, TypesAre DEF QueueWell, Filled, MQ!DataIntact
  <2> QED BY <2>3, <2>4, <2>5 DEF Filled
<1> QED BY <1>4, <1>5, <1>6, <1>7 DEF QueueWell

\* A thread t gives its buffer away: no other place had it.
LEMMA GivenIs ==
    ASSUME Roles, QueueWell, NEW t \in MQ!Threads, hand[t] # MQ!NULL, hand' = [hand EXCEPT ![t] = MQ!NULL]
    PROVE  /\ hand' \in [MQ!Threads -> MQ!Pointors \cup {MQ!NULL}] /\ hand[t] \in MQ!Pointors
           /\ hand'[t] = MQ!NULL /\ \A u \in MQ!Threads \ {t} : hand'[u] = hand[u] /\ hand[u] # hand[t]
           /\ ~Has(free, hand[t]) /\ ~Has(used, hand[t])
BY TypesAre DEF QueueWell, Apart

\* The filled buffer goes behind the others, and its content is due.
LEMMA SndPutStep == ASSUME Roles, QueueWell, NEW s \in Senders, MQ!SndPut(s) PROVE QueueWell'
<1>1. /\ place[s] = "put" /\ place' = [place EXCEPT ![s] = "idle"] /\ hand' = [hand EXCEPT ![s] = MQ!NULL]
      /\ free' = free /\ exists' = exists /\ m_data' = m_data /\ datum' = datum /\ times' = times
      /\ wanted' = wanted
      /\ ~exists => used' = used /\ due' = due
      /\ exists => used' = Append(used, hand[s]) /\ due' = Append(due, datum[s])
  BY DEF MQ!SndPut, MQ!PutPointorToUsedQueue, MQ!Goto
<1>2. /\ hand[s] # MQ!NULL /\ datum[s] \in Messages /\ s \in MQ!Threads /\ s \notin Receivers
      /\ m_data[hand[s]] = datum[s]
  BY <1>1, TypesAre DEF QueueWell, Placed, Filled
<1>3. /\ hand' \in [MQ!Threads -> MQ!Pointors \cup {MQ!NULL}] /\ hand[s] \in MQ!Pointors
      /\ hand'[s] = MQ!NULL /\ \A u \in MQ!Threads \ {s} : hand'[u] = hand[u] /\ hand[u] # hand[s]
      /\ ~Has(free, hand[s]) /\ ~Has(used, hand[s])
  BY <1>1, <1>2, GivenIs
<1>4. place'[s] = "idle" /\ \A t \in MQ!Threads \ {s} : place'[t] = place[t]
  BY <1>1, <1>2, TypesAre
<1>5. Placed'
  BY <1>1, <1>2, <1>3, <1>4, TypesAre DEF QueueWell, Placed
<1>6. /\ used' \in Seq(MQ!Pointors) /\ due' \in Seq(Messages) /\ Distinct(used')
      /\ \A p : Has(used', p) => Has(used, p) \/ p = hand[s]
      /\ exists => Has(used', hand[s]) /\ \A p : Has(used, p) => Has(used', p)
      /\ Len(used') = Len(due') /\ \A i \in DOMAIN used' : m_data[used'[i]] = due'[i]
  <2>0. Len(used) = Len(due) /\ \A i \in DOMAIN used : m_data[used[i]] = due[i]
    BY DEF QueueWell, Filled, MQ!DataIntact
  <2>1. CASE ~exists
    BY <2>0, <2>1, <1>1, TypesAre DEF QueueWell, Apart
  <2>2. CASE exists
    <3>1. used' = Append(used, hand[s]) /\ due' = Append(due, datum[s])
      BY <2>2, <1>1
    <3>2. /\ used' \in Seq(MQ!Pointors) /\ Len(used') = Len(used) + 1
          /\ DOMAIN used' = DOMAIN used \cup {Len(used) + 1}
          /\ used'[Len(used) + 1] = hand[s]
          /\ \A i \in DOMAIN used : used'[i] = used[i]
          /\ \A p : Has(used', p) <=> Has(used, p) \/ p = hand[s]
          /\ Distinct(used')
      BY <3>1, <1>3, TypesAre, PutIs DEF QueueWell, Apart
    <3>3. /\ due' \in Seq(Messages) /\ Len(due') = Len(due) + 1
          /\ due'[Len(due) + 1] = datum[s] /\ \A i \in DOMAIN due : due'[i] = due[i]
      BY <3>1, <1>2, TypesAre, PutIs
    <3>4. DOMAIN due = DOMAIN used
      BY <2>0, TypesAre, LenProperties
    <3>5. ASSUME NEW i \in DOMAIN used' PROVE m_data[used'[i]] = due'[i]
      BY <2>0, <3>2, <3>3, <3>4, <1>2
    <3> QED BY <2>0, <3>2, <3>3, <3>5
  <2> QED BY <2>1, <2>2
<1>7. QueueTyped'
  BY <1>1, <1>3, <1>6, TypesAre DEF QueueTyped, MQ!TypeOK
<1>8. Apart'
  <2>1. ASSUME NEW p \in MQ!Pointors PROVE ~(Has(free', p) /\ Has(used', p))
    BY <1>1, <1>3, <1>6 DEF QueueWell, Apart
  <2>2. ASSUME NEW t \in MQ!Threads, hand'[t] # MQ!NULL PROVE ~Has(free', hand'[t]) /\ ~Has(used', hand'[t])
    BY <2>2, <1>1, <1>3, <1>6 DEF QueueWell, Apart
  <2>3. ASSUME NEW t \in MQ!Threads, NEW u \in MQ!Threads, hand'[t] = hand'[u], hand'[t] # MQ!NULL PROVE t = u
    BY <2>3, <1>3 DEF QueueWell, Apart
  <2> QED BY <2>1, <2>2, <2>3, <1>1, <1>6 DEF QueueWell, Apart
<1>9. Present'
  BY <1>1, <1>2, <1>3, <1>6 DEF QueueWell, Present
<1>10. Filled'
  <2>1. \A x \in Senders : place'[x] = "put" => place[x] = "put" /\ hand'[x] = hand[x]
    BY <1>3, <1>4, TypesAre
  <2>2. \A r \in Receivers : place'[r] = place[r] /\ hand'[r] = hand[r]
    BY <1>2, <1>3, <1>4, TypesAre
  <2> QED BY <2>1, <2>2, <1>1, <1>6 DEF QueueWell, Filled, MQ!DataIntact
<1> QED BY <1>5, <1>7, <1>8, <1>9, <1>10 DEF QueueWell

\* A receiver starts to wait.
LEMMA MSGRcvStep ==
    ASSUME Roles, QueueWell, NEW r \in Receivers, NEW n \in {MQ!Forever} \cup 0 .. MaxTimes, MQ!MSGRcv(r, n)
    PROVE  QueueWell'
<1>1. /\ place[r] = "idle" /\ place' = [place EXCEPT ![r] = "rcv"] /\ times' = [times EXCEPT ![r] = n]
      /\ free' = free /\ used' = used /\ exists' = exists /\ m_data' = m_data /\ hand' = hand
      /\ datum' = datum /\ due' = due /\ wanted' = wanted
  BY DEF MQ!MSGRcv, MQ!Goto
<1>2. r \in MQ!Threads /\ place'[r] = "rcv" /\ \A t \in MQ!Threads \ {r} : place'[t] = place[t]
  BY <1>1, TypesAre
<1>3. n \in -1 .. MaxTimes
  BY DEF Roles, MQ!Forever
<1>4. QueueTyped'
  BY <1>1, <1>2, <1>3, TypesAre DEF QueueTyped, MQ!TypeOK
<1>5. Placed'
  BY <1>1, <1>2, TypesAre DEF QueueWell, Placed
<1>6. Apart' /\ Present'
  BY <1>1 DEF QueueWell, Apart, Present
<1>7. Filled'
  BY <1>1, <1>2, TypesAre DEF QueueWell, Filled, MQ!DataIntact
<1> QED BY <1>4, <1>5, <1>6, <1>7 DEF QueueWell

\* The buffer at the head goes to the hand of the receiver, with what is due first.
LEMMA RcvTakeStep == ASSUME Roles, QueueWell, NEW r \in Receivers, MQ!RcvTake(r) PROVE QueueWell'
<1>1. /\ place[r] = "rcv" /\ exists /\ used # <<>> /\ used' = Tail(used) /\ due' = Tail(due)
      /\ hand' = [hand EXCEPT ![r] = Head(used)] /\ wanted' = [wanted EXCEPT ![r] = Head(due)]
      /\ place' = [place EXCEPT ![r] = "copy"]
      /\ free' = free /\ exists' = exists /\ m_data' = m_data /\ datum' = datum /\ times' = times
  BY DEF MQ!RcvTake, MQ!Goto
<1>2. Len(used) = Len(due) /\ \A i \in DOMAIN used : m_data[used[i]] = due[i]
  BY DEF QueueWell, Filled, MQ!DataIntact
<1>3. /\ Head(used) \in MQ!Pointors /\ used' \in Seq(MQ!Pointors) /\ Len(used) \in Nat /\ Len(used) > 0
      /\ Head(used) = used[1] /\ 1 \in DOMAIN used
      /\ Len(used') = Len(used) - 1
      /\ \A i \in DOMAIN used' : i + 1 \in DOMAIN used /\ used'[i] = used[i + 1]
  BY <1>1, TypesAre, TailIs
<1>4. due # <<>>
  BY <1>2, <1>3, EmptySeq
<1>5. /\ Head(due) \in Messages /\ due' \in Seq(Messages) /\ Head(due) = due[1] /\ Len(due') = Len(due) - 1
      /\ \A i \in DOMAIN due' : due'[i] = due[i + 1]
  BY <1>1, <1>4, TypesAre, TailIs
<1>6. /\ Distinct(used') /\ \A p : Has(used, p) <=> p = Head(used) \/ Has(used', p)
      /\ ~Has(used', Head(used))
  BY <1>1, TypesAre, TakenIs DEF QueueWell, Apart
<1>7. /\ r \in MQ!Threads /\ r \notin Senders /\ hand'[r] = Head(used) /\ place'[r] = "copy"
      /\ wanted'[r] = Head(due)
      /\ \A t \in MQ!Threads \ {r} : hand'[t] = hand[t] /\ place'[t] = place[t]
      /\ \A x \in Receivers \ {r} : wanted'[x] = wanted[x]
  BY <1>1, TypesAre
<1>8. QueueTyped'
  BY <1>1, <1>3, <1>5, TypesAre DEF QueueTyped, MQ!TypeOK
<1>9. Placed'
  BY <1>1, <1>3, <1>7, TypesAre DEF QueueWell, Placed
<1>10. Apart'
  <2>1. ASSUME NEW p \in MQ!Pointors PROVE ~(Has(free', p) /\ Has(used', p))
    BY <1>1, <1>6 DEF QueueWell, Apart
  <2>2. ASSUME NEW t \in MQ!Threads, hand'[t] # MQ!NULL PROVE ~Has(free', hand'[t]) /\ ~Has(used', hand'[t])
    <3>1. CASE t = r
      BY <3>1, <1>1, <1>3, <1>6, <1>7 DEF QueueWell, Apart
    <3>2. CASE t # r
      BY <3>2, <2>2, <1>1, <1>6, <1>7 DEF QueueWell, Apart
    <3> QED BY <3>1, <3>2
  <2>3. ASSUME NEW t \in MQ!Threads, NEW u \in MQ!Threads, hand'[t] = hand'[u], hand'[t] # MQ!NULL PROVE t = u
    <3>1. \A x \in MQ!Threads \ {r} : hand[x] # Head(used)
      BY <1>3, <1>6, TypesAre DEF QueueWell, Apart
    <3> QED BY <3>1, <2>3, <1>7 DEF QueueWell, Apart
  <2> QED BY <2>1, <2>2, <2>3, <1>1, <1>6 DEF QueueWell, Apart
<1>11. Present'
  <2>1. hand[r] = MQ!NULL
    BY <1>1, <1>7 DEF QueueWell, Placed
  <2> QED BY <2>1, <1>1, <1>6, <1>7, TypesAre DEF QueueWell, Present
<1>12. Filled'
  <2>1. m_data[Head(used)] = Head(due)
    BY <1>2, <1>3, <1>5
  <2>2. Len(used') = Len(due') /\ DOMAIN used' = DOMAIN due'
    BY <1>2, <1>3, <1>5, LenProperties
  <2>3. \A i \in DOMAIN used' : m_data[used'[i]] = due'[i]
    BY <2>2, <1>2, <1>3, <1>5
  <2>4. \A x \in Senders : x \in MQ!Threads \ {r}
    BY <1>7, TypesAre
  <2>5. \A x \in Receivers : place'[x] = "copy" => m_data'[hand'[x]] = wanted'[x]
    BY <2>1, <1>1, <1>7, TypesAre DEF QueueWell, Filled
  <2>6. \A x \in Receivers : place'[x] = "give" => datum'[x] = wanted'[x]
    BY <1>1, <1>7, TypesAre DEF QueueWell, Filled, MQ!DataIntact
  <2>7. MQ!DataIntact'
    BY <2>2, <2>3, <2>6, <1>1 DEF MQ!DataIntact
  <2> QED BY <2>4, <2>5, <2>7, <1>1, <1>7 DEF QueueWell, Filled
<1> QED BY <1>8, <1>9, <1>10, <1>11, <1>12 DEF QueueWell

\* Nothing was there: a poll less.
LEMMA RcvMissStep == ASSUME Roles, QueueWell, NEW r \in Receivers, MQ!RcvMiss(r) PROVE QueueWell'
<1>1. /\ place[r] = "rcv"
      /\ free' = free /\ used' = used /\ exists' = exists /\ m_data' = m_data /\ hand' = hand
      /\ datum' = datum /\ due' = due /\ wanted' = wanted
      /\ \/ times[r] > 1 /\ times' = [times EXCEPT ![r] = times[r] - 1] /\ place' = place
         \/ times' = [times EXCEPT ![r] = 0] /\ place' = [place EXCEPT ![r] = "idle"]
  BY DEF MQ!RcvMiss, MQ!Goto
<1>2. /\ r \in MQ!Threads /\ place'[r] \in {"rcv", "idle"} /\ \A t \in MQ!Threads \ {r} : place'[t] = place[t]
      /\ place' \in [MQ!Threads -> {"idle", "rcv", "copy", "put", "give"}]
  BY <1>1, TypesAre
<1>3. times' \in [MQ!Threads -> -1 .. MaxTimes]
  <2>1. times[r] > 1 => times[r] - 1 \in -1 .. MaxTimes
    <3>1. times[r] \in -1 .. MaxTimes
      BY <1>2, TypesAre
    <3> QED BY <3>1 DEF Roles
  <2>2. 0 \in -1 .. MaxTimes
    BY DEF Roles
  <2> QED BY <2>1, <2>2, <1>1, TypesAre
<1>4. QueueTyped'
  BY <1>1, <1>2, <1>3, TypesAre DEF QueueTyped, MQ!TypeOK
<1>5. Placed'
  BY <1>1, <1>2, TypesAre DEF QueueWell, Placed
<1>6. Apart' /\ Present'
  BY <1>1 DEF QueueWell, Apart, Present
<1>7. Filled'
  BY <1>1, <1>2, TypesAre DEF QueueWell, Filled, MQ!DataIntact
<1> QED BY <1>4, <1>5, <1>6, <1>7 DEF QueueWell

\* The receiver reads the buffer in its hand, which nobody else writes.
LEMMA RcvCopyStep == ASSUME Roles, QueueWell, NEW r \in Receivers, MQ!RcvCopy(r) PROVE QueueWell'
<1>1. /\ place[r] = "copy" /\ datum' = [datum EXCEPT ![r] = m_data[hand[r]]] /\ place' = [place EXCEPT ![r] = "give"]
      /\ free' = free /\ used' = used /\ exists' = exists /\ m_data' = m_data /\ hand' = hand
      /\ times' = times /\ due' = due /\ wanted' = wanted
  BY DEF MQ!RcvCopy, MQ!Goto
<1>2. /\ r \in MQ!Threads /\ r \notin Senders /\ hand[r] \in MQ!Pointors /\ m_data[hand[r]] = wanted[r]
      /\ m_data[hand[r]] \in Messages \cup {MQ!NoData}
  BY <1>1, TypesAre DEF QueueWell, Placed, Filled
<1>3. /\ place'[r] = "give" /\ datum'[r] = wanted[r]
      /\ \A t \in MQ!Threads \ {r} : place'[t] = place[t] /\ datum'[t] = datum[t]
  BY <1>1, <1>2, TypesAre
<1>4. QueueTyped'
  BY <1>1, <1>2, TypesAre DEF QueueTyped, MQ!TypeOK
<1>5. Placed'
  BY <1>1, <1>2, <1>3, TypesAre DEF QueueWell, Placed
<1>6. Apart' /\ Present'
  BY <1>1 DEF QueueWell, Apart, Present
<1>7. Filled'
  <2>1. \A x \in Senders : x \in MQ!Threads \ {r}
    BY <1>2, TypesAre
  <2>2. \A x \in Receivers : place'[x] = "give" => datum'[x] = wanted'[x]
    BY <1>1, <1>3, TypesAre DEF QueueWell, Filled, MQ!DataIntact
  <2>3. \A x \in Receivers : place'[x] = "copy" => m_data'[hand'[x]] = wanted'[x]
    BY <1>1, <1>3, TypesAre DEF QueueWell, Filled
  <2> QED BY <2>1, <2>2, <2>3, <1>1, <1>3 DEF QueueWell, Filled, MQ!DataIntact
<1> QED BY <1>4, <1>5, <1>6, <1>7 DEF QueueWell

\* The read buffer goes behind the unused ones, if their queue is still there.
LEMMA RcvGiveStep == ASSUME Roles, QueueWell, NEW r \in Receivers, MQ!RcvGive(r) PROVE QueueWell'
<1>1. /\ place[r] = "give" /\ place' = [place EXCEPT ![r] = "idle"] /\ hand' = [hand EXCEPT ![r] = MQ!NULL]
      /\ times' = [times EXCEPT ![r] = 0]
      /\ used' = used /\ exists' = exists /\ m_data' = m_data /\ datum' = datum /\ due' = due
      /\ wanted' = wanted
      /\ ~exists => free' = free
      /\ exists => free' = Append(free, hand[r])
  BY DEF MQ!RcvGive, MQ!GiveBackUsedPointor, MQ!Goto
<1>2. hand[r] # MQ!NULL /\ r \in MQ!Threads /\ r \notin Senders
  BY <1>1, TypesAre DEF QueueWell, Placed
<1>3. /\ hand' \in [MQ!Threads -> MQ!Pointors \cup {MQ!NULL}] /\ hand[r] \in MQ!Pointors
      /\ hand'[r] = MQ!NULL /\ \A u \in MQ!Threads \ {r} : hand'[u] = hand[u] /\ hand[u] # hand[r]
      /\ ~Has(free, hand[r]) /\ ~Has(used, hand[r])
  BY <1>1, <1>2, GivenIs
<1>4. place'[r] = "idle" /\ \A t \in MQ!Threads \ {r} : place'[t] = place[t]
  BY <1>1, <1>2, TypesAre
<1>5. Placed'
  BY <1>1, <1>2, <1>3, <1>4, TypesAre DEF QueueWell, Placed
<1>6. /\ free' \in Seq(MQ!Pointors) /\ Distinct(free')
      /\ \A p : Has(free', p) => Has(free, p) \/ p = hand[r]
      /\ exists => Has(free', hand[r]) /\ \A p : Has(free, p) => Has(free', p)
  <2>1. CASE ~exists
    BY <2>1, <1>1, TypesAre DEF QueueWell, Apart
  <2>2. CASE exists
    <3>1. free' = Append(free, hand[r])
      BY <2>2, <1>1
    <3>2. Distinct(free) /\ free \in Seq(MQ!Pointors)
      BY TypesAre DEF QueueWell, Apart
    <3>3. /\ free' \in Seq(MQ!Pointors) /\ Distinct(free')
          /\ \A p : Has(free', p) <=> Has(free, p) \/ p = hand[r]
      BY <3>1, <3>2, <1>3, PutIs
    <3> QED BY <3>3
  <2> QED BY <2>1, <2>2
<1>7. QueueTyped'
  <2>1. 0 \in -1 .. MaxTimes
    BY DEF Roles
  <2> QED BY <2>1, <1>1, <1>3, <1>6, TypesAre DEF QueueTyped, MQ!TypeOK
<1>8. Apart'
  <2>1. ASSUME NEW p \in MQ!Pointors PROVE ~(Has(free', p) /\ Has(used', p))
    BY <1>1, <1>3, <1>6 DEF QueueWell, Apart
  <2>2. ASSUME NEW t \in MQ!Threads, hand'[t] # MQ!NULL PROVE ~Has(free', hand'[t]) /\ ~Has(used', hand'[t])
    BY <2>2, <1>1, <1>3, <1>6 DEF QueueWell, Apart
  <2>3. ASSUME NEW t \in MQ!Threads, NEW u \in MQ!Threads, hand'[t] = hand'[u], hand'[t] # MQ!NULL PROVE t = u
    BY <2>3, <1>3 DEF QueueWell, Apart
  <2> QED BY <2>1, <2>2, <2>3, <1>1, <1>6 DEF QueueWell, Apart
<1>9. Present'
  BY <1>1, <1>2, <1>3, <1>6 DEF QueueWell, Present
<1>10. Filled'
  <2>1. \A x \in Senders : place'[x] = place[x] /\ hand'[x] = hand[x]
    BY <1>2, <1>3, <1>4, TypesAre
  <2>2. \A x \in Receivers : place'[x] \in {"copy", "give"} => place'[x] = place[x] /\ hand'[x] = hand[x]
    BY <1>2, <1>3, <1>4, TypesAre
  <2> QED BY <2>1, <2>2, <1>1 DEF QueueWell, Filled, MQ!DataIntact
<1> QED BY <1>5, <1>7, <1>8, <1>9, <1>10 DEF QueueWell

\* The queues go, and with them the duty to keep the buffers.
LEMMA RemovedStep == ASSUME Roles, QueueWell, MQ!Removed PROVE QueueWell'
<1>1. /\ exists' = FALSE /\ free' = <<>> /\ used' = <<>> /\ due' = <<>>
      /\ m_data' = m_data /\ place' = place /\ hand' = hand /\ datum' = datum /\ times' = times /\ wanted' = wanted
  BY DEF MQ!Removed
<1>2. /\ DOMAIN free' = {} /\ DOMAIN used' = {} /\ Len(used') = 0 /\ Len(due') = 0
      /\ free' \in Seq(MQ!Pointors) /\ used' \in Seq(MQ!Pointors) /\ due' \in Seq(Messages)
  BY <1>1, EmptySeq
<1>3. QueueTyped'
  BY <1>1, <1>2, TypesAre DEF QueueTyped, MQ!TypeOK
<1>4. Placed'
  BY <1>1 DEF QueueWell, Placed
<1>5. Apart' /\ Present'
  BY <1>1, <1>2 DEF QueueWell, Apart, Present, Distinct, Has
<1>6. Filled'
  BY <1>1, <1>2 DEF QueueWell, Filled, MQ!DataIntact
<1> QED BY <1>3, <1>4, <1>5, <1>6 DEF QueueWell

\* One fact per action, together.
LEMMA QueueNext == Roles /\ QueueWell /\ [MQ!Next]_(MQ!vars) => QueueWell'
<1> SUFFICES ASSUME Roles, QueueWell, [MQ!Next]_(MQ!vars) PROVE QueueWell'
  OBVIOUS
<1>1. ASSUME NEW s \in Senders, NEW d \in Messages, MQ!MSGSnd(s, d) PROVE QueueWell'
  BY <1>1, MSGSndStep
<1>2. ASSUME NEW s \in Senders, MQ!SndCopy(s) \/ MQ!SndPut(s) PROVE QueueWell'
  BY <1>2, SndCopyStep, SndPutStep
<1>3. ASSUME NEW r \in Receivers, NEW n \in {MQ!Forever} \cup 0 .. MaxTimes, MQ!MSGRcv(r, n) PROVE QueueWell'
  BY <1>3, MSGRcvStep
<1>4. ASSUME NEW r \in Receivers, MQ!RcvTake(r) \/ MQ!RcvMiss(r) \/ MQ!RcvCopy(r) \/ MQ!RcvGive(r) PROVE QueueWell'
  BY <1>4, RcvTakeStep, RcvMissStep, RcvCopyStep, RcvGiveStep
<1>5. CASE MQ!Removed
  BY <1>5, RemovedStep
<1>6. CASE UNCHANGED MQ!vars
  BY <1>6 DEF MQ!vars, QueueWell, QueueTyped, MQ!TypeOK, Placed, Apart, Present, Filled, MQ!DataIntact, Distinct, Has
<1> QED BY <1>1, <1>2, <1>3, <1>4, <1>5, <1>6 DEF MQ!Next

HIDE DEF free, used, exists, m_data, place, hand, datum, times, due, wanted

-----------------------------------------------------------------------------
(***************************************************************************)
(* The memory of Basic/Json.hpp, JsonBuffer: v1 is m_buffPool, v2 nowBuff, *)
(* v3 leftSize and v4 the pieces.                                          *)
(***************************************************************************)

LEMMA MemoryInit == JB!Init => JB!Inv
  BY MemoryRequests DEF JB!Init, JB!Inv, JB!TypeOK, JB!PiecesDisjoint, JB!LeftIsFree, JB!Address, JB!Addresses

\* The fields of the pieces are numbers.
LEMMA PieceFields ==
  ASSUME JB!TypeOK
  PROVE  /\ Len(v4) \in Nat /\ Len(v1) \in Nat
         /\ \A c \in 1 .. Len(v1) : v1[c] \in Nat
         /\ \A i \in 1 .. Len(v4) : /\ v4[i].at.chunk \in Nat
                                    /\ v4[i].at.offset \in Nat
                                    /\ v4[i].size \in Nat
                                    /\ v4[i].size > 0
                                    /\ JB!EndOf(v4[i]) \in Nat
  <1>1. \A i \in 1 .. Len(v4) : v4[i] \in JB!Pieces
    BY DEF JB!TypeOK
  <1>2. \A i \in 1 .. Len(v4) : /\ v4[i].at \in JB!Addresses
                                /\ v4[i].size \in PieceSizes
    BY <1>1 DEF JB!Pieces
  <1>3. \A size \in PieceSizes : size \in Nat /\ size > 0
    BY MemoryRequests
  <1>4. \A i \in 1 .. Len(v4) : v4[i].at.chunk \in Nat /\ v4[i].at.offset \in Nat
    BY <1>2 DEF JB!Addresses
  <1>5. Len(v4) \in Nat /\ Len(v1) \in Nat /\ \A c \in 1 .. Len(v1) : v1[c] \in Nat
    BY DEF JB!TypeOK
  <1>6. \A i \in 1 .. Len(v4) : JB!EndOf(v4[i]) \in Nat
    BY <1>2, <1>3, <1>4 DEF JB!EndOf
  <1> QED BY <1>2, <1>3, <1>4, <1>5, <1>6

\* What appending a piece does to the sequence.
LEMMA HandedOut ==
  ASSUME JB!TypeOK, NEW address \in JB!Addresses, NEW size \in PieceSizes, JB!HandOut(address, size)
  PROVE  /\ v4' \in Seq(JB!Pieces)
         /\ Len(v4') = Len(v4) + 1
         /\ \A i \in 1 .. Len(v4) : v4'[i] = v4[i]
         /\ v4'[Len(v4) + 1].at = address
         /\ v4'[Len(v4) + 1].size = size
         /\ JB!EndOf(v4'[Len(v4) + 1]) = address.offset + size
         /\ \A i \in 1 .. Len(v4) : JB!EndOf(v4'[i]) = JB!EndOf(v4[i])
  <1>1. JB!Piece(address, size) \in JB!Pieces
    BY DEF JB!Piece, JB!Pieces
  <1>2. JB!Piece(address, size).at = address /\ JB!Piece(address, size).size = size
    BY DEF JB!Piece
  <1>3. /\ v4' \in Seq(JB!Pieces)
        /\ Len(v4') = Len(v4) + 1
        /\ \A i \in 1 .. Len(v4) : v4'[i] = v4[i]
        /\ v4'[Len(v4) + 1] = JB!Piece(address, size)
    BY <1>1 DEF JB!HandOut, JB!TypeOK
  <1> QED BY <1>2, <1>3 DEF JB!EndOf

\* The request is served from what is left of the current chunk.
LEMMA HereInv ==
  ASSUME JB!Inv, NEW size \in PieceSizes, JB!MallocHere(size)
  PROVE  JB!Inv'
  <1>1. size \in Nat /\ size > 0 /\ v3 > 0 /\ v3 >= size /\ v3 \in Nat
    BY MemoryRequests DEF JB!MallocHere, JB!FitsChunk, JB!Inv, JB!TypeOK
  <1>2. v2 \in JB!Addresses /\ v2.chunk \in Nat /\ v2.offset \in Nat
    BY DEF JB!Inv, JB!TypeOK, JB!Addresses
  <1>3. /\ v4' \in Seq(JB!Pieces)
        /\ Len(v4') = Len(v4) + 1
        /\ \A i \in 1 .. Len(v4) : v4'[i] = v4[i]
        /\ v4'[Len(v4) + 1].at = v2
        /\ v4'[Len(v4) + 1].size = size
        /\ JB!EndOf(v4'[Len(v4) + 1]) = v2.offset + size
        /\ \A i \in 1 .. Len(v4) : JB!EndOf(v4'[i]) = JB!EndOf(v4[i])
    BY <1>2, HandedOut DEF JB!Inv, JB!MallocHere
  <1>4. /\ v2' \in JB!Addresses
        /\ v2'.chunk = v2.chunk /\ v2'.offset = v2.offset + size
        /\ v3' = v3 - size /\ v3' \in Nat /\ v1' = v1
    BY <1>1, <1>2 DEF JB!MallocHere, JB!Addresses
  <1>5. JB!TypeOK'
    BY <1>3, <1>4 DEF JB!Inv, JB!TypeOK
  <1>6. /\ v2.chunk \in 1 .. Len(v1)
        /\ v2.offset + v3 <= v1[v2.chunk]
        /\ \A i \in 1 .. Len(v4) : v4[i].at.chunk = v2.chunk => JB!EndOf(v4[i]) <= v2.offset
    BY <1>1 DEF JB!Inv, JB!LeftIsFree
  <1>7. JB!PiecesDisjoint'
    <2>1. ASSUME NEW i \in 1 .. Len(v4')
          PROVE  v4'[i].at.chunk \in 1 .. Len(v1') /\ JB!EndOf(v4'[i]) <= v1'[v4'[i].at.chunk]
      <3>1. CASE i \in 1 .. Len(v4)
        BY <3>1, <1>3, <1>4 DEF JB!Inv, JB!PiecesDisjoint
      <3>2. CASE i = Len(v4) + 1
        BY <3>2, <1>1, <1>2, <1>3, <1>4, <1>6, PieceFields DEF JB!Inv
      <3> QED BY <2>1, <3>1, <3>2, <1>3, PieceFields DEF JB!Inv
    <2>2. ASSUME NEW i \in 1 .. Len(v4'), NEW j \in 1 .. Len(v4'), i < j,
                 v4'[i].at.chunk = v4'[j].at.chunk
          PROVE  JB!EndOf(v4'[i]) <= v4'[j].at.offset \/ JB!EndOf(v4'[j]) <= v4'[i].at.offset
      <3>1. CASE j \in 1 .. Len(v4)
        <4>1. i \in 1 .. Len(v4)
          BY <3>1, <2>2, PieceFields DEF JB!Inv
        <4> QED BY <4>1, <3>1, <2>2, <1>3 DEF JB!Inv, JB!PiecesDisjoint
      <3>2. CASE j = Len(v4) + 1
        <4>1. i \in 1 .. Len(v4)
          BY <3>2, <2>2, <1>3, PieceFields DEF JB!Inv
        <4> QED BY <4>1, <3>2, <2>2, <1>3, <1>6
      <3> QED BY <3>1, <3>2, <2>2, <1>3, PieceFields DEF JB!Inv
    <2> QED BY <2>1, <2>2 DEF JB!PiecesDisjoint
  <1>8. JB!LeftIsFree'
    <2>1. ASSUME NEW i \in 1 .. Len(v4'), v4'[i].at.chunk = v2'.chunk
          PROVE  JB!EndOf(v4'[i]) <= v2'.offset
      <3>1. CASE i \in 1 .. Len(v4)
        <4>1. v4[i].at.chunk = v2.chunk /\ JB!EndOf(v4'[i]) = JB!EndOf(v4[i])
          BY <3>1, <2>1, <1>3, <1>4
        <4>2. JB!EndOf(v4[i]) <= v2.offset /\ JB!EndOf(v4[i]) \in Nat
          BY <4>1, <3>1, <1>6, PieceFields DEF JB!Inv
        <4> QED BY <4>1, <4>2, <1>1, <1>2, <1>4
      <3>2. CASE i = Len(v4) + 1
        BY <3>2, <1>1, <1>2, <1>3, <1>4
      <3> QED BY <2>1, <3>1, <3>2, <1>3, PieceFields DEF JB!Inv
    <2>2. v2'.offset + v3' = v2.offset + v3
      BY <1>1, <1>2, <1>4
    <2> QED BY <2>1, <2>2, <1>4, <1>6 DEF JB!LeftIsFree
  <1> QED BY <1>5, <1>7, <1>8 DEF JB!Inv

\* What holds of every piece when a chunk is added, whatever the new piece.
LEMMA NewChunkInv ==
  ASSUME JB!Inv, NEW size \in PieceSizes, NEW chunkSize \in Nat, size <= chunkSize,
         JB!HandOut(JB!NewStart, size), JB!NewChunk(chunkSize)
  PROVE  /\ v1' \in Seq(Nat)
         /\ v4' \in Seq(JB!Pieces)
         /\ Len(v1') = Len(v1) + 1
         /\ \A c \in 1 .. Len(v1) : v1'[c] = v1[c]
         /\ v1'[Len(v1) + 1] = chunkSize
         /\ Len(v4') = Len(v4) + 1
         /\ \A i \in 1 .. Len(v4) : v4'[i] = v4[i]
         /\ v4'[Len(v4) + 1].at.chunk = Len(v1) + 1
         /\ v4'[Len(v4) + 1].at.offset = 0
         /\ v4'[Len(v4) + 1].size = size
         /\ JB!EndOf(v4'[Len(v4) + 1]) = size
         /\ \A i \in 1 .. Len(v4) : JB!EndOf(v4'[i]) = JB!EndOf(v4[i])
         /\ JB!PiecesDisjoint'
  <1>1. /\ v1' \in Seq(Nat)
        /\ Len(v1') = Len(v1) + 1
        /\ \A c \in 1 .. Len(v1) : v1'[c] = v1[c]
        /\ v1'[Len(v1) + 1] = chunkSize
    BY DEF JB!Inv, JB!TypeOK, JB!NewChunk
  <1>2. /\ JB!NewStart \in JB!Addresses
        /\ JB!NewStart.chunk = Len(v1) + 1 /\ JB!NewStart.offset = 0
    BY PieceFields DEF JB!Inv, JB!NewStart, JB!Address, JB!Addresses
  <1>3. /\ v4' \in Seq(JB!Pieces)
        /\ Len(v4') = Len(v4) + 1
        /\ \A i \in 1 .. Len(v4) : v4'[i] = v4[i]
        /\ v4'[Len(v4) + 1].at = JB!NewStart
        /\ v4'[Len(v4) + 1].size = size
        /\ JB!EndOf(v4'[Len(v4) + 1]) = size
        /\ \A i \in 1 .. Len(v4) : JB!EndOf(v4'[i]) = JB!EndOf(v4[i])
    <2>1. size \in Nat
      BY MemoryRequests
    <2> QED BY <2>1, <1>2, HandedOut DEF JB!Inv
  <1>4. \A i \in 1 .. Len(v4) : /\ v4[i].at.chunk \in 1 .. Len(v1)
                                /\ JB!EndOf(v4[i]) <= v1[v4[i].at.chunk]
    BY DEF JB!Inv, JB!PiecesDisjoint
  <1>5. JB!PiecesDisjoint'
    <2>1. ASSUME NEW i \in 1 .. Len(v4')
          PROVE  v4'[i].at.chunk \in 1 .. Len(v1') /\ JB!EndOf(v4'[i]) <= v1'[v4'[i].at.chunk]
      <3>1. CASE i \in 1 .. Len(v4)
        <4>1. v4'[i].at.chunk = v4[i].at.chunk /\ JB!EndOf(v4'[i]) = JB!EndOf(v4[i])
          BY <3>1, <1>3
        <4>2. v1'[v4[i].at.chunk] = v1[v4[i].at.chunk]
          BY <3>1, <1>1, <1>4
        <4>3. v4[i].at.chunk \in 1 .. Len(v1')
          BY <3>1, <1>1, <1>4, PieceFields DEF JB!Inv
        <4> QED BY <3>1, <4>1, <4>2, <4>3, <1>4
      <3>2. CASE i = Len(v4) + 1
        BY <3>2, <1>1, <1>2, <1>3, PieceFields DEF JB!Inv
      <3> QED BY <2>1, <3>1, <3>2, <1>3, PieceFields DEF JB!Inv
    <2>2. ASSUME NEW i \in 1 .. Len(v4'), NEW j \in 1 .. Len(v4'), i < j,
                 v4'[i].at.chunk = v4'[j].at.chunk
          PROVE  JB!EndOf(v4'[i]) <= v4'[j].at.offset \/ JB!EndOf(v4'[j]) <= v4'[i].at.offset
      <3>1. j \in 1 .. Len(v4)
        <4>1. i \in 1 .. Len(v4)
          BY <2>2, <1>3, PieceFields DEF JB!Inv
        <4>2. v4'[i].at.chunk \in 1 .. Len(v1)
          BY <4>1, <1>3, <1>4
        <4>3. j # Len(v4) + 1
          BY <4>2, <2>2, <1>2, <1>3, PieceFields DEF JB!Inv
        <4> QED BY <4>3, <2>2, <1>3, PieceFields DEF JB!Inv
      <3>2. i \in 1 .. Len(v4)
        BY <3>1, <2>2, PieceFields DEF JB!Inv
      <3> QED BY <3>1, <3>2, <2>2, <1>3 DEF JB!Inv, JB!PiecesDisjoint
    <2> QED BY <2>1, <2>2 DEF JB!PiecesDisjoint
  <1> QED BY <1>1, <1>2, <1>3, <1>5

\* The request starts a new chunk, which becomes the current one.
LEMMA NextChunkInv ==
  ASSUME JB!Inv, NEW size \in PieceSizes, JB!MallocNextChunk(size)
  PROVE  JB!Inv'
  <1>1. size \in Nat /\ size > 0 /\ size < buffSize /\ buffSize \in Nat
    BY MemoryRequests DEF JB!MallocNextChunk
  <1>2. size <= buffSize /\ JB!HandOut(JB!NewStart, size) /\ JB!NewChunk(buffSize)
    BY <1>1 DEF JB!MallocNextChunk
  <1>3. /\ v2' = JB!Address(Len(v1) + 1, size)
        /\ v3' = buffSize - size
    BY DEF JB!MallocNextChunk
  <1>4. /\ v2' \in JB!Addresses
        /\ v2'.chunk = Len(v1) + 1 /\ v2'.offset = size
    BY <1>1, <1>3, PieceFields DEF JB!Address, JB!Addresses, JB!Inv
  <1>5. JB!TypeOK'
    BY <1>1, <1>2, <1>3, <1>4, NewChunkInv DEF JB!TypeOK
  <1>6. JB!LeftIsFree'
    <2>1. ASSUME NEW i \in 1 .. Len(v4'), v4'[i].at.chunk = v2'.chunk
          PROVE  JB!EndOf(v4'[i]) <= v2'.offset
      <3>1. CASE i \in 1 .. Len(v4)
        <4>1. v4'[i].at.chunk \in 1 .. Len(v1)
          BY <3>1, <1>1, <1>2, NewChunkInv DEF JB!Inv, JB!PiecesDisjoint
        <4> QED BY <4>1, <2>1, <1>4, PieceFields DEF JB!Inv
      <3>2. CASE i = Len(v4) + 1
        BY <3>2, <1>1, <1>2, <1>4, NewChunkInv
      <3> QED BY <2>1, <3>1, <3>2, <1>1, <1>2, NewChunkInv, PieceFields DEF JB!Inv
    <2>2. /\ v2'.chunk \in 1 .. Len(v1')
          /\ v2'.offset + v3' <= v1'[v2'.chunk]
      BY <1>1, <1>2, <1>3, <1>4, NewChunkInv, PieceFields DEF JB!Inv
    <2> QED BY <2>1, <2>2 DEF JB!LeftIsFree
  <1> QED BY <1>1, <1>2, <1>5, <1>6, NewChunkInv DEF JB!Inv

\* The request gets a chunk of its own, the current one stays.
LEMMA OwnChunkInv ==
  ASSUME JB!Inv, NEW size \in PieceSizes, JB!MallocOwnChunk(size)
  PROVE  JB!Inv'
  <1>1. size \in Nat /\ size <= size
    BY MemoryRequests
  <1>2. JB!HandOut(JB!NewStart, size) /\ JB!NewChunk(size) /\ v2' = v2 /\ v3' = v3
    BY DEF JB!MallocOwnChunk
  <1>3. JB!TypeOK'
    BY <1>1, <1>2, NewChunkInv DEF JB!Inv, JB!TypeOK
  <1>4. JB!LeftIsFree'
    <2> SUFFICES ASSUME v3 > 0
                 PROVE  /\ v2.chunk \in 1 .. Len(v1')
                        /\ v2.offset + v3 <= v1'[v2.chunk]
                        /\ \A i \in 1 .. Len(v4') : v4'[i].at.chunk = v2.chunk => JB!EndOf(v4'[i]) <= v2.offset
      BY <1>2 DEF JB!LeftIsFree
    <2>1. /\ v2.chunk \in 1 .. Len(v1)
          /\ v2.offset + v3 <= v1[v2.chunk]
          /\ \A i \in 1 .. Len(v4) : v4[i].at.chunk = v2.chunk => JB!EndOf(v4[i]) <= v2.offset
      BY DEF JB!Inv, JB!LeftIsFree
    <2>2. v2.chunk \in 1 .. Len(v1') /\ v2.offset + v3 <= v1'[v2.chunk]
      BY <2>1, <1>1, <1>2, NewChunkInv, PieceFields, SMTT(20) DEF JB!Inv
    <2>3. ASSUME NEW i \in 1 .. Len(v4'), v4'[i].at.chunk = v2.chunk
          PROVE  JB!EndOf(v4'[i]) <= v2.offset
      <3>1. i # Len(v4) + 1
        BY <2>1, <2>3, <1>1, <1>2, NewChunkInv, PieceFields DEF JB!Inv
      <3>2. i \in 1 .. Len(v4)
        BY <3>1, <2>3, <1>1, <1>2, NewChunkInv, PieceFields DEF JB!Inv
      <3> QED BY <3>2, <2>1, <2>3, <1>1, <1>2, NewChunkInv
    <2> QED BY <2>2, <2>3
  <1> QED BY <1>1, <1>2, <1>3, <1>4, NewChunkInv DEF JB!Inv

LEMMA FreeInv == JB!Inv /\ JB!free => JB!Inv'
  BY DEF JB!Inv, JB!free, JB!TypeOK, JB!PiecesDisjoint, JB!LeftIsFree

LEMMA MemoryNext == JB!Inv /\ [JB!Next]_(JB!vars) => JB!Inv'
  <1> SUFFICES ASSUME JB!Inv, [JB!Next]_(JB!vars) PROVE JB!Inv'
    OBVIOUS
  <1>1. CASE JB!free
    BY <1>1, FreeInv
  <1>2. ASSUME NEW size \in PieceSizes, JB!malloc(size) PROVE JB!Inv'
    BY <1>2, HereInv, NextChunkInv, OwnChunkInv DEF JB!malloc
  <1>3. CASE UNCHANGED JB!vars
    BY <1>3 DEF JB!vars, JB!Inv, JB!TypeOK, JB!PiecesDisjoint, JB!LeftIsFree
  <1> QED BY <1>1, <1>2, <1>3 DEF JB!Next

-----------------------------------------------------------------------------
(***************************************************************************)
(* The server of Socket_Svr_Epoll: its types, and that no connection is    *)
(* left waiting without an event, for any number of workers, ports,        *)
(* connections and starts.                                                 *)
(***************************************************************************)

\* The variables by the names that SocketServer gives them.
m_svr_status == v1
m_sck == v2
listening == v3
taken == v4
pending == v5
edge == v6
event == v7
control == v8
retry == v9
queue == v10
worker == v11
main == v12
joined == v13
connections == v14
failures == v15

USE DEF m_svr_status, m_sck, listening, taken, pending, edge, event, control,
        retry, queue, worker, main, joined, connections, failures

ServerControls == {"none", "loop", "event", "accept", "ended"}
MainPlaces == {"idle", "joining", "stopped", "thrown", "terminated"}

\* The types, with those of the descriptors handed around.
ServerTypes ==
    /\ SS!TypeOK
    /\ edge \in BOOLEAN
    /\ queue \in Seq(0 .. MaxStart)
    /\ event \in 0 .. MaxStart
    /\ worker \in [Workers -> (0 .. MaxStart) \cup {SS!Polling, SS!Ended}]

\* The server is started and stopped by one thread, which waits for the others.
ServerPhases ==
    /\ m_svr_status = 1 => control \in {"loop", "event", "accept"}
    /\ main = "joining" => m_svr_status = 0
    /\ control # "none" => m_sck > 0

\* What was reported is the registered socket, unless that has been closed since.
ServerReported ==
    /\ listening.sck <= m_sck
    /\ listening = SS!Closed => pending = 0
    /\ control = "event" => event = listening.sck \/ listening = SS!Closed

\* In a round of accepts one that failed beside no waiting connection leaves an event
\* for each that comes after it.
ServerTried ==
    control = "accept" =>
        /\ failures <= retry
        /\ failures < retry /\ pending > 0 /\ m_sck = listening.sck /\ connections < MaxConn => edge

ServerWell == ServerTypes /\ ServerPhases /\ ServerReported /\ ServerTried /\ SS!WaitingIsSignalled

-----------------------------------------------------------------------------

\* What the types say.
LEMMA ServerTypesAre ==
    ASSUME ServerWell
    PROVE  /\ Backlog \in Nat /\ MaxConn \in Nat /\ QueueSize \in Nat /\ MaxStart \in Nat
           /\ m_svr_status \in {0, 1} /\ m_sck \in 0 .. MaxStart /\ failures \in 0 .. 4
           /\ listening = SS!Closed \/ listening \in [sck : 1 .. MaxStart, port : Ports]
           /\ listening.sck \in 0 .. MaxStart /\ (listening.sck = 0 <=> listening = SS!Closed)
           /\ taken \subseteq Ports /\ pending \in 0 .. Backlog /\ connections \in 0 .. MaxConn
           /\ control \in ServerControls /\ retry \in 0 .. 3
           /\ queue \in Seq(0 .. MaxStart) /\ Len(queue) \in Nat /\ Len(queue) <= QueueSize
           /\ main \in MainPlaces /\ edge \in BOOLEAN /\ event \in 0 .. MaxStart
           /\ worker \in [Workers -> (0 .. MaxStart) \cup {SS!Polling, SS!Ended}]
<1>1. /\ Backlog \in Nat /\ MaxConn \in Nat /\ QueueSize \in Nat /\ MaxStart \in Nat
      /\ m_svr_status \in {0, 1} /\ m_sck \in 0 .. MaxStart /\ failures \in 0 .. 4
      /\ listening = SS!Closed \/ listening \in [sck : 1 .. MaxStart, port : Ports]
      /\ taken \subseteq Ports /\ pending \in 0 .. Backlog /\ connections \in 0 .. MaxConn
      /\ control \in ServerControls /\ retry \in 0 .. 3
      /\ queue \in Seq(0 .. MaxStart) /\ Len(queue) <= QueueSize
      /\ main \in MainPlaces /\ edge \in BOOLEAN /\ event \in 0 .. MaxStart
      /\ worker \in [Workers -> (0 .. MaxStart) \cup {SS!Polling, SS!Ended}]
  BY ServerBounds DEF ServerWell, ServerTypes, SS!TypeOK, ServerControls, MainPlaces
<1>2. CASE listening = SS!Closed
  <2>1. listening.sck = 0
    BY <1>2 DEF SS!Closed
  <2> QED BY <2>1, <1>1, <1>2, LenProperties
<1>3. CASE listening \in [sck : 1 .. MaxStart, port : Ports]
  <2>1. listening.sck \in 1 .. MaxStart
    BY <1>3
  <2>2. listening # SS!Closed
    BY <2>1 DEF SS!Closed
  <2> QED BY <2>1, <2>2, <1>1, LenProperties
<1> QED BY <1>1, <1>2, <1>3

LEMMA ServerInit == ASSUME SS!Init PROVE ServerWell
<1>1. Len(queue) = 0 /\ queue \in Seq(0 .. MaxStart)
  BY EmptySeq DEF SS!Init
<1>2. worker \in [Workers -> (0 .. MaxStart) \cup {SS!Polling, SS!Ended}]
  BY DEF SS!Init
<1>3. SS!TypeOK /\ ServerTypes
  <2>1. /\ m_svr_status = 0 /\ m_sck = 0 /\ failures = 0 /\ listening = SS!Closed /\ taken = {} /\ pending = 0
        /\ edge = FALSE /\ event = 0 /\ control = "none" /\ retry = 0 /\ main = "idle" /\ connections = 0
    BY DEF SS!Init
  <2>2. SS!TypeOK
    BY ServerBounds, <1>1, <2>1 DEF SS!TypeOK
  <2>3. failures \in 0 .. 4 /\ m_sck \in 0 .. MaxStart /\ event \in 0 .. MaxStart
    BY ServerBounds, <2>1
  <2>4. edge \in BOOLEAN
    BY <2>1
  <2> QED BY <1>1, <1>2, <2>2, <2>3, <2>4 DEF ServerTypes
<1>4. ServerPhases /\ ServerReported /\ ServerTried /\ SS!WaitingIsSignalled
  BY DEF SS!Init, ServerPhases, ServerReported, ServerTried, SS!WaitingIsSignalled, SS!Closed
<1> QED BY <1>3, <1>4 DEF ServerWell

LEMMA ServerStart == ASSUME ServerWell, NEW port \in Ports, SS!Alive, SS!Start_Svr(port) PROVE ServerWell'
<1> USE ServerTypesAre
<1>1. /\ main \in {"idle", "stopped"} /\ m_sck < MaxStart /\ m_sck' = m_sck + 1
      /\ retry' = retry /\ queue' = queue /\ joined' = joined /\ connections' = connections
  BY DEF SS!Start_Svr
<1>2. m_sck' \in 1 .. MaxStart
  BY <1>1
<1>3. CASE /\ m_svr_status' = m_svr_status /\ listening' = listening /\ taken' = taken /\ pending' = pending
           /\ edge' = edge /\ event' = event /\ control' = control /\ worker' = worker
           /\ main' = main \/ main' = "terminated"
           /\ failures' = failures
  <2>1. ServerTypes'
    BY <1>1, <1>2, <1>3 DEF ServerTypes, SS!TypeOK, ServerWell
  <2>2. ServerPhases'
    BY <1>1, <1>2, <1>3 DEF ServerWell, ServerPhases
  <2>3. ServerReported'
    BY <1>1, <1>2, <1>3 DEF ServerWell, ServerReported
  <2>4. m_sck' # listening'.sck
    BY <1>1, <1>3 DEF ServerWell, ServerReported
  <2>5. ServerTried'
    BY <1>1, <1>3, <2>4 DEF ServerWell, ServerTried
  <2> QED BY <2>1, <2>2, <2>3, <2>4, <2>5 DEF ServerWell, SS!WaitingIsSignalled
<1>4. CASE /\ m_svr_status' = 1 /\ listening' = [sck |-> m_sck', port |-> port]
           /\ taken' = taken \cup {port} /\ pending' = 0 /\ edge' = FALSE /\ event' = 0 /\ control' = "loop"
           /\ worker' = [w \in Workers |-> SS!Polling] /\ main' = "idle" /\ failures' = 0
  <2>1. listening' \in [sck : 1 .. MaxStart, port : Ports] /\ listening'.sck = m_sck'
    BY <1>2, <1>4
  <2>2. ServerTypes'
    <3>1. SS!TypeOK'
      BY <1>1, <1>2, <1>4, <2>1 DEF SS!TypeOK, ServerControls, MainPlaces
    <3>2. worker' \in [Workers -> (0 .. MaxStart) \cup {SS!Polling, SS!Ended}]
      BY <1>4
    <3>3. queue' \in Seq(0 .. MaxStart) /\ event' \in 0 .. MaxStart
      BY <1>1, <1>4
    <3>4. edge' \in BOOLEAN
      BY <1>4, Zenon
    <3> QED BY <1>2, <3>1, <3>2, <3>3, <3>4 DEF ServerTypes
  <2>3. ServerPhases'
    BY <1>2, <1>4 DEF ServerPhases
  <2>4. ServerReported'
    BY <1>2, <1>4, <2>1 DEF ServerReported
  <2> QED BY <2>2, <2>3, <2>4, <1>4 DEF ServerWell, ServerTried, SS!WaitingIsSignalled
<1> QED BY <1>3, <1>4 DEF SS!Start_Svr

LEMMA ServerStop == ASSUME ServerWell, SS!Stop_Svr \/ SS!Joined PROVE ServerWell'
<1> USE ServerTypesAre
<1>1. /\ m_sck' = m_sck /\ listening' = listening /\ taken' = taken /\ pending' = pending /\ edge' = edge
      /\ event' = event /\ retry' = retry /\ queue' = queue /\ worker' = worker
      /\ connections' = connections /\ failures' = failures
      /\ m_svr_status' = 0 /\ main' \in MainPlaces /\ control' \in {control, "none"}
  BY DEF SS!Stop_Svr, SS!Joined, ServerWell, ServerPhases, MainPlaces
<1>2. ServerTypes'
  BY <1>1 DEF ServerWell, ServerTypes, SS!TypeOK, ServerControls, MainPlaces
<1>3. ServerPhases' /\ ServerReported' /\ ServerTried'
  BY <1>1 DEF ServerWell, ServerPhases, ServerReported, ServerTried
<1>4. SS!WaitingIsSignalled'
  BY <1>1 DEF SS!WaitingIsSignalled, SS!Serving
<1> QED BY <1>2, <1>3, <1>4 DEF ServerWell

LEMMA ServerLoop == ASSUME ServerWell, SS!ControlLoop PROVE ServerWell'
<1> USE ServerTypesAre
<1>1. /\ m_svr_status' = m_svr_status /\ m_sck' = m_sck /\ listening' = listening /\ taken' = taken
      /\ pending' = pending /\ retry' = retry /\ queue' = queue /\ worker' = worker /\ main' = main
      /\ connections' = connections /\ failures' = failures
      /\ control = "loop" /\ edge' \in BOOLEAN
      /\ \/ m_svr_status # 1 /\ control' = "ended" /\ edge' = edge /\ event' = event
         \/ control' = "event" /\ event' = listening.sck
  BY DEF SS!ControlLoop
<1>2. ServerTypes'
  <2>1. event' \in 0 .. MaxStart /\ control' \in ServerControls
    BY <1>1 DEF ServerControls
  <2>2. SS!TypeOK'
    BY <1>1, <2>1 DEF ServerWell, ServerTypes, SS!TypeOK, ServerControls
  <2> QED BY <1>1, <2>1, <2>2 DEF ServerWell, ServerTypes
<1>3. ServerPhases' /\ ServerReported' /\ ServerTried'
  BY <1>1 DEF ServerWell, ServerPhases, ServerReported, ServerTried
<1>4. SS!WaitingIsSignalled'
  BY <1>1 DEF SS!WaitingIsSignalled, SS!Serving
<1> QED BY <1>2, <1>3, <1>4 DEF ServerWell

LEMMA ServerEvent == ASSUME ServerWell, SS!ControlEvent PROVE ServerWell'
<1> USE ServerTypesAre
<1>1. /\ m_svr_status' = m_svr_status /\ m_sck' = m_sck /\ listening' = listening /\ taken' = taken
      /\ pending' = pending /\ edge' = edge /\ event' = event /\ worker' = worker /\ main' = main
      /\ connections' = connections
      /\ control = "event"
      /\ \/ event = m_sck /\ control' = "accept" /\ retry' = 0 /\ failures' = 0 /\ queue' = queue
         \/ /\ event # m_sck /\ control' = "loop" /\ retry' = retry /\ failures' = failures
            /\ queue' = queue \/ (Len(queue) < QueueSize /\ queue' = Append(queue, event))
  BY DEF SS!ControlEvent
<1>2. queue' \in Seq(0 .. MaxStart) /\ Len(queue') <= QueueSize
  <2>1. CASE queue' = queue
    BY <2>1
  <2>2. CASE Len(queue) < QueueSize /\ queue' = Append(queue, event)
    <3>1. queue' \in Seq(0 .. MaxStart) /\ Len(queue') = Len(queue) + 1
      BY <2>2, AppendProperties
    <3> QED BY <3>1, <2>2
  <2> QED BY <2>1, <2>2, <1>1
<1>3. ServerTypes'
  <2>1. control' \in ServerControls /\ retry' \in 0 .. 3 /\ failures' \in 0 .. 4
    BY <1>1 DEF ServerControls
  <2>2. SS!TypeOK'
    BY <1>1, <1>2, <2>1 DEF ServerWell, ServerTypes, SS!TypeOK, ServerControls
  <2> QED BY <1>1, <1>2, <2>2 DEF ServerWell, ServerTypes
<1>4. ServerPhases' /\ ServerReported' /\ ServerTried'
  BY <1>1 DEF ServerWell, ServerPhases, ServerReported, ServerTried
<1>5. control' = "loop" => m_sck' # listening'.sck
  BY <1>1 DEF ServerWell, ServerPhases, ServerReported
<1>6. SS!WaitingIsSignalled'
  BY <1>1, <1>5 DEF SS!WaitingIsSignalled, SS!Serving
<1> QED BY <1>3, <1>4, <1>6 DEF ServerWell

LEMMA ServerAccept == ASSUME ServerWell, SS!ControlAccept PROVE ServerWell'
<1> USE ServerTypesAre
<1>1. /\ m_svr_status' = m_svr_status /\ m_sck' = m_sck /\ listening' = listening /\ taken' = taken
      /\ edge' = edge /\ event' = event /\ queue' = queue /\ worker' = worker /\ main' = main
      /\ control = "accept"
      /\ \/ /\ SS!CanAccept /\ pending' = pending - 1 /\ connections' = connections + 1
            /\ control' = "accept" /\ retry' = retry /\ failures' = failures
         \/ /\ connections' = connections
            /\ \/ ~SS!CanAccept /\ pending' = pending /\ failures' = failures
               \/ SS!CanAccept /\ pending' \in {pending, pending - 1} /\ failures' = failures + 1
            /\ \/ retry < 3 /\ retry' = retry + 1 /\ control' = "accept"
               \/ retry = 3 /\ retry' = 0 /\ control' = "loop"
  BY DEF SS!ControlAccept, SS!AcceptFails
<1>2. /\ failures <= retry
      /\ failures < retry /\ pending > 0 /\ m_sck = listening.sck /\ connections < MaxConn => edge
  BY <1>1 DEF ServerWell, ServerTried
<1>3. /\ pending' \in 0 .. Backlog /\ connections' \in 0 .. MaxConn /\ retry' \in 0 .. 3
      /\ failures' \in 0 .. 4 /\ control' \in {"accept", "loop"}
      /\ pending' <= pending /\ connections' >= connections
      /\ listening = SS!Closed => pending' = pending
  <2>1. CASE SS!CanAccept
    <3>1. pending > 0 /\ connections < MaxConn
      BY <2>1 DEF SS!CanAccept
    <3>2. listening # SS!Closed
      BY <3>1 DEF ServerWell, ServerReported
    <3>3. pending' \in 0 .. Backlog /\ pending' <= pending
      BY <2>1, <3>1, <1>1
    <3>4. connections' \in 0 .. MaxConn /\ connections' >= connections
      BY <2>1, <3>1, <1>1
    <3>5. retry' \in 0 .. 3 /\ control' \in {"accept", "loop"}
      BY <1>1
    <3>6. failures' \in 0 .. 4
      BY <1>1, <1>2
    <3> QED BY <3>2, <3>3, <3>4, <3>5, <3>6
  <2>2. CASE ~SS!CanAccept
    BY <2>2, <1>1, <1>2
  <2> QED BY <2>1, <2>2
<1>4. ServerTypes'
  BY <1>1, <1>3 DEF ServerWell, ServerTypes, SS!TypeOK
<1>5. ServerPhases' /\ ServerReported'
  BY <1>1, <1>3 DEF ServerWell, ServerPhases, ServerReported
\* A failure beside a waiting connection counts in both numbers.
<1>6. ServerTried'
  <2>1. CASE SS!CanAccept /\ control' = "accept"
    <3>1. pending > 0 /\ m_sck = listening.sck /\ connections < MaxConn
      BY <2>1 DEF SS!CanAccept
    <3>2. failures < retry => edge
      BY <1>2, <3>1
    <3>3. failures' <= retry' /\ (failures' < retry' => failures < retry)
      BY <1>1, <1>2, <2>1
    <3> QED BY <1>1, <3>2, <3>3 DEF ServerTried
  <2>2. CASE ~SS!CanAccept /\ control' = "accept"
    <3>1. failures' = failures /\ retry' = retry + 1 /\ pending' = pending /\ connections' = connections
      BY <1>1, <2>2
    <3>2. ~(pending > 0 /\ m_sck = listening.sck /\ connections < MaxConn)
      BY <2>2 DEF SS!CanAccept
    <3> QED BY <1>1, <1>2, <3>1, <3>2 DEF ServerTried
  <2>3. CASE control' = "loop"
    BY <2>3 DEF ServerTried
  <2> QED BY <1>3, <2>1, <2>2, <2>3
<1>7. SS!WaitingIsSignalled'
  BY <1>1, <1>2, <1>3 DEF SS!WaitingIsSignalled, SS!CanAccept
<1> QED BY <1>4, <1>5, <1>6, <1>7 DEF ServerWell

LEMMA WorkerPolls == ASSUME ServerWell, NEW w \in Workers, SS!WorkerPoll(w) PROVE ServerWell'
<1> USE ServerTypesAre
<1>1. /\ m_svr_status' = m_svr_status /\ m_sck' = m_sck /\ listening' = listening /\ taken' = taken
      /\ pending' = pending /\ edge' = edge /\ event' = event /\ control' = control /\ retry' = retry
      /\ main' = main /\ connections' = connections /\ failures' = failures
      /\ \/ worker' = [worker EXCEPT ![w] = SS!Ended] /\ queue' = queue
         \/ queue # <<>> /\ worker' = [worker EXCEPT ![w] = Head(queue)] /\ queue' = Tail(queue)
  BY DEF SS!WorkerPoll
<1>2. /\ queue' \in Seq(0 .. MaxStart) /\ Len(queue') <= QueueSize
      /\ worker' \in [Workers -> (0 .. MaxStart) \cup {SS!Polling, SS!Ended}]
  <2>1. CASE worker' = [worker EXCEPT ![w] = SS!Ended] /\ queue' = queue
    BY <2>1
  <2>2. CASE queue # <<>> /\ worker' = [worker EXCEPT ![w] = Head(queue)] /\ queue' = Tail(queue)
    <3>1. /\ Head(queue) \in 0 .. MaxStart /\ Tail(queue) \in Seq(0 .. MaxStart)
          /\ Len(Tail(queue)) = Len(queue) - 1
      BY <2>2, HeadTailProperties
    <3> QED BY <2>2, <3>1
  <2> QED BY <2>1, <2>2, <1>1
<1>3. ServerTypes'
  BY <1>1, <1>2 DEF ServerWell, ServerTypes, SS!TypeOK
<1>4. ServerPhases' /\ ServerReported' /\ ServerTried' /\ SS!WaitingIsSignalled'
  BY <1>1 DEF ServerWell, ServerPhases, ServerReported, ServerTried, SS!WaitingIsSignalled, SS!Serving, SS!Alive
<1> QED BY <1>3, <1>4 DEF ServerWell

LEMMA WorkerReads == ASSUME ServerWell, NEW w \in Workers, SS!WorkerRead(w) PROVE ServerWell'
<1> USE ServerTypesAre
<1>1. /\ m_svr_status' = m_svr_status /\ m_sck' = m_sck /\ event' = event /\ control' = control
      /\ retry' = retry /\ queue' = queue /\ main' = main /\ connections' = connections /\ failures' = failures
      /\ worker' \in [Workers -> (0 .. MaxStart) \cup {SS!Polling, SS!Ended}]
      /\ \/ /\ listening' = SS!Closed /\ taken' \subseteq taken /\ pending' = 0 /\ edge' = FALSE
         \/ listening' = listening /\ taken' = taken /\ pending' = pending /\ edge' = edge
  BY DEF SS!WorkerRead
<1>2. listening'.sck <= m_sck'
  BY <1>1 DEF ServerWell, ServerReported, SS!Closed
<1>3. ServerTypes'
  <2>1. SS!TypeOK'
    BY <1>1 DEF ServerWell, ServerTypes, SS!TypeOK
  <2>2. edge' \in BOOLEAN
    BY <1>1, ServerTypesAre, Zenon
  <2> QED BY <1>1, <2>1, <2>2 DEF ServerWell, ServerTypes
<1>4. ServerPhases' /\ ServerReported' /\ ServerTried'
  BY <1>1, <1>2 DEF ServerWell, ServerPhases, ServerReported, ServerTried
<1>5. SS!WaitingIsSignalled'
  BY <1>1 DEF ServerWell, SS!WaitingIsSignalled, SS!Serving, SS!Alive
<1> QED BY <1>3, <1>4, <1>5 DEF ServerWell

LEMMA ClientConnects == ASSUME ServerWell, SS!Connect PROVE ServerWell'
<1> USE ServerTypesAre
<1>1. /\ m_svr_status' = m_svr_status /\ m_sck' = m_sck /\ listening' = listening /\ taken' = taken
      /\ event' = event /\ control' = control /\ retry' = retry /\ queue' = queue /\ worker' = worker
      /\ main' = main /\ connections' = connections /\ failures' = failures
      /\ listening # SS!Closed /\ edge' = TRUE /\ pending' \in 0 .. Backlog
  BY DEF SS!Connect
<1>2. ServerTypes'
  BY <1>1 DEF ServerWell, ServerTypes, SS!TypeOK
<1>3. ServerPhases' /\ ServerReported' /\ ServerTried' /\ SS!WaitingIsSignalled'
  BY <1>1 DEF ServerWell, ServerPhases, ServerReported, ServerTried, SS!WaitingIsSignalled
<1> QED BY <1>2, <1>3 DEF ServerWell

LEMMA ServerNext == ServerWell /\ [SS!Next]_(SS!vars) => ServerWell'
<1> SUFFICES ASSUME ServerWell, [SS!Next]_(SS!vars) PROVE ServerWell'
  OBVIOUS
<1>1. CASE SS!Alive /\ \E port \in Ports : SS!Start_Svr(port)
  BY <1>1, ServerStart
<1>2. CASE SS!Stop_Svr \/ SS!Joined
  BY <1>2, ServerStop
<1>3. CASE SS!ControlLoop \/ SS!ControlEvent \/ SS!ControlAccept
  BY <1>3, ServerLoop, ServerEvent, ServerAccept
<1>4. CASE \E w \in Workers : SS!WorkerPoll(w) \/ SS!WorkerRead(w)
  BY <1>4, WorkerPolls, WorkerReads
<1>5. CASE SS!Connect
  BY <1>5, ClientConnects
<1>6. CASE UNCHANGED SS!vars
  BY <1>6 DEF SS!vars, ServerWell, ServerTypes, SS!TypeOK, ServerPhases, ServerReported, ServerTried, SS!WaitingIsSignalled, SS!Serving, SS!Alive
<1> QED BY <1>1, <1>2, <1>3, <1>4, <1>5, <1>6 DEF SS!Next
=============================================================================
