------------------------------ MODULE JsonMap -------------------------------
(***************************************************************************)
(* Basic/Json.hpp: a JSON document kept in one map.                        *)
(*                                                                         *)
(* A container has a number, and the map leads from the number of a        *)
(* container and a key (an index, in an array) to the node of its member.  *)
(* The nodes live in a pool that every parse empties.  The parser keeps    *)
(* the containers around the current one on a stack; after it the user     *)
(* walks the document with a cursor, m_DeepNode.                           *)
(*                                                                         *)
(* A pointer is the number of its allocation, so none is ever used twice;  *)
(* the nodes in the pool are the domain of node.  Where the program uses a *)
(* pointer to nothing it ends: pc = "crashed".                             *)
(***************************************************************************)
EXTENDS Integers, Sequences, FiniteSets, Functions, JsonText

CONSTANTS Texts,      \* the texts the user parses
          Keys,       \* the keys, and
          Indices,    \* the indices it looks up
          Leaves,     \* the values it assigns
          MaxCalls,   \* bound: calls of the user
          ParseCalls  \* bound: only the first so many of them may be parses

VARIABLES given,      \* the text in work, or the last one
          pos,        \* where jsonStr points into it
          pc,         \* which loop of parse runs, or "idle"
          ret,        \* what the last parse answered, until the document is used
          node,       \* m_memManager: the nodes by their pointers
          allocated,  \* how many there have been
          m_Map,      \* from container number and key to the pointer of the member
          m_NodeID, m_head, m_DeepNode,
          cur,        \* the container parse is in, its local `node'
          m_Stack,    \* the containers around it
          at,         \* history: the keys the cursor went down
          calls

parser == <<given, pos, pc, ret, cur, m_Stack>>
store == <<node, allocated, m_Map, m_NodeID, m_head>>
vars == <<parser, store, m_DeepNode, at, calls>>

NULL == 0
WILD == -1            \* a pointer nobody has set
Stops == {",", "}", "]"}
Index(i) == <<"index", i>>
EmptyOf(type) == <<type, <<>>>>
Failed == [value |-> <<"none", <<>>>>, next |-> 0]

chars == given.chars

Init ==
    /\ given = NoText /\ pos = 1 /\ pc = "idle" /\ ret = "none"
    /\ node = <<>> /\ allocated = 0 /\ m_Map = <<>> /\ m_NodeID = 0
    /\ m_head = NULL /\ m_DeepNode = WILD
    /\ cur = NULL /\ m_Stack = <<>>
    /\ at = <<>> /\ calls = 0

-----------------------------------------------------------------------------
(***************************************************************************)
(* Reading the text.                                                       *)
(***************************************************************************)

skip_space_and_enter(p) == NextNotIn(chars, p, {" "})

\* Mutant: the first stop ends the text in quotes, whatever stands before it.
QuotedEnd_AnyStop(p, stops) == NextIn(chars, p, stops)

\* A text in quotes that begins at p ends at the first stop that only blanks
\* separate from a quotation mark, or from p: then the text is bad.
QuotedEnd(p, stops) ==
    Min({i \in p .. Len(chars) : chars[i] \in stops /\ At(chars, LastSolid(chars, p, i - 1)) = "q"}
        \cup {i \in p .. Len(chars) : chars[i] \in stops /\ LastSolid(chars, p, i - 1) < p}
        \cup {Len(chars) + 1})

\* The characters between the quotation marks, and the position of the stop.
Quoted(p, stops) ==
    LET stop == QuotedEnd(p, stops)
        last == LastSolid(chars, p, stop - 1)
    IN  IF stop > Len(chars) \/ last < p THEN Failed
        ELSE [value |-> <<"string", SubSeq(chars, p, last - 1)>>, next |-> stop]

getKey(p) ==
    LET key == Quoted(p, {":"})
    IN  IF key = Failed THEN Failed ELSE [key EXCEPT !.next = @ + 1]

\* A value that ends at q is one only if a stop follows.
Ended(type, val, q) ==
    LET stop == skip_space_and_enter(q)
    IN  IF At(chars, stop) \in Stops THEN [value |-> <<type, val>>, next |-> stop] ELSE Failed

Number(p) ==
    LET first == IF At(chars, p) = "-" THEN p + 1 ELSE p
        end == NextNotIn(chars, first, Digits \cup {"."})
        figures == SubSeq(chars, p, end - 1)
        points == Cardinality({i \in DOMAIN figures : figures[i] = "."})
    IN  CASE points = 0 -> Ended("int", AToI(figures), end)
          [] points = 1 -> Ended("double", AToF(figures), end)
          [] OTHER -> Failed

\* true and false.  null is compared with the address of the text instead of
\* the text, and never found.
Literal(p) == CASE chars[p] = "n" -> Failed
                [] OTHER -> Ended("bool", chars[p], p + 1)

getValue(p) ==
    LET c == At(chars, p)
    IN  CASE c = "q" -> Quoted(p + 1, Stops)
          [] c \in Digits \cup {"-", "."} -> Number(p)
          [] c \in {"t", "f", "n"} -> Literal(p)
          [] c = "{" -> [value |-> EmptyOf("object"), next |-> p + 1]
          [] c = "[" -> [value |-> EmptyOf("array"), next |-> p + 1]
          [] OTHER -> Failed

IsContainer(type) == type \in {"object", "array"}
TypeOf(p) == node[p].value[1]

\* JsonStrMap::find.
find(id, key) == IF <<id, key>> \in DOMAIN m_Map THEN m_Map[<<id, key>>] ELSE NULL

\* JsonStrMap::add: a key there already leads to the new node now.
add(map, id, key, pointer) == With(map, <<id, key>>, pointer)

-----------------------------------------------------------------------------
(***************************************************************************)
(* parse.                                                                  *)
(***************************************************************************)

\* m_NodeID after a node of this type: only containers have a number.
NextID(type) == IF IsContainer(type) THEN m_NodeID + 1 ELSE m_NodeID

NewNode(value) == [value |-> value, id |-> m_NodeID, num |-> 0]

Answer(r) == pc' = "idle" /\ ret' = r
Crash == pc' = "crashed"

\* Mutant: the members of the document before stay in the map.
EmptyMap_Never == m_Map

\* The map when a parse begins, after JsonStrMap::free.
EmptyMap == <<>>

\* A parse begins between the user's calls.
MayParse == pc = "idle" /\ calls < ParseCalls

\* Everything of the document before is given back first.  A text that begins
\* with something else than a container leaves m_head and m_DeepNode as they are.
parse(t) ==
    LET start == NextNotIn(t.chars, 1, {" "})
        type == CASE At(t.chars, start) = "{" -> "object"
                  [] At(t.chars, start) = "[" -> "array"
                  [] OTHER -> "none"
    IN  /\ MayParse
        /\ calls' = calls + 1
        /\ given' = t
        /\ m_Stack' = <<>>
        /\ m_Map' = EmptyMap
        /\ at' = <<>>
        /\ IF type = "none"
           THEN /\ Answer("-1")
                /\ node' = <<>>
                /\ UNCHANGED <<pos, cur, allocated, m_NodeID, m_head, m_DeepNode>>
           ELSE /\ pc' = "outer" /\ ret' = "parsing"
                /\ node' = With(<<>>, allocated + 1, NewNode(EmptyOf(type)))
                /\ allocated' = allocated + 1
                /\ m_NodeID' = NextID(type)
                /\ m_head' = allocated + 1 /\ m_DeepNode' = m_head' /\ cur' = m_head'
                /\ pos' = NextNotIn(t.chars, start + 1, {" "})

\* The end of a container at p: parse goes on in the one around it, behind a
\* comma if there is one; the outermost must be the last but for blanks.
Close(p) ==
    /\ IF m_Stack # <<>>
       THEN /\ cur' = Last(m_Stack)
            /\ m_Stack' = Front(m_Stack)
            /\ pos' = IF At(chars, p + 1) = "," THEN p + 2 ELSE p + 1
            /\ UNCHANGED <<pc, ret>>
       ELSE /\ Answer(IF skip_space_and_enter(p + 1) > Len(chars) THEN "1" ELSE "threw")
            /\ UNCHANGED <<cur, m_Stack, pos>>
    /\ UNCHANGED store

\* A value v becomes the member of cur under key.  A container is entered; a
\* comma behind any other leads to the next member in the same loop, the
\* container's closing character back to the outer loop.
Insert(key, v, loop, closing) ==
    LET p == allocated + 1
        parent == node[cur]
        type == v.value[1]
    IN  /\ allocated' = p
        /\ node' = With([node EXCEPT ![cur].num = IF TypeOf(cur) = "array" THEN @ + 1 ELSE @],
                        p, NewNode(v.value))
        /\ m_NodeID' = NextID(type)
        /\ m_Map' = add(m_Map, parent.id, key, p)
        /\ IF IsContainer(type)
           THEN /\ m_Stack' = Append(m_Stack, cur) /\ cur' = p
                /\ pos' = v.next /\ pc' = "outer"
                /\ UNCHANGED ret
           ELSE /\ CASE At(chars, v.next) = "," -> pos' = v.next + 1 /\ pc' = loop /\ UNCHANGED ret
                     [] At(chars, v.next) = closing -> pos' = v.next /\ pc' = "outer" /\ UNCHANGED ret
                     [] OTHER -> Answer("threw") /\ UNCHANGED pos
                /\ UNCHANGED <<cur, m_Stack>>
        /\ UNCHANGED m_head

\* One round of the loop over the members of an object.
ParseMember ==
    LET start == skip_space_and_enter(pos)
        key == getKey(start + 1)
        value == getValue(skip_space_and_enter(key.next))
    IN  /\ CASE pc = "outer" /\ At(chars, start) = "}" -> Close(start)
             [] (pc = "members" \/ At(chars, start) # "}") /\ (At(chars, start) # "q" \/ key = Failed) ->
                  Answer("threw") /\ UNCHANGED <<cur, m_Stack, pos, store>>
             [] OTHER ->
                  IF value = Failed
                  THEN Crash /\ UNCHANGED <<cur, m_Stack, pos, ret, store>>
                  ELSE Insert(key.value[2], value, "members", "}")
        /\ UNCHANGED <<given, m_DeepNode, at, calls>>

\* One round of the loop over the elements of an array; no blanks are skipped
\* before an element.
ParseElement ==
    LET value == getValue(pos)
    IN  /\ CASE pc = "outer" /\ At(chars, pos) = "]" -> Close(pos)
             [] (pc = "elements" \/ At(chars, pos) # "]") /\ value = Failed ->
                  Crash /\ UNCHANGED <<cur, m_Stack, pos, ret, store>>
             [] OTHER -> Insert(Index(node[cur].num), value, "elements", "]")
        /\ UNCHANGED <<given, m_DeepNode, at, calls>>

ParseStep ==
    \/ /\ pc = "outer" /\ pos > Len(chars)
       /\ Answer("0")
       /\ UNCHANGED <<given, pos, cur, m_Stack, store, m_DeepNode, at, calls>>
    \/ /\ pc = "members" \/ (pc = "outer" /\ pos <= Len(chars) /\ TypeOf(cur) = "object")
       /\ ParseMember
    \/ /\ pc = "elements" \/ (pc = "outer" /\ pos <= Len(chars) /\ TypeOf(cur) = "array")
       /\ ParseElement

-----------------------------------------------------------------------------
(***************************************************************************)
(* The user's calls.                                                       *)
(***************************************************************************)

Call ==
    /\ pc = "idle" /\ ret # "none" /\ calls < MaxCalls
    /\ calls' = calls + 1
    /\ UNCHANGED <<given, pos, cur, m_Stack, m_head>>

\* The cursor does not point to a node of the type: the program goes on with a
\* reference to nothing.
Misused(type) == m_DeepNode \notin DOMAIN node \/ TypeOf(m_DeepNode) # type
Lost == Crash /\ at' = <<>> /\ UNCHANGED <<ret, m_DeepNode, node, allocated, m_Map, m_NodeID>>

Moved(key, pointer) ==
    /\ m_DeepNode' = pointer
    /\ at' = Append(at, key)
    /\ UNCHANGED <<pc, ret, node, allocated, m_Map, m_NodeID>>

\* A new node of the type NullType_Json under key, and the cursor on it.
Added(key) ==
    LET p == allocated + 1
        parent == node[m_DeepNode]
    IN  /\ node' = With([node EXCEPT ![m_DeepNode].num = IF TypeOf(m_DeepNode) = "array" THEN @ + 1 ELSE @],
                        p, NewNode(EmptyOf("null")))
        /\ allocated' = p
        /\ m_Map' = add(m_Map, parent.id, key, p)
        /\ m_DeepNode' = p
        /\ at' = Append(at, key)
        /\ ret' = "used"
        /\ UNCHANGED <<pc, m_NodeID>>

\* operator[] (char *)
LookUp(key) ==
    /\ Call
    /\ IF Misused("object") THEN Lost
       ELSE LET p == find(node[m_DeepNode].id, key)
            IN  IF p = NULL THEN Added(key) ELSE Moved(key, p)

\* operator[] (std::string &): the cursor stays on the object when the key is there.
LookUpString(key) ==
    /\ Call
    /\ CASE Misused("object") -> Lost
         [] ~Misused("object") /\ find(node[m_DeepNode].id, key) = NULL -> Added(key)
         [] OTHER -> UNCHANGED <<pc, ret, node, allocated, m_Map, m_NodeID, m_DeepNode, at>>

\* Mutant: only -1 adds an element.
Beyond_OnlyMinusOne(i) == i = -1

\* Whether an index asks for a new element: -1, or any outside the array; num is
\* unsigned, so a negative index is beyond it.
Beyond(i) == i < 0 \/ node[m_DeepNode].num <= i

\* operator[] (int)
LookUpIndex(i) ==
    /\ Call
    /\ CASE Misused("array") -> Lost
         [] ~Misused("array") /\ Beyond(i) -> Added(Index(node[m_DeepNode].num))
         [] OTHER -> Moved(Index(i), find(node[m_DeepNode].id, Index(i)))

\* operator int, double, float, bool, std::string.  No type is tested: the last
\* of them takes what is no string for one.
Convert ==
    /\ Call
    /\ CASE m_DeepNode \in DOMAIN node ->
              \/ m_DeepNode' = m_head /\ at' = <<>> /\ UNCHANGED <<pc, ret, node, allocated, m_Map, m_NodeID>>
              \/ TypeOf(m_DeepNode) # "string" /\ Lost
         [] m_DeepNode = NULL -> UNCHANGED <<pc, ret, node, allocated, m_Map, m_NodeID, m_DeepNode, at>>
         [] OTHER -> Lost

\* operator= of any of the types
AssignLeaf(v) ==
    /\ Call
    /\ IF m_DeepNode \notin DOMAIN node THEN Lost
       ELSE /\ node' = [node EXCEPT ![m_DeepNode].value = v]
            /\ m_DeepNode' = m_head
            /\ at' = <<>>
            /\ ret' = "used"
            /\ UNCHANGED <<pc, allocated, m_Map, m_NodeID>>

Next ==
    \/ MayParse /\ \E t \in Texts : parse(t)
    \/ ParseStep
    \/ \E k \in Keys : LookUp(k) \/ LookUpString(k)
    \/ \E i \in Indices : LookUpIndex(i)
    \/ Convert
    \/ \E v \in Leaves : AssignLeaf(v)

Spec == Init /\ [][Next]_vars

-----------------------------------------------------------------------------
(***************************************************************************)
(* Properties.                                                             *)
(***************************************************************************)

TypeOK ==
    /\ pos \in Nat /\ allocated \in Nat /\ m_NodeID \in 0 .. allocated /\ calls \in 0 .. MaxCalls
    /\ pc \in {"idle", "outer", "members", "elements", "crashed"}
    /\ ret \in {"none", "parsing", "1", "0", "-1", "threw", "used"}
    /\ DOMAIN node \subseteq 1 .. allocated
    /\ \A p \in DOMAIN node : node[p].id \in 0 .. m_NodeID /\ node[p].num \in Nat
    /\ \A m \in DOMAIN m_Map : m_Map[m] \in 1 .. allocated
    /\ {m_head, m_DeepNode, cur} \subseteq WILD .. allocated
    /\ m_Stack \in Seq(1 .. allocated)

\* The members of the container with pointer p.
MemberKeys(p) == IF TypeOf(p) = "array" THEN {Index(i) : i \in 0 .. node[p].num - 1}
                 ELSE {m[2] : m \in {m \in DOMAIN m_Map : m[1] = node[p].id}}

\* The document below each pointer, read the way the user would: a member is
\* younger than its container.
DocumentOf ==
    LET doc[p \in DOMAIN node] ==
          IF ~IsContainer(TypeOf(p)) THEN node[p].value
          ELSE <<TypeOf(p),
                 [k \in MemberKeys(p) |-> LET m == find(node[p].id, k)
                                          IN IF m > p /\ m \in DOMAIN node THEN doc[m]
                                             ELSE <<"dangling", <<>>>>]>>
    IN  doc

HasDocument == pc = "idle" /\ m_head \in DOMAIN node

\* The texts parse understands: no null, and no blanks before an element of an
\* array or behind a container in a container.
Understood(t) ==
    /\ t.whole
    /\ t.gaps \subseteq {"first", "key", "colon", "value", "scalar"}
    /\ "n" \notin ToSet(t.chars)

\* Whenever parse answers 1 the map, the numbers and the counts together hold
\* exactly the document the text was written from, the later of two equal keys
\* counting; and for every text it understands it does answer 1: it neither
\* throws nor ends early nor uses a null pointer (parse, getKey, getValue,
\* JsonStrMap::add).
ParsedDocument ==
    /\ ret = "1" => DocumentOf[m_head] = given.meaning
    /\ ret \in {"parsing", "0", "threw", "-1"} /\ Understood(given) => ret = "parsing" /\ pc # "crashed"

\* No pointer the object keeps leads out of the pool, unless the last text was
\* refused at its first character: then m_head and the cursor still point to
\* nodes that parse gave back.
NothingDangling ==
    pc # "crashed" =>
        /\ \A m \in DOMAIN m_Map : m_Map[m] \in DOMAIN node
        /\ ToSet(m_Stack) \subseteq DOMAIN node
        /\ \A p \in DOMAIN node : IsContainer(TypeOf(p)) =>
               \A k \in MemberKeys(p) : find(node[p].id, k) \in DOMAIN node
        /\ ret \notin {"none", "-1"} => {m_head, m_DeepNode} \subseteq DOMAIN node

\* Seen from outside the object is a document with a cursor: whatever is looked
\* up, added or assigned changes the value at the cursor and nothing else,
\* although all members of all containers share one map.
D == INSTANCE JsonDocument WITH
         doc <- IF HasDocument THEN DocumentOf[m_head] ELSE <<"none", <<>>>>,
         at <- at

IsDocument == D!Spec
=============================================================================
