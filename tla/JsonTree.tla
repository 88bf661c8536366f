------------------------------ MODULE JsonTree ------------------------------
(***************************************************************************)
(* Json/new/Json.hpp: a JSON document kept as a tree of nodes.             *)
(*                                                                         *)
(* An object's node holds a list of keys and member nodes, an array's node *)
(* a vector of them.  Keys and strings that come from a text point into    *)
(* the copy of the text that the last parse made; others are copies of     *)
(* their own.  parse keeps the containers around the current one, and it,  *)
(* on a stack; m_DeepNode is the current one, and after parse the cursor.  *)
(*                                                                         *)
(* A pointer is the number of its allocation; what was freed is not in the *)
(* domain of node.  Where the program uses memory that is not its own it   *)
(* ends: pc = "crashed".  A text is followed by what copy it lies in.      *)
(***************************************************************************)
EXTENDS Integers, Sequences, FiniteSets, Functions, JsonText

CONSTANTS Texts,      \* the texts the user parses
          Keys,       \* the keys, and
          Indices,    \* the indices it looks up
          Leaves,     \* the values it assigns
          MaxCalls,   \* bound: calls of the user
          ParseCalls  \* bound: only the first so many of them may be parses

VARIABLES given,      \* the text in work, or the last one
          buffer,     \* m_JsonStrBegin: the number of its copy
          pos,        \* m_JsonStrIndex
          pc,         \* what parse does next, or "idle"
          ret,        \* how the last parse ended, until the document is used
          key,        \* m_Key_Begin .. m_Key_End: the characters, and their copy
          node,       \* the nodes by their pointers
          allocated,  \* how many there have been
          m_DeepNode, m_Stack,
          at,         \* history: the keys that lead to m_DeepNode
          misread,    \* history: a member that was not there was read
          keyless,    \* history: the text had a container where a key should be
          calls

vars == <<given, buffer, pos, pc, ret, key, node, allocated, m_DeepNode, m_Stack, at, misread, keyless, calls>>
heap == <<node, allocated>>
parser == <<given, buffer, pos, key, m_Stack, keyless>>

m_EntraceNode == 1
OWN == 0            \* a text of its own
WILD == -1          \* a pointer that was overwritten, or never set
NOBUFFER == 0
Index(i) == <<"index", i>>
chars == given.chars

Leaf(value, text) == [value |-> value, text |-> text, kids |-> <<>>]
Container(type) == Leaf(<<type, <<>>>>, OWN)
TypeOf(n, p) == n[p].value[1]
IsContainer(type) == type \in {"object", "array"}

Init ==
    /\ given = NoText
    /\ buffer = NOBUFFER /\ pos = 1 /\ pc = "idle" /\ ret = "none"
    /\ key = [chars |-> <<>>, text |-> WILD]
    /\ node = With(<<>>, m_EntraceNode, Container("new")) /\ allocated = 1
    /\ m_DeepNode = m_EntraceNode /\ m_Stack = <<>>
    /\ at = <<>> /\ misread = FALSE /\ keyless = FALSE /\ calls = 0

-----------------------------------------------------------------------------
(***************************************************************************)
(* The tree.                                                               *)
(***************************************************************************)

Kids(n, p) == {n[p].kids[k].data : k \in DOMAIN n[p].kids}

\* Everything below p, which free_child gives back; pointers grow downwards.
Below(n, p) ==
    LET below[q \in DOMAIN n] ==
          LET kids == {k \in Kids(n, q) \cap DOMAIN n : k > q}
          IN  kids \cup UNION {below[k] : k \in kids}
    IN  below[p]

free_child(n, p) == [Restrict(n, DOMAIN n \ Below(n, p)) EXCEPT ![p] = Container("new")]

\* Freeing a node twice is undefined, and so is freeing a string or a key whose
\* pointer was overwritten or leads into a text that was freed.
FreeIsUndefined(n, p) ==
    LET all == Below(n, p) \cup {p}
    IN  \/ UNION {Kids(n, q) : q \in all} \ DOMAIN n # {}
        \/ \E q \in all : \/ n[q].text \notin {OWN, buffer}
                         \/ \E k \in DOMAIN n[q].kids : n[q].kids[k].text \notin {OWN, buffer}

\* Mutant: a key that is there gets a second node.
find_add_Blind(n, p, k) == FALSE

\* find_add and find_add_copy: whether p has a member k.
find_add(n, p, k) == k \in DOMAIN n[p].kids

\* m_ArrayNode.push_back, and the list's new entry.
Adopt(n, p, k, text, q, leaf) ==
    With([n EXCEPT ![p].kids = With(@, k, [data |-> q, text |-> text])], q, leaf)

\* A key of p that find_add compares with k is in a text that was freed, or was
\* never set.  The keys as long as k are compared, the youngest first, up to k; of
\* one that was never set the length is not known.
Unreadable(p, k) ==
    LET kids == node[p].kids
    IN  \E j \in DOMAIN kids :
          /\ kids[j].text \notin {OWN, buffer}
          /\ kids[j].text = WILD \/ Len(j) = Len(k)
          /\ k \in DOMAIN kids => kids[k].data <= kids[j].data

\* The key under which the current container takes its next member.
NextKey(p) == IF TypeOf(node, p) = "array" THEN Index(Cardinality(DOMAIN node[p].kids)) ELSE key.chars

\* Where the characters of that key are.
TextOfKey(p) == IF TypeOf(node, p) = "array" THEN OWN ELSE key.text

-----------------------------------------------------------------------------
(***************************************************************************)
(* parse.                                                                  *)
(***************************************************************************)

Skip_Separator_Char(p) == NextNotIn(chars, p, {" "})
Beyond(p) == p > Len(chars)

Throw == pc' = "idle" /\ ret' = "threw"

\* Where the parse is when nothing but its position changes.
GoOn(p, where) ==
    /\ pos' = p /\ pc' = where
    /\ UNCHANGED <<ret, key, node, allocated, m_DeepNode, m_Stack, at, keyless>>
Fails == Throw /\ UNCHANGED <<pos, key, node, allocated, m_DeepNode, m_Stack, at, keyless>>
Ends == pc' = "crashed" /\ UNCHANGED <<pos, ret, key, node, allocated, m_DeepNode, m_Stack, at, keyless>>

\* A parse begins between the user's calls.
MayParse == pc = "idle" /\ calls < ParseCalls

\* The copy of the text before is freed, but the tree is not: the entrance gets
\* new content when the text begins like a container, and keeps the old, with
\* keys and strings in the freed copy, when it does not.  The key read last stays.
parse(t) ==
    LET start == NextNotIn(t.chars, 1, {" "})
        c == At(t.chars, start)
    IN  /\ MayParse
        /\ calls' = calls + 1
        /\ given' = t /\ buffer' = buffer + 1
        /\ m_DeepNode' = m_EntraceNode /\ at' = <<>> /\ keyless' = FALSE
        /\ IF m_EntraceNode \notin DOMAIN node
           THEN /\ pc' = "crashed"
                /\ UNCHANGED <<ret, pos, m_Stack, node>>
           ELSE IF c \in {"{", "["}
           THEN /\ node' = [node EXCEPT ![m_EntraceNode] = Container(IF c = "{" THEN "object" ELSE "array")]
                /\ m_Stack' = <<m_EntraceNode>>
                /\ pos' = start + 1
                /\ IF start + 1 > Len(t.chars) THEN Throw ELSE pc' = "field" /\ ret' = "parsing"
           ELSE /\ pc' = "idle" /\ ret' = "refused"
                /\ m_Stack' = <<>> /\ pos' = start
                /\ UNCHANGED node
        /\ UNCHANGED <<key, allocated, misread>>

\* A container begins at p: the member of the current one, under the key read
\* last or behind the last element.  Nothing asks whether this text has had a key
\* yet: in an object m_Key_Begin may be of the text before, whose copy was freed,
\* or not set at all; the first member is put under it unseen, and the next one's
\* key is compared with it.
OpenContainer(p) ==
    LET k == NextKey(m_DeepNode)
        type == IF chars[p] = "{" THEN "object" ELSE "array"
        old == node[m_DeepNode].kids[k].data
        inObject == TypeOf(node, m_DeepNode) = "object"
        there == inObject /\ find_add(node, m_DeepNode, k)
        new == IF there THEN old ELSE allocated + 1
    IN  IF inObject /\ Unreadable(m_DeepNode, k) THEN Ends ELSE
        /\ keyless' = (keyless \/ (inObject /\ key.text # buffer))
        /\ node' = IF there THEN [free_child(node, old) EXCEPT ![old] = Container(type)]
                   ELSE Adopt(node, m_DeepNode, k, TextOfKey(m_DeepNode), new, Container(type))
        /\ allocated' = IF there THEN allocated ELSE allocated + 1
        /\ m_DeepNode' = new
        /\ m_Stack' = Append(m_Stack, new)
        /\ at' = Append(at, k)
        /\ pos' = p + 1
        /\ IF Beyond(p + 1) THEN Throw ELSE pc' = "field" /\ UNCHANGED ret
        /\ UNCHANGED key

\* Where the text goes on behind a container that is a member.
BehindContainer(p) ==
    LET q == Skip_Separator_Char(p + 1)
    IN  IF At(chars, q) = "," THEN q + 1 ELSE q

\* ] or } at p, whichever the container began with.  Behind the outermost one
\* the very last character is not looked at.
CloseContainer(p) ==
    /\ m_Stack' = Front(m_Stack)
    /\ IF m_Stack' = <<>>
       THEN /\ IF Skip_Separator_Char(p + 1) >= Len(chars)
               THEN pc' = "idle" /\ ret' = "parsed" /\ m_DeepNode' = m_EntraceNode /\ at' = <<>>
               ELSE Throw /\ UNCHANGED <<m_DeepNode, at>>
            /\ UNCHANGED pos
       ELSE /\ m_DeepNode' = Last(m_Stack')
            /\ at' = Front(at)
            /\ pos' = BehindContainer(p)
            /\ IF Beyond(BehindContainer(p)) THEN Throw ELSE UNCHANGED <<pc, ret>>
    /\ UNCHANGED <<key, node, allocated, keyless>>

\* Set_Key_Value up to the colon: the first one ends the key, and a quotation
\* mark must stand before it.  The search for it has no end.
Set_Key ==
    LET start == Skip_Separator_Char(pos)
        colon == NextIn(chars, start + 1, {":"})
        last == LastSolid(chars, start + 1, colon - 1)
    IN  IF At(chars, start) # "q" \/ Beyond(start + 1) THEN Fails
        ELSE IF Beyond(colon) THEN Ends
        ELSE IF last <= start \/ chars[last] # "q" \/ Beyond(colon + 1) THEN Fails
        ELSE /\ key' = [chars |-> SubSeq(chars, start + 1, last - 1), text |-> buffer]
             /\ pos' = colon + 1 /\ pc' = "value"
             /\ UNCHANGED <<ret, node, allocated, m_DeepNode, m_Stack, at, keyless>>

\* What a value that begins at p with the character c is, where it ends, and
\* whether it is well formed up to there (the end is checked separately).
Scanned(p, stops) ==
    LET c == At(chars, p)
        stop == NextIn(chars, p + 1, stops)
        last == LastSolid(chars, p + 1, stop - 1)
        first == IF c = "-" THEN p + 1 ELSE p
        point == NextNotIn(chars, first, Digits)
        decimals == NextNotIn(chars, point + 1, Digits)
    IN  CASE c = "q" -> [leaf |-> Leaf(<<"string", SubSeq(chars, p + 1, last - 1)>>, buffer), next |-> stop,
                         ok |-> last > p /\ At(chars, last) = "q"]
          [] c \in Digits \cup {"-", "."} /\ At(chars, point) = "." ->
               [leaf |-> Leaf(<<"double", AToF(SubSeq(chars, p, decimals - 1))>>, OWN), next |-> decimals, ok |-> TRUE]
          [] c \in Digits \cup {"-"} /\ At(chars, point) # "." ->
               [leaf |-> Leaf(<<"int", AToI(SubSeq(chars, p, point - 1))>>, OWN), next |-> point, ok |-> TRUE]
          [] c \in {"t", "f"} -> [leaf |-> Leaf(<<"bool", c>>, OWN), next |-> p + 1, ok |-> TRUE]
          [] c = "n" -> [leaf |-> Leaf(Null, OWN), next |-> p + 1, ok |-> TRUE]
          [] OTHER -> [leaf |-> Container("new"), next |-> p, ok |-> FALSE]

\* A literal becomes a member before its end is checked, the others after.
Keeps(v, stopped) == v.ok /\ (stopped \/ v.leaf.value[1] \in {"bool", "null"})

\* Mutant: the stops of an object also end a string in an array.
Stops_OfObjects(type) == {"}", ","}

\* The characters that end a value.
Stops(type) == IF type = "array" THEN {"]", ","} ELSE {"}", ","}

\* A value of Set_Key_Value or Set_Array_Value; a container is left to the loop
\* of parse.
Set_Value ==
    LET start == Skip_Separator_Char(pos)
        parent == node[m_DeepNode]
        type == TypeOf(node, m_DeepNode)
        v == Scanned(start, Stops(type))
        stop == Skip_Separator_Char(v.next)
        stopped == At(chars, stop) \in Stops(type)
        k == NextKey(m_DeepNode)
        there == type = "object" /\ find_add(node, m_DeepNode, k)
        old == parent.kids[k].data
    IN  IF At(chars, start) \in {"{", "["} THEN GoOn(start, "field")
        ELSE IF Keeps(v, stopped) /\ type = "object" /\ Unreadable(m_DeepNode, k) THEN Ends
        ELSE /\ IF ~Keeps(v, stopped) THEN UNCHANGED heap
                ELSE IF there THEN node' = [free_child(node, old) EXCEPT ![old] = v.leaf] /\ UNCHANGED allocated
                ELSE node' = Adopt(node, m_DeepNode, k, TextOfKey(m_DeepNode), allocated + 1, v.leaf) /\ allocated' = allocated + 1
             /\ IF ~v.ok \/ ~stopped \/ (At(chars, stop) = "," /\ Beyond(stop + 1))
                THEN Throw /\ UNCHANGED pos
                ELSE /\ UNCHANGED ret
                     /\ IF At(chars, stop) = ","
                        THEN pos' = stop + 1 /\ pc' = IF type = "array" THEN "value" ELSE "key"
                        ELSE pos' = stop /\ pc' = "field"
             /\ UNCHANGED <<key, m_DeepNode, m_Stack, at, keyless>>

\* One round of the loop of parse.
Field ==
    LET p == Skip_Separator_Char(pos)
    IN  CASE Beyond(p) -> Fails
          [] ~Beyond(p) /\ chars[p] \in {"{", "["} -> OpenContainer(p)
          [] ~Beyond(p) /\ chars[p] \in {"}", "]"} -> CloseContainer(p)
          [] OTHER -> GoOn(p, IF TypeOf(node, m_DeepNode) = "object" THEN "key" ELSE "value")

ParseStep ==
    /\ \/ pc = "field" /\ Field
       \/ pc = "key" /\ Set_Key
       \/ pc = "value" /\ Set_Value
    /\ UNCHANGED <<given, buffer, misread, calls>>

-----------------------------------------------------------------------------
(***************************************************************************)
(* The user's calls.                                                       *)
(***************************************************************************)

Call ==
    /\ pc = "idle" /\ calls < MaxCalls
    /\ calls' = calls + 1
    /\ UNCHANGED parser

Crash == pc' = "crashed" /\ at' = <<>> /\ UNCHANGED <<ret, node, allocated, m_DeepNode, misread>>
Used == ret' = IF ret \in {"refused", "threw"} THEN ret ELSE "used"
ToTop == m_DeepNode' = m_EntraceNode /\ at' = <<>>

\* The cursor is on a node that was freed.
Dangling == m_DeepNode \notin DOMAIN node

\* operator[] goes to the member k, which becomes a new node if it is not there.
\* A new node becomes a container of the type looked into.
Enter(type, k, valid) ==
    LET there == TypeOf(node, m_DeepNode) = type /\ find_add(node, m_DeepNode, k)
        p == node[m_DeepNode].kids[k].data
        n == IF TypeOf(node, m_DeepNode) = "new" THEN [node EXCEPT ![m_DeepNode] = Container(type)] ELSE node
    IN  IF TypeOf(node, m_DeepNode) \notin {"new", type} \/ ~valid
        THEN ToTop /\ node' = n /\ UNCHANGED <<pc, ret, allocated, misread>>
        ELSE /\ m_DeepNode' = IF there THEN p ELSE allocated + 1
             /\ at' = Append(at, k)
             /\ IF there THEN UNCHANGED <<node, allocated, ret>>
                ELSE /\ node' = Adopt(n, m_DeepNode, k, OWN, allocated + 1, Container("new"))
                     /\ allocated' = allocated + 1
                     /\ Used
             /\ UNCHANGED <<pc, misread>>

\* operator[] (const char *)
LookUp(k) ==
    Call /\ IF Dangling \/ Unreadable(m_DeepNode, k) THEN Crash ELSE Enter("object", k, TRUE)

\* operator[] (int): -1 adds an element, any other index outside the array throws.
LookUpIndex(i) ==
    LET size == Cardinality(DOMAIN node[m_DeepNode].kids)
    IN  Call /\ IF Dangling THEN Crash
                ELSE Enter("array", Index(IF i = -1 THEN size ELSE i), i = -1 \/ i \in 0 .. size - 1)

\* Mutant: a null is taken for a new node.
FreedByRead_NullToo(type) == IF TypeOf(node, m_DeepNode) \in {"new", "null"} THEN {m_DeepNode} ELSE {}

\* A conversion of a node that operator[] has just added frees it, and leaves it
\* in the tree.
FreedByRead(type) == IF TypeOf(node, m_DeepNode) = "new" THEN {m_DeepNode} ELSE {}

\* operator int, double, bool, std::string.  The wrong type throws; operator
\* double then leaves the cursor where it is.
Convert(type) ==
    /\ Call
    /\ IF Dangling \/ (TypeOf(node, m_DeepNode) = type /\ node[m_DeepNode].text \notin {OWN, buffer})
       THEN Crash
       ELSE /\ node' = Restrict(node, DOMAIN node \ FreedByRead(type))
            /\ misread' = (misread \/ TypeOf(node, m_DeepNode) = "new")
            /\ IF type = "double" /\ TypeOf(node, m_DeepNode) \notin {"new", "double"}
               THEN UNCHANGED <<m_DeepNode, at>> ELSE ToTop
            /\ UNCHANGED <<pc, ret, allocated>>

\* A string whose pointer and length were overwritten: nobody can read it.
Overwritten == Leaf(<<"string", <<"overwritten">>>>, WILD)
RecordBytes == 16    \* sizeof(TString_Json)

\* operator= of any of the types.  That of a string copies the characters over
\* the record that should point to them, and those it has no room for go over
\* what lies behind it.
AssignLeaf(v) ==
    LET length == IF v[1] = "string" THEN Len(v[2]) ELSE 0
        leaf == IF length = 0 THEN Leaf(v, OWN) ELSE Overwritten
    IN  /\ Call
        /\ IF Dangling \/ FreeIsUndefined(node, m_DeepNode) \/ length > RecordBytes THEN Crash
           ELSE /\ node' = [free_child(node, m_DeepNode) EXCEPT ![m_DeepNode] = leaf]
                /\ Used
                /\ ToTop
                /\ UNCHANGED <<pc, allocated, misread>>

Next ==
    \/ MayParse /\ \E t \in Texts : parse(t)
    \/ ParseStep
    \/ \E k \in Keys : LookUp(k)
    \/ \E i \in Indices : LookUpIndex(i)
    \/ \E type \in {"int", "double", "bool", "string"} : Convert(type)
    \/ \E v \in Leaves : AssignLeaf(v)

Spec == Init /\ [][Next]_vars

-----------------------------------------------------------------------------
(***************************************************************************)
(* Properties.                                                             *)
(***************************************************************************)

TypeOK ==
    /\ {buffer, allocated, calls} \subseteq Nat /\ pos \in Nat
    /\ pc \in {"idle", "field", "key", "value", "crashed"}
    /\ ret \in {"none", "parsing", "parsed", "refused", "threw", "used"}
    /\ DOMAIN node \subseteq 1 .. allocated
    /\ \A p \in DOMAIN node : \A k \in DOMAIN node[p].kids : node[p].kids[k].data \in p + 1 .. allocated
    /\ m_DeepNode \in 1 .. allocated /\ m_Stack \in Seq(1 .. allocated)
    /\ key.text \in WILD .. buffer /\ misread \in BOOLEAN /\ keyless \in BOOLEAN

\* The document below each pointer; what operator[] has added and nobody has
\* assigned yet counts as null, and a string that was assigned is Overwritten,
\* not the one that was given.
DocumentOf ==
    LET doc[p \in DOMAIN node] ==
          CASE IsContainer(TypeOf(node, p)) ->
                 <<TypeOf(node, p), [k \in DOMAIN node[p].kids |->
                     IF node[p].kids[k].data \in DOMAIN node THEN doc[node[p].kids[k].data] ELSE <<"dangling", <<>>>>]>>
            [] TypeOf(node, p) = "new" -> Null
            [] OTHER -> node[p].value
    IN  doc

\* The texts parse understands: strings and keys without the characters that
\* structure a text.
Understood(t) == t.whole /\ t.simple

\* parse builds the document the text was written from, the later of two equal
\* keys counting, wherever the blanks are; it does so for every text whose
\* strings hold no stops: it throws for none of them, unless a conversion has
\* freed the entrance before (parse, Set_Key_Value,
\* Set_Array_Value, SimpleList_Json::find_add).  It also accepts texts that are
\* no document, those where a container stands before the first key of an object
\* (line 838); nothing is said of these.
ParsedTree ==
    /\ ret = "parsed" /\ ~keyless => DocumentOf[m_EntraceNode] = given.meaning
    /\ Understood(given) /\ m_EntraceNode \in DOMAIN node => ret \notin {"threw", "refused"} /\ (ret = "parsing" => pc # "crashed")

\* As long as nobody has read a member that was not there, every node of the
\* tree is allocated, hangs in one place only, and nothing that was freed can be
\* reached; and every key and every string from a text is in the copy of the last
\* text, unless that one was refused at its first character, or had a container
\* in an object before it had any key, which then has no key or one in a copy
\* that was freed (lines 838 and 874).  An assigned string counts as WILD: its
\* record was overwritten.  m_Stack counts while parse runs: what a parse that
\* threw leaves there may be freed by an assignment, and the next parse empties it
\* (line 802).
TreeIntact ==
    LET tree == Below(node, m_EntraceNode) \cup {m_EntraceNode}
    IN  pc # "crashed" /\ ~misread =>
          /\ tree \subseteq DOMAIN node
          /\ m_DeepNode \in tree /\ (pc # "idle" => ToSet(m_Stack) \subseteq tree)
          /\ \A p \in tree : Kids(node, p) \subseteq DOMAIN node
          /\ \A p, q \in tree : \A j \in DOMAIN node[p].kids, k \in DOMAIN node[q].kids :
                 node[p].kids[j].data = node[q].kids[k].data => p = q /\ j = k
          /\ ret # "refused" /\ ~keyless =>
                 \A p \in tree : /\ node[p].text \in {OWN, buffer, WILD}
                                 /\ \A k \in DOMAIN node[p].kids : node[p].kids[k].text \in {OWN, buffer}

\* Seen from outside the object is a document with a cursor, from its beginning
\* or the end of a parse on, until a member is read that is not there.  A text with
\* a container in the place of its first key makes no document.  A string that is
\* assigned becomes a leaf, but one that cannot be read back (DocumentOf).
HasDocument == pc = "idle" /\ ret \in {"none", "parsed", "used"} /\ ~misread /\ ~keyless

D == INSTANCE JsonDocument WITH
         doc <- IF HasDocument THEN DocumentOf[m_EntraceNode] ELSE <<"none", <<>>>>,
         at <- IF HasDocument THEN at ELSE <<>>

IsDocument == D!Spec
=============================================================================
