---------------------------- MODULE FileHashMap -----------------------------
(***************************************************************************)
(* FileStrHashMap/FileStrHashMap.hpp: a hash map kept in the blocks of a   *)
(* FileStorage.                                                            *)
(*                                                                         *)
(* The first block holds the map's head (the bucket block and the number   *)
(* of entries), the bucket block the first node of every chain; a node     *)
(* leads to the block of its key, the block of its value and the next      *)
(* node.  The object keeps the head and the buckets in memory.             *)
(*                                                                         *)
(* A call is one change of memory and a sequence of operations on blocks,  *)
(* of which the process may be killed between any two.  The storage is     *)
(* taken for what FileStorage.tla shows it to be: a set of allocated       *)
(* blocks whose content survives, but for a kill inside an operation of    *)
(* two writes; it gives out the first unused handle, so that a freed one   *)
(* comes back at once.                                                     *)
(***************************************************************************)
EXTENDS Integers, Sequences, FiniteSets, FiniteSetsExt, SequencesExt, Functions

CONSTANTS Keys, Values,
          bucketSize,    \* how many buckets there are
          Hash,          \* APHash: the bucket of every key
          MaxHandle,     \* bound: how many blocks the storage has
          MaxCrash,      \* bound: how often the process is killed
          MaxCall        \* bound: how many calls are made

VARIABLES store,         \* the allocated blocks and what is in them
          mem,           \* m_MapInfo and m_Bucket, or Closed
          todo,          \* what the call in progress still does to the storage
          call,          \* the key and the value (or None) it is about
          allowed,       \* history: what each key may be found with
          dangled,       \* history: killed while the file led to a freed block, or
                         \* inside an operation that the storage cannot be killed in
          miscounted,    \* history: killed between a link and the count
          crashes, calls

vars == <<store, mem, todo, call, allowed, dangled, miscounted, crashes, calls>>

None == "none"               \* no such key
Torn == "torn"               \* a block of which only the length is written
Nil == 0
FIRSTFILESTORAGEBLOCKHANDLE == 1
Handles == 1 .. MaxHandle
Buckets == 0 .. bucketSize - 1
Closed == [open |-> FALSE]
NoCall == [key |-> None, value |-> None]

Junk == [kind |-> "junk"]
Info(m) == [kind |-> "info", bucket |-> m.bucket, size |-> m.size]
Data(v) == [kind |-> "data", val |-> v]
NodeOf(key, value, next) == [kind |-> "node", key |-> key, value |-> value, nextBlock |-> next]

Holds(h, kind) == h \in DOMAIN store /\ store[h].kind = kind

Init ==
    /\ store = <<>>
    /\ mem = Closed
    /\ todo = <<>>
    /\ call = NoCall
    /\ allowed = [k \in Keys |-> {None}]
    /\ dangled = FALSE /\ miscounted = FALSE
    /\ crashes = 0 /\ calls = 0

-----------------------------------------------------------------------------
(***************************************************************************)
(* The operations on the storage.  Killed before an exposed one, the file  *)
(* leads to a block that is freed; before an uncounted one, the number of  *)
(* entries in the head is not that of the nodes.                           *)
(***************************************************************************)

Op(op, h, content) == [op |-> op, h |-> h, content |-> content, exposed |-> FALSE, uncounted |-> FALSE]
allocate(h) == Op("allocate", h, Junk)
write(h, content) == Op("write", h, content)
Free(h) == Op("free", h, Junk)
clearFile == Op("clear", Nil, Junk)

Exposed(ops) == [i \in DOMAIN ops |-> [ops[i] EXCEPT !.exposed = TRUE]]
Uncounted(ops) == [i \in DOMAIN ops |-> [ops[i] EXCEPT !.uncounted = TRUE]]

\* The length, then the characters.
WriteData(h, v) == <<write(h, Data(Torn)), write(h, Data(v))>>

Applied(s, o) ==
    CASE o.op = "clear" -> <<>>
      [] o.op = "free" -> Restrict(s, DOMAIN s \ {o.h})
      [] o.op = "allocate" -> [h \in DOMAIN s \cup {o.h} |-> IF h = o.h THEN Junk ELSE s[h]]
      [] o.op = "write" /\ o.h \in DOMAIN s -> [s EXCEPT ![o.h] = o.content]
      [] OTHER -> s

\* The n-th handle the storage gives out when those in s are in use.
Unused(used, n) == CHOOSE h \in Handles \ used : Cardinality({g \in Handles \ used : g <= h}) = n
HasRoom(used, n) == Cardinality(Handles \ used) >= n

-----------------------------------------------------------------------------
(***************************************************************************)
(* Reading.                                                                *)
(***************************************************************************)

\* What is read from h on, each block giving the one after it, as long as they
\* can be read; in a circle, until it is read once more than there are blocks.
ReadFrom(h, after) ==
    LET read[n \in 0 .. MaxHandle + 1] ==
          IF n = 0 THEN <<>>
          ELSE LET before == read[n - 1]
                   next == IF n = 1 THEN h ELSE after[before[n - 1]]
               IN  IF Len(before) = n - 1 /\ next \in DOMAIN after THEN Append(before, next) ELSE before
    IN  read[MaxHandle + 1]

Nodes == {h \in DOMAIN store : Holds(h, "node")}

\* The nodes of bucket b.
Chain(b) == ReadFrom(mem.buckets[b], [h \in Nodes |-> store[h].nextBlock])
IsBroken(b) == LET chain == Chain(b)
               IN  IF chain = <<>> THEN mem.buckets[b] # Nil ELSE store[Last(chain)].nextBlock # Nil

KeyAt(h) == IF Holds(store[h].key, "data") THEN store[store[h].key].val ELSE Torn
ValueAt(h) == IF Holds(store[h].value, "data") THEN store[store[h].value].val ELSE Torn

\* Mutant: keys are not compared, the first node of the bucket is taken.
PositionIn_First(chain, k) == IF chain = <<>> THEN 0 ELSE 1

\* The first node of the chain with key k, or 0.
PositionIn(chain, k) == SelectInSeq(chain, LAMBDA h : KeyAt(h) = k)

find(k) == LET chain == Chain(Hash[k])
               i == PositionIn(chain, k)
           IN  IF i = 0 THEN None ELSE ValueAt(chain[i])

\* The node an iterator reads after the one at h: the next of the chain, else
\* the first of the next bucket that has one.
NextOf(h) ==
    LET later == {b \in Buckets : b > Hash[KeyAt(h)] /\ mem.buckets[b] # Nil}
    IN  IF store[h].nextBlock # Nil THEN store[h].nextBlock
        ELSE IF later = {} THEN Nil ELSE mem.buckets[Min(later)]

\* The nodes that begin() and ++ read one after the other; begin() shows
\* nothing when the count is 0.
Walk == LET used == {b \in Buckets : mem.buckets[b] # Nil}
        IN  IF mem.size = 0 \/ used = {} THEN <<>>
            ELSE ReadFrom(mem.buckets[Min(used)], [h \in {n \in Nodes : KeyAt(n) \in Keys} |-> NextOf(h)])

-----------------------------------------------------------------------------
(***************************************************************************)
(* The calls.                                                              *)
(***************************************************************************)

Idle == mem.open /\ todo = <<>>

\* A call that is about key k, which may be found with v from now on.
Begin(k, v) ==
    /\ calls < MaxCall
    /\ calls' = calls + 1
    /\ call' = [key |-> k, value |-> v]
    /\ allowed' = [allowed EXCEPT ![k] = @ \cup {v}]
    /\ UNCHANGED <<store, dangled, miscounted, crashes>>

WriteBuckets(buckets) == write(mem.bucket, [kind |-> "buckets", first |-> buckets])
WriteInfo(size) == write(FIRSTFILESTORAGEBLOCKHANDLE, Info([mem EXCEPT !.size = size]))

\* add of a key that is there: its value gets a new block.
Update(k, v, h) ==
    LET used == DOMAIN store \ {store[h].value}
        new == Unused(used, 1)
    IN  /\ HasRoom(used, 1)
        /\ todo' = <<Free(store[h].value)>>
                   \o Exposed(<<allocate(new)>> \o WriteData(new, v)
                              \o <<write(h, [store[h] EXCEPT !.value = new])>>)
        /\ UNCHANGED mem

\* Mutant: the node is linked before it is written.
Linked_First(fill, link) == <<link>> \o fill

\* A node is written before anything leads to it.
Linked(fill, link) == fill \o <<link>>

\* add of a new key: at the end of its chain.
Insert(k, v, chain) ==
    LET n == Unused(DOMAIN store, 1)
        key == Unused(DOMAIN store, 2)
        value == Unused(DOMAIN store, 3)
        buckets == IF chain = <<>> THEN [mem.buckets EXCEPT ![Hash[k]] = n] ELSE mem.buckets
        link == IF chain = <<>> THEN WriteBuckets(buckets)
                ELSE write(Last(chain), [store[Last(chain)] EXCEPT !.nextBlock = n])
    IN  /\ HasRoom(DOMAIN store, 3)
        /\ todo' = Linked(<<allocate(n), allocate(key)>> \o WriteData(key, k)
                          \o <<allocate(value)>> \o WriteData(value, v)
                          \o <<write(n, NodeOf(key, value, Nil))>>, link)
                   \o Uncounted(<<WriteInfo(mem.size + 1)>>)
        /\ mem' = [mem EXCEPT !.buckets = buckets, !.size = @ + 1]

\* A chain that cannot be read to its end and does not hold the key: add fails.
add(k, v) ==
    LET chain == Chain(Hash[k])
        i == PositionIn(chain, k)
    IN  /\ Idle
        /\ i # 0 \/ ~IsBroken(Hash[k])
        /\ Begin(k, v)
        /\ IF i # 0 THEN Update(k, v, chain[i]) ELSE Insert(k, v, chain)

\* Mutant: what follows the node is lost with it.
Unlinked_CutsChain(h) == Nil

\* What takes the place of the node at h.
Unlinked(h) == store[h].nextBlock

\* del: a node behind another is unlinked and then freed, the first one of a
\* chain is freed and then unlinked.
del(k) ==
    LET chain == Chain(Hash[k])
        i == PositionIn(chain, k)
        frees == <<Free(store[chain[i]].key), Free(store[chain[i]].value), Free(chain[i])>>
        buckets == [mem.buckets EXCEPT ![Hash[k]] = Unlinked(chain[i])]
        count == WriteInfo(mem.size - 1)
    IN  /\ Idle
        /\ i # 0
        /\ Begin(k, None)
        /\ IF i > 1
           THEN /\ todo' = <<write(chain[i - 1], [store[chain[i - 1]] EXCEPT !.nextBlock = Unlinked(chain[i])])>>
                           \o Uncounted(frees \o <<count>>)
                /\ mem' = [mem EXCEPT !.size = @ - 1]
           ELSE /\ todo' = <<frees[1]>> \o Exposed(Tail(frees) \o <<WriteBuckets(buckets)>>)
                           \o Uncounted(<<count>>)
                /\ mem' = [mem EXCEPT !.buckets = buckets, !.size = @ - 1]

\* LoadMap, and CreateMap when there is no map in the file.
Open ==
    LET info == store[FIRSTFILESTORAGEBLOCKHANDLE]
        bucket == FIRSTFILESTORAGEBLOCKHANDLE + 1
        new == [open |-> TRUE, bucket |-> bucket, size |-> 0, buckets |-> [b \in Buckets |-> Nil]]
    IN  /\ mem = Closed
        /\ IF Holds(FIRSTFILESTORAGEBLOCKHANDLE, "info") /\ Holds(info.bucket, "buckets")
           THEN /\ mem' = [open |-> TRUE, bucket |-> info.bucket, size |-> info.size,
                           buckets |-> store[info.bucket].first]
                /\ UNCHANGED <<todo, allowed>>
           ELSE /\ mem' = new
                /\ todo' = <<clearFile, allocate(FIRSTFILESTORAGEBLOCKHANDLE), allocate(bucket),
                             write(bucket, [kind |-> "buckets", first |-> new.buckets]),
                             write(FIRSTFILESTORAGEBLOCKHANDLE, Info(new))>>
                /\ UNCHANGED allowed
        /\ UNCHANGED <<store, call, dangled, miscounted, crashes, calls>>

\* The next operation on the storage; with the last one the call is done.
Step ==
    /\ todo # <<>>
    /\ store' = Applied(store, Head(todo))
    /\ todo' = Tail(todo)
    /\ IF Tail(todo) = <<>> /\ call # NoCall
       THEN allowed' = [allowed EXCEPT ![call.key] = {call.value}] /\ call' = NoCall
       ELSE UNCHANGED <<allowed, call>>
    /\ UNCHANGED <<mem, dangled, miscounted, crashes, calls>>

\* Killed inside the next operation the storage may be torn: allocate may split a
\* block, or write the text and the head of a file made anew, and each is two
\* writes; and what Open reads before clearFile makes an empty file anew.
MayTear == todo # <<>> /\ Head(todo).op \in {"allocate", "clear"}

\* The process ends, in order when no call is in progress, or is killed, before
\* the next operation or inside it.
Crash ==
    /\ mem.open
    /\ crashes < MaxCrash
    /\ crashes' = crashes + 1
    /\ mem' = Closed
    /\ todo' = <<>>
    /\ call' = NoCall
    /\ \/ dangled' = (dangled \/ (todo # <<>> /\ Head(todo).exposed))
       \/ MayTear /\ dangled' = TRUE
    /\ miscounted' = (miscounted \/ (todo # <<>> /\ Head(todo).uncounted))
    /\ UNCHANGED <<store, allowed, calls>>

\* After the file was left leading to a freed block, or torn, nothing is claimed.
Next ==
    /\ ~dangled
    /\ \/ \E k \in Keys, v \in Values : add(k, v)
       \/ \E k \in Keys : del(k)
       \/ Open
       \/ Step
       \/ Crash

Spec == Init /\ [][Next]_vars

-----------------------------------------------------------------------------
(***************************************************************************)
(* Properties.                                                             *)
(***************************************************************************)

TypeOK ==
    /\ DOMAIN store \subseteq Handles
    /\ mem = Closed \/ (/\ mem.bucket \in Handles
                        /\ mem.buckets \in [Buckets -> Handles \cup {Nil}]
                        /\ mem.size \in -MaxCrash .. Cardinality(Keys) + MaxCrash)
    /\ \A i \in DOMAIN todo : todo[i].h \in Handles \cup {Nil}
    /\ call \in [key : Keys \cup {None}, value : Values \cup {None}]
    /\ \A k \in Keys : allowed[k] \subseteq Values \cup {None} /\ allowed[k] # {}
    /\ crashes \in 0 .. MaxCrash /\ calls \in 0 .. MaxCall

Usable == Idle /\ ~dangled

\* Whatever was added last is found, with its value and whole, and what was
\* deleted is not; a call that was killed has happened or has not.  That holds
\* through restarts and through being killed between any two operations on the
\* storage, and inside all but allocate (whose split is two writes), except where
\* the file leads to a freed block: between the free and the rewrite of the
\* reference in an update, and in the deletion of a chain's first entry.
KeptIsFound == Usable => \A k \in Keys : find(k) \in allowed[k]

\* In the same states the chains are sound: each ends, each node is in its
\* key's bucket, no key is twice in the map, and no block has two uses, so that
\* no call frees what another entry needs.
ChainsSound ==
    Usable =>
        LET nodes == UNION {ToSet(Chain(b)) : b \in Buckets}
        IN  /\ \A b \in Buckets :
                 /\ ~IsBroken(b)
                 /\ \A h \in ToSet(Chain(b)) : KeyAt(h) \in Keys /\ Hash[KeyAt(h)] = b
            /\ Cardinality({KeyAt(h) : h \in nodes}) = Cardinality(nodes)
            /\ Cardinality(nodes \cup {store[h].key : h \in nodes} \cup {store[h].value : h \in nodes}
                           \cup {FIRSTFILESTORAGEBLOCKHANDLE, mem.bucket}) = 3 * Cardinality(nodes) + 2

\* An iterator reads every entry once, and size() is their number, unless the
\* process was killed between linking or unlinking an entry and counting it.
IterationComplete ==
    Usable /\ ~miscounted =>
        /\ mem.size = Cardinality({k \in Keys : find(k) # None})
        /\ Len(Walk) = mem.size
        /\ {KeyAt(h) : h \in ToSet(Walk)} = {k \in Keys : find(k) # None}
=============================================================================
