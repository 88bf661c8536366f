-------------------------- MODULE FileHashMapProofs -------------------------
(***************************************************************************)
(* The hash map in a file keeps what was added, through restarts and kills *)
(* at any moment but those the model excepts (where the file leads to a    *)
(* freed block, and inside an allocate), for any keys and buckets.         *)
(***************************************************************************)
EXTENDS FileHashMap, FiniteSetTheorems, SequenceTheorems, WellFoundedInduction, TLAPS

\* What is assumed of the constants: every key has a bucket, and none is None.
MapBounds ==
    /\ bucketSize \in Nat /\ MaxHandle \in Nat
    /\ Hash \in [Keys -> Buckets]
    /\ None \notin Keys \cup Values

-----------------------------------------------------------------------------
(* The map in a file.  N are its nodes, ch the chains they form, m the     *)
(* head and the buckets as the object has them in memory.                  *)

Memories == [open : {TRUE}, bucket : Nat \ {0}, size : Int, buckets : [Buckets -> Handles \cup {Nil}]]

KeyOf(s, h) == s[s[h].key].val
ValueOf(s, h) == s[s[h].value].val
Uses(s, h) == {h, s[h].key, s[h].value}

\* The node h and its two blocks are written.
EntryAt(s, h) ==
    /\ h \in DOMAIN s /\ s[h] = NodeOf(s[h].key, s[h].value, s[h].nextBlock)
    /\ s[h].key \in DOMAIN s /\ s[s[h].key] = Data(KeyOf(s, h)) /\ KeyOf(s, h) \in Keys
    /\ s[h].value \in DOMAIN s /\ s[s[h].value] = Data(ValueOf(s, h)) /\ ValueOf(s, h) \in Values

\* No block of the node has another use in the map's head or in the node.
Alone(s, bucket, h) ==
    /\ h # s[h].key /\ h # s[h].value /\ s[h].key # s[h].value
    /\ FIRSTFILESTORAGEBLOCKHANDLE \notin Uses(s, h) /\ bucket \notin Uses(s, h)

Entries(s, bucket, N) ==
    /\ N \subseteq Handles
    /\ \A h \in N : EntryAt(s, h) /\ Alone(s, bucket, h)
    /\ \A g, h \in N : g # h => KeyOf(s, g) # KeyOf(s, h) /\ Uses(s, g) \cap Uses(s, h) = {}

\* The nodes q, from the first on, are linked in this order.
Strand(s, first, q) ==
    /\ first = (IF q = <<>> THEN Nil ELSE q[1])
    /\ \A i \in 1 .. Len(q) : s[q[i]].nextBlock = IF i = Len(q) THEN Nil ELSE q[i + 1]
    /\ \A i, j \in 1 .. Len(q) : q[i] = q[j] => i = j

Chains(s, first, N, ch) ==
    /\ ch \in [Buckets -> Seq(N)]
    /\ \A b \in Buckets : Strand(s, first[b], ch[b])
    /\ \A b \in Buckets : \A i \in 1 .. Len(ch[b]) : Hash[KeyOf(s, ch[b][i])] = b
    /\ \A h \in N : \E i \in 1 .. Len(ch[Hash[KeyOf(s, h)]]) : ch[Hash[KeyOf(s, h)]][i] = h

Headed(s, m) ==
    /\ DOMAIN s \subseteq Nat \ {0}
    /\ FIRSTFILESTORAGEBLOCKHANDLE # m.bucket
    /\ FIRSTFILESTORAGEBLOCKHANDLE \in DOMAIN s /\ s[FIRSTFILESTORAGEBLOCKHANDLE] = Info(m)
    /\ m.bucket \in DOMAIN s /\ s[m.bucket] = [kind |-> "buckets", first |-> m.buckets]

MapIn(s, m, N, ch) == Headed(s, m) /\ Entries(s, m.bucket, N) /\ Chains(s, m.buckets, N, ch)

\* What is in the map is allowed, and what is not may be missing.
Fits(s, N, al) ==
    /\ \A h \in N : ValueOf(s, h) \in al[KeyOf(s, h)]
    /\ \A k \in Keys : (\A h \in N : KeyOf(s, h) # k) => None \in al[k]

Kept(s, m, al, mis) ==
    \E N, ch : MapIn(s, m, N, ch) /\ Fits(s, N, al) /\ (mis \/ m.size = Cardinality(N))

-----------------------------------------------------------------------------
(* Records.                                                                *)

LEMMA NodeIs ==
    ASSUME NEW key, NEW value, NEW next
    PROVE  /\ NodeOf(key, value, next).kind = "node" /\ NodeOf(key, value, next).key = key
           /\ NodeOf(key, value, next).value = value /\ NodeOf(key, value, next).nextBlock = next
  BY DEF NodeOf

\* The node x with another value, with another node behind it; the function f
\* changed at b; the chain of b with one node more; q, and the chain of b, without
\* the i-th node.
GivenValue(x, value) == [x EXCEPT !.value = value]
LinkedTo(x, next) == [x EXCEPT !.nextBlock = next]
Put(f, b, x) == [f EXCEPT ![b] = x]
Longer(ch, b, n) == Put(ch, b, Append(ch[b], n))
Without(q, i) == [j \in 1 .. Len(q) - 1 |-> IF j < i THEN q[j] ELSE q[j + 1]]
Shorter(ch, b, i) == Put(ch, b, Without(ch[b], i))

LEMMA NodeSet ==
    ASSUME NEW x, NEW key, NEW value, NEW next, x = NodeOf(key, value, next), NEW y
    PROVE  GivenValue(x, y) = NodeOf(key, y, next) /\ LinkedTo(x, y) = NodeOf(key, value, y)
  BY DEF NodeOf, LinkedTo, GivenValue

LEMMA DataIs == ASSUME NEW v PROVE Data(v).kind = "data" /\ Data(v).val = v
  BY DEF Data

LEMMA MemIs ==
    ASSUME NEW m \in Memories
    PROVE  m.open = TRUE /\ m.bucket \in Nat \ {0} /\ m.size \in Int /\ m.buckets \in [Buckets -> Handles \cup {Nil}]
  BY DEF Memories

\* The head with another count, or with other buckets.
Counted(m, size) == [m EXCEPT !.size = size]
Rebucketed(m, buckets) == [m EXCEPT !.buckets = buckets]
Changed(m, buckets, size) == [m EXCEPT !.buckets = buckets, !.size = size]

LEMMA MemSet ==
    ASSUME NEW m \in Memories, NEW size \in Int, NEW buckets \in [Buckets -> Handles \cup {Nil}]
    PROVE  /\ Counted(m, size) \in Memories /\ Counted(m, size).bucket = m.bucket
           /\ Counted(m, size).size = size /\ Counted(m, size).buckets = m.buckets
           /\ Rebucketed(m, buckets) \in Memories /\ Rebucketed(m, buckets).bucket = m.bucket
           /\ Rebucketed(m, buckets).size = m.size /\ Rebucketed(m, buckets).buckets = buckets
           /\ Changed(m, buckets, size) \in Memories /\ Changed(m, buckets, size).bucket = m.bucket
           /\ Changed(m, buckets, size).size = size /\ Changed(m, buckets, size).buckets = buckets
  BY DEF Memories, Counted, Rebucketed, Changed

-----------------------------------------------------------------------------
(* What a change of the file leaves of the map.                            *)

\* The entry of h is in t as in s, but for what it leads to.
Stays(s, t, h) ==
    /\ h \in DOMAIN t /\ t[h] = NodeOf(s[h].key, s[h].value, t[h].nextBlock)
    /\ s[h].key \in DOMAIN t /\ t[s[h].key] = s[s[h].key]
    /\ s[h].value \in DOMAIN t /\ t[s[h].value] = s[s[h].value]

LEMMA EntryStays ==
    ASSUME NEW s, NEW t, NEW h, EntryAt(s, h), Stays(s, t, h)
    PROVE  /\ EntryAt(t, h) /\ KeyOf(t, h) = KeyOf(s, h) /\ ValueOf(t, h) = ValueOf(s, h)
           /\ t[h].key = s[h].key /\ t[h].value = s[h].value /\ Uses(t, h) = Uses(s, h)
<1>1. t[h].key = s[h].key /\ t[h].value = s[h].value
  BY NodeIs DEF Stays
<1> QED BY <1>1 DEF Stays, EntryAt, KeyOf, ValueOf, Uses

LEMMA EntriesStay ==
    ASSUME NEW s, NEW t, NEW bucket, NEW N, Entries(s, bucket, N), \A h \in N : Stays(s, t, h)
    PROVE  Entries(t, bucket, N)
<1>1. ASSUME NEW h \in N
      PROVE  /\ EntryAt(t, h) /\ KeyOf(t, h) = KeyOf(s, h) /\ t[h].key = s[h].key /\ t[h].value = s[h].value
             /\ Uses(t, h) = Uses(s, h) /\ Alone(t, bucket, h)
  <2>1. EntryAt(s, h) /\ Alone(s, bucket, h) /\ Stays(s, t, h)
    BY DEF Entries
  <2> QED BY <2>1, EntryStays DEF Alone
<1> QED BY <1>1 DEF Entries

LEMMA EntriesLess ==
    ASSUME NEW s, NEW bucket, NEW N, Entries(s, bucket, N), NEW M, M \subseteq N
    PROVE  Entries(s, bucket, M)
  BY DEF Entries

LEMMA EntriesMore ==
    ASSUME NEW s, NEW bucket, NEW N, Entries(s, bucket, N), NEW n \in Handles,
           EntryAt(s, n), Alone(s, bucket, n),
           \A h \in N : KeyOf(s, h) # KeyOf(s, n) /\ Uses(s, h) \cap Uses(s, n) = {}
    PROVE  Entries(s, bucket, N \cup {n})
  BY DEF Entries

LEMMA FitsStays ==
    ASSUME NEW s, NEW t, NEW bucket, NEW N, Entries(s, bucket, N), NEW al, Fits(s, N, al), \A h \in N : Stays(s, t, h)
    PROVE  Fits(t, N, al)
<1>1. ASSUME NEW h \in N PROVE KeyOf(t, h) = KeyOf(s, h) /\ ValueOf(t, h) = ValueOf(s, h)
  BY EntryStays DEF Entries
<1> QED BY <1>1 DEF Fits

LEMMA ChainsStay ==
    ASSUME NEW s, NEW t, NEW N, NEW ch, NEW first, Chains(s, first, N, ch),
           \A h \in N : KeyOf(t, h) = KeyOf(s, h) /\ t[h].nextBlock = s[h].nextBlock
    PROVE  Chains(t, first, N, ch)
<1>1. ASSUME NEW h \in N PROVE KeyOf(t, h) = KeyOf(s, h)
  OBVIOUS
<1>2. ASSUME NEW b \in Buckets, NEW i \in 1 .. Len(ch[b]) PROVE ch[b][i] \in N
  BY DEF Chains
<1>3. ASSUME NEW b \in Buckets PROVE Strand(t, first[b], ch[b])
  <2>1. Strand(s, first[b], ch[b])
    BY DEF Chains
  <2> QED BY <1>2, <2>1 DEF Strand
<1>4. ASSUME NEW b \in Buckets, NEW i \in 1 .. Len(ch[b]) PROVE Hash[KeyOf(t, ch[b][i])] = b
  BY <1>1, <1>2 DEF Chains
<1>5. ASSUME NEW h \in N PROVE \E i \in 1 .. Len(ch[Hash[KeyOf(t, h)]]) : ch[Hash[KeyOf(t, h)]][i] = h
  BY <1>1 DEF Chains
<1> QED BY <1>3, <1>4, <1>5 DEF Chains

\* A block that is as it was.
Same(s, t, x) == x \in DOMAIN t /\ t[x] = s[x]

LEMMA SameStays ==
    ASSUME NEW s, NEW t, NEW h, EntryAt(s, h), \A x \in Uses(s, h) : Same(s, t, x)
    PROVE  Stays(s, t, h) /\ t[h].nextBlock = s[h].nextBlock
  BY DEF Uses, Same, Stays, EntryAt

\* Blocks that have no use in the map may change.
LEMMA MapStays ==
    ASSUME NEW s, NEW t, NEW m, NEW N, NEW ch, MapIn(s, m, N, ch), DOMAIN t \subseteq Nat \ {0},
           Same(s, t, FIRSTFILESTORAGEBLOCKHANDLE), Same(s, t, m.bucket),
           \A h \in N : \A x \in Uses(s, h) : Same(s, t, x)
    PROVE  /\ MapIn(t, m, N, ch)
           /\ \A al : Fits(s, N, al) => Fits(t, N, al)
<1>1. Headed(t, m)
  BY DEF MapIn, Headed, Same
<1>2. ASSUME NEW h \in N PROVE Stays(s, t, h) /\ t[h].nextBlock = s[h].nextBlock
  BY SameStays DEF MapIn, Entries
<1>3. Entries(s, m.bucket, N) /\ Chains(s, m.buckets, N, ch)
  BY DEF MapIn
<1>4. Entries(t, m.bucket, N)
  BY <1>2, <1>3, EntriesStay
<1>5. Chains(t, m.buckets, N, ch)
  <2>1. \A h \in N : KeyOf(t, h) = KeyOf(s, h)
    BY <1>2, <1>3, EntryStays DEF Entries
  <2> QED BY <1>2, <1>3, <2>1, ChainsStay
<1>6. ASSUME NEW al, Fits(s, N, al) PROVE Fits(t, N, al)
  BY <1>2, <1>3, <1>6, FitsStays
<1> QED BY <1>1, <1>4, <1>5, <1>6 DEF MapIn

LEMMA KeptStays ==
    ASSUME NEW s, NEW t, NEW m, NEW al, NEW mis, Kept(s, m, al, mis), DOMAIN t \subseteq Nat \ {0},
           \A x \in DOMAIN s : Same(s, t, x)
    PROVE  Kept(t, m, al, mis)
<1>1. PICK N, ch : MapIn(s, m, N, ch) /\ Fits(s, N, al) /\ (mis \/ m.size = Cardinality(N))
  BY DEF Kept
<1>2. Same(s, t, FIRSTFILESTORAGEBLOCKHANDLE) /\ Same(s, t, m.bucket)
  BY <1>1 DEF MapIn, Headed
<1>3. ASSUME NEW h \in N, NEW x \in Uses(s, h) PROVE Same(s, t, x)
  BY <1>1, <1>3 DEF MapIn, Entries, EntryAt, Uses
<1> QED BY <1>1, <1>2, <1>3, MapStays DEF Kept

-----------------------------------------------------------------------------
(* Links.                                                                  *)

LEMMA StrandAdd ==
    ASSUME NEW s, NEW t, NEW N, NEW q \in Seq(N), NEW first, Strand(s, first, q), NEW n, n \notin N,
           t[n].nextBlock = Nil,
           \A i \in 1 .. Len(q) : t[q[i]].nextBlock = IF i = Len(q) THEN n ELSE s[q[i]].nextBlock
    PROVE  Strand(t, IF q = <<>> THEN n ELSE first, Append(q, n))
<1> DEFINE r == Append(q, n)
           L == Len(q)
<1>1. L \in Nat /\ Len(r) = L + 1 /\ r[L + 1] = n /\ \A i \in 1 .. L : r[i] = q[i] /\ q[i] \in N
  OBVIOUS
<1>2. q = <<>> <=> L = 0
  OBVIOUS
<1>3. r # <<>> /\ r[1] = IF q = <<>> THEN n ELSE first
  BY <1>1, <1>2 DEF Strand
<1> HIDE DEF r, L
<1>4. ASSUME NEW i \in 1 .. L + 1 PROVE t[r[i]].nextBlock = IF i = L + 1 THEN Nil ELSE r[i + 1]
  <2>1. CASE i = L + 1
    BY <1>1, <2>1
  <2>2. CASE i = L
    BY <1>1, <2>2 DEF L
  <2>3. CASE i < L
    <3>1. i \in 1 .. L /\ i # L /\ i + 1 \in 1 .. L
      BY <1>1, <2>3
    <3>2. t[q[i]].nextBlock = q[i + 1]
      BY <3>1 DEF Strand, L
    <3> QED BY <1>1, <3>1, <3>2
  <2> QED BY <1>1, <2>1, <2>2, <2>3
<1>5. ASSUME NEW i \in 1 .. L + 1, NEW j \in 1 .. L + 1, r[i] = r[j] PROVE i = j
  <2>1. CASE i = L + 1 \/ j = L + 1
    BY <1>1, <1>5, <2>1
  <2>2. CASE i \in 1 .. L /\ j \in 1 .. L
    BY <1>1, <1>5, <2>2 DEF Strand, L
  <2> QED BY <1>1, <2>1, <2>2
<1> QED BY <1>1, <1>3, <1>4, <1>5 DEF Strand, r

LEMMA WithoutIs ==
    ASSUME NEW N, NEW q \in Seq(N), NEW i \in 1 .. Len(q)
    PROVE  /\ Without(q, i) \in Seq(N) /\ Len(Without(q, i)) = Len(q) - 1
           /\ \A j \in 1 .. Len(q) - 1 : Without(q, i)[j] = (IF j < i THEN q[j] ELSE q[j + 1])
<1>1. Len(q) - 1 \in Nat /\ Len(q) \in Nat
  OBVIOUS
<1>2. ASSUME NEW j \in 1 .. Len(q) - 1 PROVE q[j] \in N /\ q[j + 1] \in N
  <2>1. j \in 1 .. Len(q) /\ j + 1 \in 1 .. Len(q)
    BY <1>1
  <2> QED BY <2>1
<1>3. Without(q, i) \in [1 .. Len(q) - 1 -> N]
  BY <1>2 DEF Without
<1> QED BY <1>1, <1>3 DEF Without

LEMMA StrandDrop ==
    ASSUME NEW s, NEW t, NEW N, NEW q \in Seq(N), NEW first, Strand(s, first, q), NEW i \in 1 .. Len(q),
           \A j \in 1 .. Len(q) : j # i =>
              t[q[j]].nextBlock = IF j = i - 1 THEN s[q[i]].nextBlock ELSE s[q[j]].nextBlock
    PROVE  Strand(t, IF i = 1 THEN s[q[i]].nextBlock ELSE first, Without(q, i))
<1> DEFINE r == Without(q, i)
           L == Len(q)
<1>1. L \in Nat /\ L >= 1 /\ i \in Nat /\ i >= 1 /\ i <= L /\ r \in Seq(N) /\ Len(r) = L - 1
      /\ \A j \in 1 .. L - 1 : r[j] = IF j < i THEN q[j] ELSE q[j + 1]
  BY WithoutIs
<1>2. (r = <<>> <=> L = 1) /\ q # <<>>
  BY <1>1
<1> HIDE DEF r, L
<1>3. \A j \in 1 .. L : s[q[j]].nextBlock = IF j = L THEN Nil ELSE q[j + 1]
  BY DEF Strand, L
<1>4. (IF i = 1 THEN s[q[i]].nextBlock ELSE first) = IF r = <<>> THEN Nil ELSE r[1]
  <2>1. CASE i = 1
    BY <1>1, <1>2, <1>3, <2>1
  <2>2. CASE i # 1
    <3>1. first = q[1]
      BY <1>2 DEF Strand
    <3>2. r # <<>> /\ r[1] = q[1]
      BY <1>1, <1>2, <2>2
    <3> QED BY <2>2, <3>1, <3>2
  <2> QED BY <2>1, <2>2
<1>5. ASSUME NEW j \in 1 .. L - 1 PROVE t[r[j]].nextBlock = IF j = L - 1 THEN Nil ELSE r[j + 1]
  <2>1. CASE j < i - 1
    <3>1. j \in 1 .. L /\ j # i /\ j # i - 1 /\ j # L /\ j # L - 1 /\ j + 1 \in 1 .. L - 1 /\ j + 1 < i /\ j < i
      BY <1>1, <2>1
    <3>2. t[q[j]].nextBlock = q[j + 1]
      BY <1>3, <3>1 DEF L
    <3> QED BY <1>1, <3>1, <3>2
  <2>2. CASE j = i - 1
    <3>1. j \in 1 .. L /\ j # i /\ j < i /\ i \in 1 .. L
      BY <1>1, <2>2
    <3>2. t[q[j]].nextBlock = IF i = L THEN Nil ELSE q[i + 1]
      BY <1>3, <2>2, <3>1 DEF L
    <3>3. i # L => r[j + 1] = q[i + 1]
      <4>1. i # L => j + 1 \in 1 .. L - 1 /\ ~(j + 1 < i) /\ j + 1 = i
        BY <1>1, <2>2
      <4> QED BY <1>1, <4>1
    <3>4. r[j] = q[j] /\ (i = L <=> j = L - 1)
      BY <1>1, <2>2, <3>1
    <3> QED BY <3>2, <3>3, <3>4
  <2>3. CASE j >= i
    <3>1. j + 1 \in 1 .. L /\ j + 1 # i /\ j + 1 # i - 1 /\ ~(j < i) /\ (j + 1 = L <=> j = L - 1)
      BY <1>1, <2>3
    <3>2. t[q[j + 1]].nextBlock = IF j + 1 = L THEN Nil ELSE q[j + 1 + 1]
      BY <1>3, <3>1 DEF L
    <3>3. j + 1 # L => r[j + 1] = q[j + 1 + 1]
      <4>1. j + 1 # L => j + 1 \in 1 .. L - 1 /\ ~(j + 1 < i)
        BY <1>1, <2>3
      <4> QED BY <1>1, <4>1
    <3>4. r[j] = q[j + 1]
      BY <1>1, <3>1
    <3> QED BY <3>1, <3>2, <3>3, <3>4
  <2> QED BY <1>1, <2>1, <2>2, <2>3
<1>6. ASSUME NEW j \in 1 .. L - 1, NEW k \in 1 .. L - 1, r[j] = r[k] PROVE j = k
  <2> DEFINE from(x) == IF x < i THEN x ELSE x + 1
  <2>1. from(j) \in 1 .. L /\ from(k) \in 1 .. L /\ r[j] = q[from(j)] /\ r[k] = q[from(k)]
    BY <1>1
  <2> HIDE DEF from
  <2>2. from(j) = from(k)
    BY <1>6, <2>1 DEF Strand, L
  <2> QED BY <1>1, <2>2 DEF from
<1> QED BY <1>1, <1>4, <1>5, <1>6 DEF Strand, r

LEMMA ChainOf ==
    ASSUME NEW s, NEW first, NEW N, NEW ch, Chains(s, first, N, ch), NEW b \in Buckets
    PROVE  /\ ch[b] \in Seq(N) /\ Len(ch[b]) \in Nat /\ Strand(s, first[b], ch[b])
           /\ \A i \in 1 .. Len(ch[b]) : ch[b][i] \in N /\ Hash[KeyOf(s, ch[b][i])] = b
           /\ \A c \in Buckets : \A i \in 1 .. Len(ch[b]), j \in 1 .. Len(ch[c]) : ch[b][i] = ch[c][j] => b = c /\ i = j
<1>1. ch[b] \in Seq(N) /\ Strand(s, first[b], ch[b])
  BY DEF Chains
<1>2. \A c \in Buckets : \A j \in 1 .. Len(ch[c]) : Hash[KeyOf(s, ch[c][j])] = c
  BY DEF Chains
<1>3. ASSUME NEW c \in Buckets, NEW i \in 1 .. Len(ch[b]), NEW j \in 1 .. Len(ch[c]), ch[b][i] = ch[c][j]
      PROVE  b = c /\ i = j
  <2>1. b = c
    BY <1>2, <1>3
  <2> QED BY <1>1, <1>3, <2>1 DEF Strand
<1> QED BY <1>1, <1>2, <1>3

\* In t the nodes N are as in s, but the last of q leads to n.
Behind(s, t, N, q, n) ==
    \A h \in N : /\ Stays(s, t, h)
                 /\ t[h].nextBlock = IF q # <<>> /\ h = q[Len(q)] THEN n ELSE s[h].nextBlock

\* In t the nodes N but the i-th of q are as in s, and that one is passed by.
Passed(s, t, N, q, i) ==
    \A h \in N \ {q[i]} : /\ Stays(s, t, h)
                          /\ t[h].nextBlock = IF i > 1 /\ h = q[i - 1] THEN s[q[i]].nextBlock ELSE s[h].nextBlock

\* A node that is linked behind the last one of its chain.
LEMMA ChainsAdd ==
    ASSUME MapBounds, NEW s, NEW t, NEW bucket, NEW N, NEW ch, NEW first \in [Buckets -> Handles \cup {Nil}],
           Entries(s, bucket, N), Chains(s, first, N, ch),
           NEW n \in Handles, n \notin N, KeyOf(t, n) \in Keys, t[n].nextBlock = Nil,
           NEW b, b = Hash[KeyOf(t, n)], Behind(s, t, N, ch[b], n),
           NEW f, f = IF ch[b] = <<>> THEN Put(first, b, n) ELSE first
    PROVE  Chains(t, f, N \cup {n}, Longer(ch, b, n))
<1>0. \A h \in N : /\ Stays(s, t, h)
                   /\ t[h].nextBlock = IF ch[b] # <<>> /\ h = ch[b][Len(ch[b])] THEN n ELSE s[h].nextBlock
  BY DEF Behind
<1> DEFINE c == Longer(ch, b, n)
<1>1. b \in Buckets /\ ch \in [Buckets -> Seq(N)]
  BY DEF MapBounds, Chains
<1>2. /\ \A d \in Buckets : d # b => c[d] = ch[d] /\ f[d] = first[d]
      /\ c[b] = Append(ch[b], n) /\ f[b] = IF ch[b] = <<>> THEN n ELSE first[b]
      /\ c = [d \in Buckets |-> c[d]]
  BY <1>1 DEF Put, Longer
<1> HIDE DEF c
<1>3. \A h \in N : KeyOf(t, h) = KeyOf(s, h)
  BY <1>0, EntryStays DEF Entries
<1>4. ASSUME NEW d \in Buckets PROVE c[d] \in Seq(N \cup {n})
  <2>1. ch[d] \in Seq(N)
    BY <1>1
  <2>2. ch[d] \in Seq(N \cup {n}) /\ Append(ch[d], n) \in Seq(N \cup {n})
    BY <2>1
  <2> QED BY <1>2, <2>2
<1>5. c \in [Buckets -> Seq(N \cup {n})]
  BY <1>2, <1>4
<1>6. ASSUME NEW d \in Buckets PROVE Strand(t, f[d], c[d])
  <2>1. /\ ch[d] \in Seq(N) /\ Strand(s, first[d], ch[d]) /\ \A i \in 1 .. Len(ch[d]) : ch[d][i] \in N
    BY ChainOf
  <2>2. CASE d # b
    <3>1. ASSUME NEW i \in 1 .. Len(ch[d]) PROVE t[ch[d][i]].nextBlock = s[ch[d][i]].nextBlock
      <4>1. ch[b] # <<>> => Len(ch[b]) \in 1 .. Len(ch[b])
        BY <1>1
      <4>2. ch[b] # <<>> => ch[d][i] # ch[b][Len(ch[b])]
        BY <1>1, <2>2, <4>1, ChainOf
      <4> QED BY <1>0, <2>1, <4>2
    <3>2. Strand(t, first[d], ch[d])
      BY <2>1, <3>1 DEF Strand
    <3> QED BY <1>2, <2>2, <3>2
  <2>3. CASE d = b
    <3>1. ASSUME NEW i \in 1 .. Len(ch[b])
          PROVE  t[ch[b][i]].nextBlock = IF i = Len(ch[b]) THEN n ELSE s[ch[b][i]].nextBlock
      <4>1. ch[b] # <<>> /\ Len(ch[b]) \in 1 .. Len(ch[b]) /\ ch[b][i] \in N
        BY <2>1, <2>3
      <4>2. ch[b][i] = ch[b][Len(ch[b])] <=> i = Len(ch[b])
        BY <1>1, <4>1, ChainOf
      <4> QED BY <1>0, <4>1, <4>2
    <3>2. Strand(t, IF ch[b] = <<>> THEN n ELSE first[b], Append(ch[b], n))
      <4>1. ch[b] \in Seq(N) /\ Strand(s, first[b], ch[b])
        BY <2>1, <2>3
      <4> QED BY <3>1, <4>1, StrandAdd
    <3> QED BY <1>2, <2>3, <3>2
  <2> QED BY <2>2, <2>3
<1>7. ASSUME NEW d \in Buckets, NEW i \in 1 .. Len(c[d]) PROVE Hash[KeyOf(t, c[d][i])] = d
  <2>1. /\ ch[d] \in Seq(N)
        /\ \A j \in 1 .. Len(ch[d]) : ch[d][j] \in N /\ Hash[KeyOf(s, ch[d][j])] = d
    BY ChainOf
  <2>2. CASE d # b
    BY <1>2, <1>3, <2>1, <2>2
  <2>3. CASE d = b
    <3>1. i \in 1 .. Len(ch[b]) \/ i = Len(ch[b]) + 1
      BY <1>2, <2>1, <2>3
    <3>2. CASE i \in 1 .. Len(ch[b])
      <4>1. c[d][i] = ch[d][i] /\ i \in 1 .. Len(ch[d])
        BY <1>2, <2>1, <2>3, <3>2
      <4> QED BY <1>3, <2>1, <4>1
    <3>3. CASE i = Len(ch[b]) + 1
      <4>1. c[d][i] = n
        BY <1>2, <2>1, <2>3, <3>3
      <4> QED BY <2>3, <4>1
    <3> QED BY <3>1, <3>2, <3>3
  <2> QED BY <2>2, <2>3
<1>8. ASSUME NEW h \in N \cup {n}
      PROVE  \E i \in 1 .. Len(c[Hash[KeyOf(t, h)]]) : c[Hash[KeyOf(t, h)]][i] = h
  <2>1. CASE h = n
    <3>1. Len(ch[b]) + 1 \in 1 .. Len(c[b]) /\ c[b][Len(ch[b]) + 1] = n
      BY <1>1, <1>2
    <3> QED BY <2>1, <3>1
  <2>2. CASE h \in N
    <3> DEFINE d == Hash[KeyOf(t, h)]
    <3>1. d \in Buckets
      BY <1>3, <2>2 DEF MapBounds, Entries, EntryAt
    <3>2. PICK i \in 1 .. Len(ch[d]) : ch[d][i] = h
      BY <1>3, <2>2 DEF Chains
    <3>3. ch[d] \in Seq(N)
      BY <1>1, <3>1
    <3> HIDE DEF d
    <3>4. i \in 1 .. Len(c[d]) /\ c[d][i] = h
      <4>1. CASE d # b
        BY <1>2, <3>1, <3>2, <4>1
      <4>2. CASE d = b
        <5>1. c[d] = Append(ch[d], n)
          BY <1>2, <4>2
        <5> QED BY <3>2, <3>3, <5>1
      <4> QED BY <4>1, <4>2
    <3> QED BY <3>4 DEF d
  <2> QED BY <2>1, <2>2
<1> QED BY <1>5, <1>6, <1>7, <1>8 DEF Chains, c

\* A node that is left out.
LEMMA ChainsDrop ==
    ASSUME MapBounds, NEW s, NEW t, NEW bucket, NEW N, NEW ch, NEW first \in [Buckets -> Handles \cup {Nil}],
           Entries(s, bucket, N), Chains(s, first, N, ch),
           NEW b \in Buckets, NEW i \in 1 .. Len(ch[b]), Passed(s, t, N, ch[b], i),
           NEW f, f = IF i = 1 THEN Put(first, b, s[ch[b][i]].nextBlock) ELSE first
    PROVE  Chains(t, f, N \ {ch[b][i]}, Shorter(ch, b, i))
<1> DEFINE g == ch[b][i]
           c == Shorter(ch, b, i)
           M == N \ {g}
<1>0. \A h \in M : /\ Stays(s, t, h)
                   /\ t[h].nextBlock = IF i > 1 /\ h = ch[b][i - 1] THEN s[g].nextBlock ELSE s[h].nextBlock
  BY DEF Passed
<1>1. ch \in [Buckets -> Seq(N)]
  BY DEF Chains
<1>2. /\ \A d \in Buckets : d # b => c[d] = ch[d] /\ f[d] = first[d]
      /\ c[b] = Without(ch[b], i) /\ f[b] = IF i = 1 THEN s[g].nextBlock ELSE first[b]
      /\ c = [d \in Buckets |-> c[d]]
  BY <1>1 DEF Put, Shorter
<1>3. /\ ch[b] \in Seq(N) /\ Len(ch[b]) \in Nat /\ i \in Nat /\ i >= 1
      /\ Without(ch[b], i) \in Seq(N) /\ Len(Without(ch[b], i)) = Len(ch[b]) - 1
      /\ \A j \in 1 .. Len(ch[b]) - 1 : Without(ch[b], i)[j] = (IF j < i THEN ch[b][j] ELSE ch[b][j + 1])
  BY <1>1, WithoutIs
<1> HIDE DEF c
<1>4. \A h \in M : KeyOf(t, h) = KeyOf(s, h)
  BY <1>0, EntryStays DEF Entries
<1>5. ASSUME NEW d \in Buckets, NEW j \in 1 .. Len(c[d])
      PROVE  /\ c[d][j] \in M /\ Hash[KeyOf(s, c[d][j])] = d
  <2>1. \A k \in 1 .. Len(ch[d]) : ch[d][k] \in N /\ Hash[KeyOf(s, ch[d][k])] = d /\ (ch[d][k] = g => d = b /\ k = i)
    BY ChainOf
  <2> HIDE DEF g
  <2>2. CASE d # b
    <3>1. c[d] = ch[d]
      BY <1>2, <2>2
    <3>2. c[d][j] = ch[d][j] /\ j \in 1 .. Len(ch[d])
      BY <3>1
    <3> HIDE DEF M
    <3>3. ch[d][j] \in N /\ ch[d][j] # g /\ Hash[KeyOf(s, ch[d][j])] = d
      BY <2>1, <2>2, <3>2
    <3> QED BY <3>2, <3>3 DEF M
  <2>3. CASE d = b
    <3>1. j \in 1 .. Len(ch[b]) - 1 /\ c[d][j] = (IF j < i THEN ch[b][j] ELSE ch[b][j + 1])
      BY <1>2, <1>3, <2>3
    <3>2. j \in 1 .. Len(ch[b]) /\ j + 1 \in 1 .. Len(ch[b]) /\ (j < i => j # i) /\ (~(j < i) => j + 1 # i)
      BY <1>3, <3>1
    <3>3. PICK k \in 1 .. Len(ch[d]) : c[d][j] = ch[d][k] /\ k # i
      BY <2>3, <3>1, <3>2
    <3> HIDE DEF M
    <3>4. ch[d][k] \in N /\ ch[d][k] # g /\ Hash[KeyOf(s, ch[d][k])] = d
      BY <2>1, <3>3
    <3> QED BY <3>3, <3>4 DEF M
  <2> QED BY <2>2, <2>3
<1>6. ASSUME NEW d \in Buckets PROVE c[d] \in Seq(M)
  <2>1. c[d] \in Seq(N)
    BY <1>1, <1>2, <1>3
  <2> HIDE DEF M
  <2>2. \A j \in 1 .. Len(c[d]) : c[d][j] \in M
    BY <1>5
  <2> QED BY <2>1, <2>2
<1>7. c \in [Buckets -> Seq(M)]
  BY <1>2, <1>6
<1>8. ASSUME NEW d \in Buckets PROVE Strand(t, f[d], c[d])
  <2>1. ch[d] \in Seq(N) /\ Strand(s, first[d], ch[d]) /\ \A j \in 1 .. Len(ch[d]) : ch[d][j] \in N
    BY ChainOf
  <2>2. CASE d # b
    <3>1. ASSUME NEW j \in 1 .. Len(ch[d]) PROVE t[ch[d][j]].nextBlock = s[ch[d][j]].nextBlock
      <4>1. ch[d][j] # g
        BY <2>2, ChainOf
      <4>2. i > 1 => i - 1 \in 1 .. Len(ch[b])
        BY <1>3
      <4>3. i > 1 => ch[d][j] # ch[b][i - 1]
        BY <2>2, <4>2, ChainOf
      <4> QED BY <1>0, <2>1, <4>1, <4>3
    <3>2. Strand(t, first[d], ch[d])
      BY <2>1, <3>1 DEF Strand
    <3> QED BY <1>2, <2>2, <3>2
  <2>3. CASE d = b
    <3>1. ASSUME NEW j \in 1 .. Len(ch[b]), j # i
          PROVE  t[ch[b][j]].nextBlock = IF j = i - 1 THEN s[ch[b][i]].nextBlock ELSE s[ch[b][j]].nextBlock
      <4>1. ch[b][j] \in N \ {g}
        BY <2>1, <2>3, <3>1, ChainOf
      <4>2. i > 1 => i - 1 \in 1 .. Len(ch[b])
        BY <1>3
      <4>3. i > 1 => (ch[b][j] = ch[b][i - 1] <=> j = i - 1)
        BY <2>3, <4>2, ChainOf
      <4>4. j = i - 1 => i > 1
        BY <1>3
      <4> QED BY <1>0, <4>1, <4>3, <4>4
    <3>2. Strand(t, IF i = 1 THEN s[ch[b][i]].nextBlock ELSE first[b], Without(ch[b], i))
      BY <2>1, <2>3, <3>1, StrandDrop
    <3> QED BY <1>2, <2>3, <3>2
  <2> QED BY <2>2, <2>3
<1>9. ASSUME NEW d \in Buckets, NEW j \in 1 .. Len(c[d]) PROVE Hash[KeyOf(t, c[d][j])] = d
  BY <1>4, <1>5
<1>10. ASSUME NEW h \in M PROVE \E j \in 1 .. Len(c[Hash[KeyOf(t, h)]]) : c[Hash[KeyOf(t, h)]][j] = h
  <2> DEFINE d == Hash[KeyOf(t, h)]
  <2>1. d \in Buckets /\ h \in N /\ h # g
    BY <1>4 DEF MapBounds, Entries, EntryAt
  <2>2. PICK j \in 1 .. Len(ch[d]) : ch[d][j] = h
    BY <1>4 DEF Chains
  <2> HIDE DEF d
  <2>3. CASE d # b
    BY <1>2, <2>1, <2>2, <2>3 DEF d
  <2>4. CASE d = b
    <3>1. j \in 1 .. Len(ch[b]) /\ j # i
      BY <2>1, <2>2, <2>4
    <3> DEFINE k == IF j < i THEN j ELSE j - 1
    <3>2. k \in 1 .. Len(ch[b]) - 1 /\ (k < i => k = j) /\ (~(k < i) => k + 1 = j)
      BY <1>3, <3>1
    <3> HIDE DEF k
    <3>3. k \in 1 .. Len(c[b]) /\ c[b][k] = h
      BY <1>2, <1>3, <2>2, <2>4, <3>2
    <3> QED BY <2>4, <3>3 DEF d
  <2> QED BY <2>3, <2>4
<1> QED BY <1>7, <1>8, <1>9, <1>10 DEF Chains, c

-----------------------------------------------------------------------------
(* Reading.                                                                *)

\* The least member of a set of numbers.
LEMMA Least ==
    ASSUME NEW U, U \subseteq Nat, U # {}
    PROVE  \E x \in U : \A y \in U : x <= y
<1>1. PICK x \in U : \A y \in U : ~(<<y, x>> \in OpToRel(<, Nat))
  BY WFMin, NatLessThanWellFounded
<1>2. ASSUME NEW y \in U PROVE x <= y
  <2>1. ~(<<y, x>> \in {s \in Nat \X Nat : s[1] < s[2]})
    BY <1>1 DEF OpToRel
  <2> QED BY <2>1
<1> QED BY <1>2

UpTo(q, n) == [i \in 1 .. n |-> q[i]]

LEMMA UpToIs ==
    ASSUME NEW S, NEW q \in Seq(S), NEW n \in 0 .. Len(q)
    PROVE  /\ UpTo(q, n) \in Seq(S) /\ Len(UpTo(q, n)) = n
           /\ n = 0 => UpTo(q, n) = <<>>
           /\ n = Len(q) => UpTo(q, n) = q
           /\ n > 0 => UpTo(q, n)[n] = q[n] /\ UpTo(q, n) = Append(UpTo(q, n - 1), q[n])
<1>1. n \in Nat /\ Len(q) \in Nat /\ \A i \in 1 .. n : q[i] \in S
  OBVIOUS
<1>2. UpTo(q, n) \in Seq(S) /\ Len(UpTo(q, n)) = n
  BY <1>1 DEF UpTo
<1>3. n = 0 => UpTo(q, n) = <<>>
  BY <1>1, <1>2
<1>4. n = Len(q) => UpTo(q, n) = q
  BY DEF UpTo
<1>5. ASSUME n > 0 PROVE UpTo(q, n)[n] = q[n] /\ UpTo(q, n) = Append(UpTo(q, n - 1), q[n])
  <2>1. n - 1 \in Nat /\ \A i \in 1 .. n - 1 : q[i] \in S
    BY <1>1, <1>5
  <2>2. UpTo(q, n - 1) \in Seq(S) /\ Len(UpTo(q, n - 1)) = n - 1 /\ q[n] \in S
    BY <1>1, <1>5, <2>1 DEF UpTo
  <2>3. Append(UpTo(q, n - 1), q[n]) \in Seq(S) /\ Len(Append(UpTo(q, n - 1), q[n])) = n
    BY <1>1, <2>2
  <2>4. ASSUME NEW i \in 1 .. n PROVE UpTo(q, n)[i] = Append(UpTo(q, n - 1), q[n])[i]
    <3>1. UpTo(q, n)[i] = q[i]
      BY DEF UpTo
    <3>2. CASE i = n
      BY <2>2, <3>1, <3>2
    <3>3. CASE i # n
      <4>1. i \in 1 .. n - 1
        BY <1>1, <3>3
      <4>2. UpTo(q, n - 1)[i] = q[i]
        BY <4>1 DEF UpTo
      <4> QED BY <2>2, <3>1, <4>1, <4>2
    <3> QED BY <3>2, <3>3
  <2>5. UpTo(q, n) = Append(UpTo(q, n - 1), q[n])
    BY <1>2, <2>3, <2>4, SeqEqual
  <2> QED BY <1>1, <1>5, <2>5 DEF UpTo
<1> QED BY <1>2, <1>3, <1>4, <1>5

\* The function that ReadFrom defines, one step of it.
ReadOn(h, after, n, before) ==
    LET next == IF n = 1 THEN h ELSE after[before[n - 1]]
    IN  IF Len(before) = n - 1 /\ next \in DOMAIN after THEN Append(before, next) ELSE before
Reading(f, h, after) ==
    f = [n \in 0 .. MaxHandle + 1 |-> IF n = 0 THEN <<>> ELSE ReadOn(h, after, n, f[n - 1])]

LEMMA ReadingIs ==
    ASSUME MaxHandle \in Nat, NEW h, NEW after, NEW f, Reading(f, h, after),
           NEW q \in Seq(DOMAIN after), Len(q) <= MaxHandle + 1,
           q = <<>> => h \notin DOMAIN after, q # <<>> => h = q[1],
           \A i \in 1 .. Len(q) : IF i = Len(q) THEN after[q[i]] \notin DOMAIN after ELSE after[q[i]] = q[i + 1]
    PROVE  f[MaxHandle + 1] = q
<1> DEFINE L == Len(q)
           R(n) == UpTo(q, IF n <= L THEN n ELSE L)
           Bad == {n \in 0 .. MaxHandle + 1 : f[n] # R(n)}
<1>1. L \in Nat /\ (q = <<>> <=> L = 0)
  OBVIOUS
<1>2. f[0] = <<>> /\ \A n \in 1 .. MaxHandle + 1 : f[n] = ReadOn(h, after, n, f[n - 1])
  <2> DEFINE M == 0 .. MaxHandle + 1
             P == 1 .. MaxHandle + 1
  <2>1. 0 \in M /\ \A n \in P : n \in M /\ n # 0
    OBVIOUS
  <2>2. f = [n \in M |-> IF n = 0 THEN <<>> ELSE ReadOn(h, after, n, f[n - 1])]
    BY DEF Reading
  <2> HIDE DEF M, P
  <2>3. \A n \in M : f[n] = IF n = 0 THEN <<>> ELSE ReadOn(h, after, n, f[n - 1])
    BY ONLY <2>2
  <2>4. f[0] = <<>> /\ \A n \in P : f[n] = ReadOn(h, after, n, f[n - 1])
    BY ONLY <2>1, <2>3
  <2> QED BY <2>4 DEF P
<1>3. f[0] = R(0)
  <2>1. R(0) = UpTo(q, 0)
    BY <1>1
  <2>2. UpTo(q, 0) = <<>>
    BY <1>1, UpToIs
  <2> QED BY <1>2, <2>1, <2>2
<1>4. ASSUME NEW n \in 1 .. MaxHandle + 1, f[n - 1] = R(n - 1) PROVE f[n] = R(n)
  <2>1. f[n] = ReadOn(h, after, n, R(n - 1))
    BY <1>2, <1>4
  <2>2. CASE n <= L
    <3>1. R(n - 1) = UpTo(q, n - 1) /\ R(n) = UpTo(q, n) /\ n \in 0 .. L /\ n - 1 \in 0 .. L /\ n > 0
      BY <1>1, <2>2
    <3>2. /\ Len(UpTo(q, n - 1)) = n - 1 /\ UpTo(q, n) = Append(UpTo(q, n - 1), q[n])
          /\ n # 1 => UpTo(q, n - 1)[n - 1] = q[n - 1]
      BY <3>1, UpToIs
    <3>3. (IF n = 1 THEN h ELSE after[UpTo(q, n - 1)[n - 1]]) = q[n] /\ q[n] \in DOMAIN after
      <4>1. CASE n = 1
        BY <1>1, <2>2, <4>1
      <4>2. CASE n # 1
        <5>1. n - 1 \in 1 .. L /\ n - 1 # L /\ n - 1 + 1 = n /\ n \in 1 .. L
          BY <1>1, <2>2, <4>2
        <5>2. after[q[n - 1]] = q[n]
          BY <5>1
        <5> QED BY <3>2, <4>2, <5>1, <5>2
      <4> QED BY <4>1, <4>2
    <3> HIDE DEF R
    <3> QED BY <2>1, <3>1, <3>2, <3>3 DEF ReadOn
  <2>3. CASE n > L
    <3>1. R(n) = UpTo(q, L) /\ R(n - 1) = UpTo(q, L)
      BY <1>1, <2>3
    <3>2. UpTo(q, L) = q
      BY <1>1, UpToIs
    <3>3. ReadOn(h, after, n, q) = q
      <4>1. CASE L # n - 1
        BY <4>1 DEF ReadOn
      <4>2. CASE L = n - 1 /\ n = 1
        BY <1>1, <4>2 DEF ReadOn
      <4>3. CASE L = n - 1 /\ n # 1
        <5>1. after[q[n - 1]] \notin DOMAIN after
          BY <1>1, <4>3
        <5> QED BY <4>3, <5>1 DEF ReadOn
      <4> QED BY <4>1, <4>2, <4>3
    <3> QED BY <2>1, <3>1, <3>2, <3>3
  <2> QED BY <1>1, <2>2, <2>3
<1>5. Bad = {}
  <2> SUFFICES ASSUME Bad # {} PROVE FALSE
    OBVIOUS
  <2>1. Bad \subseteq Nat
    OBVIOUS
  <2>2. \A n \in Bad : n \in 1 .. MaxHandle + 1 /\ n - 1 \notin Bad => FALSE
    <3>1. ASSUME NEW n \in Bad, n \in 1 .. MaxHandle + 1, n - 1 \notin Bad PROVE FALSE
      <4>1. n - 1 \in 0 .. MaxHandle + 1
        BY <3>1
      <4>2. f[n - 1] = R(n - 1)
        BY <3>1, <4>1
      <4> QED BY <1>4, <3>1, <4>2
    <3> QED BY <3>1
  <2>3. 0 \notin Bad /\ \A n \in Bad : n \in 0 .. MaxHandle + 1
    BY <1>3
  <2> HIDE DEF Bad
  <2>4. PICK n \in Bad : \A m \in Bad : n <= m
    BY <2>1, Least
  <2>5. n \in 1 .. MaxHandle + 1
    BY <2>3
  <2>6. n - 1 \notin Bad
    BY <2>4, <2>5
  <2> QED BY <2>2, <2>4, <2>5, <2>6
<1>6. f[MaxHandle + 1] = R(MaxHandle + 1)
  BY <1>5
<1>7. R(MaxHandle + 1) = UpTo(q, L)
  BY <1>1
<1>8. UpTo(q, L) = q
  BY <1>1, UpToIs
<1> QED BY <1>6, <1>7, <1>8

LEMMA ReadingExists ==
    ASSUME MaxHandle \in Nat, NEW h, NEW after
    PROVE  \E f : Reading(f, h, after)
<1> DEFINE P(m) == \E f : f = [n \in 0 .. m |-> IF n = 0 THEN <<>> ELSE ReadOn(h, after, n, f[n - 1])]
           Bad == {m \in 0 .. MaxHandle + 1 : ~P(m)}
<1>1. P(0)
  <2> DEFINE f == [n \in 0 .. 0 |-> <<>>]
  <2>1. f = [n \in 0 .. 0 |-> IF n = 0 THEN <<>> ELSE ReadOn(h, after, n, f[n - 1])]
    OBVIOUS
  <2> QED BY <2>1
<1>2. ASSUME NEW m \in Nat, m > 0, P(m - 1) PROVE P(m)
  <2>1. PICK f : f = [n \in 0 .. m - 1 |-> IF n = 0 THEN <<>> ELSE ReadOn(h, after, n, f[n - 1])]
    BY <1>2
  <2> DEFINE g == [n \in 0 .. m |-> IF n = m THEN ReadOn(h, after, m, f[m - 1]) ELSE f[n]]
  <2>2. ASSUME NEW n \in 0 .. m
        PROVE  g[n] = IF n = 0 THEN <<>> ELSE ReadOn(h, after, n, g[n - 1])
    <3>1. CASE n = m
      BY <3>1, <1>2
    <3>2. CASE n # m
      BY <3>2, <2>1, <1>2
    <3> QED BY <3>1, <3>2
  <2>3. g = [n \in 0 .. m |-> g[n]]
    OBVIOUS
  <2>4. g = [n \in 0 .. m |-> IF n = 0 THEN <<>> ELSE ReadOn(h, after, n, g[n - 1])]
    <3> HIDE DEF g
    <3> QED BY <2>2, <2>3
  <2> QED BY <2>4
<1> HIDE DEF P
<1>3. Bad = {}
  <2> SUFFICES ASSUME Bad # {} PROVE FALSE
    OBVIOUS
  <2>1. PICK m \in Bad : \A j \in Bad : m <= j
    <3>1. Bad \subseteq Nat
      OBVIOUS
    <3> HIDE DEF Bad
    <3> QED BY <3>1, Least
  <2>2. m # 0
    BY <1>1
  <2>3. m - 1 \notin Bad /\ m - 1 \in 0 .. MaxHandle + 1
    BY <2>1, <2>2
  <2> QED BY <2>1, <2>2, <2>3, <1>2
<1>4. P(MaxHandle + 1)
  BY <1>3
<1> QED BY <1>4 DEF P, Reading

LEMMA ReadFromIs ==
    ASSUME MaxHandle \in Nat, NEW h, NEW after,
           NEW q \in Seq(DOMAIN after), Len(q) <= MaxHandle + 1,
           q = <<>> => h \notin DOMAIN after, q # <<>> => h = q[1],
           \A i \in 1 .. Len(q) : IF i = Len(q) THEN after[q[i]] \notin DOMAIN after ELSE after[q[i]] = q[i + 1]
    PROVE  ReadFrom(h, after) = q
<1> DEFINE f == CHOOSE g : Reading(g, h, after)
<1>1. Reading(f, h, after)
  BY ReadingExists
<1>2. ReadFrom(h, after) = f[MaxHandle + 1]
  BY DEF ReadFrom, Reading, ReadOn
<1> HIDE DEF f
<1> QED BY <1>1, <1>2, ReadingIs

\* A chain that has each node once is no longer than there are handles.
LEMMA NotLonger ==
    ASSUME MaxHandle \in Nat, NEW q \in Seq(Handles), \A i, j \in 1 .. Len(q) : q[i] = q[j] => i = j
    PROVE  Len(q) <= MaxHandle
<1>1. Len(q) \in Nat /\ q \in [1 .. Len(q) -> Handles]
  OBVIOUS
<1>2. /\ IsFiniteSet(1 .. Len(q)) /\ Cardinality(1 .. Len(q)) = Len(q)
      /\ IsFiniteSet(Handles) /\ Cardinality(Handles) = MaxHandle
  <2>1. /\ IsFiniteSet(1 .. Len(q)) /\ Cardinality(1 .. Len(q)) = IF 1 > Len(q) THEN 0 ELSE Len(q) - 1 + 1
        /\ IsFiniteSet(1 .. MaxHandle) /\ Cardinality(1 .. MaxHandle) = IF 1 > MaxHandle THEN 0 ELSE MaxHandle - 1 + 1
    BY <1>1, FS_Interval
  <2> QED BY <1>1, <2>1 DEF Handles
<1>3. CASE MaxHandle < Len(q)
  <2>1. \E x, y \in 1 .. Len(q) : x # y /\ q[x] = q[y]
    BY <1>1, <1>2, <1>3, FS_PigeonHole
  <2> QED BY <2>1
<1> QED BY <1>1, <1>3

\* The chains are read as they are.
LEMMA ChainIs ==
    ASSUME MapBounds, NEW N, NEW ch, MapIn(store, mem, N, ch), NEW b \in Buckets
    PROVE  Chain(b) = ch[b] /\ ~IsBroken(b)
<1> DEFINE q == ch[b]
           after == [h \in Nodes |-> store[h].nextBlock]
<1>1. /\ q \in Seq(N) /\ Len(q) \in Nat /\ Strand(store, mem.buckets[b], q)
      /\ \A i \in 1 .. Len(q) : q[i] \in N
  BY ChainOf DEF MapIn
<1>2. N \subseteq Nodes /\ N \subseteq Handles
  <2>1. ASSUME NEW h \in N PROVE h \in DOMAIN store /\ store[h].kind = "node"
    BY NodeIs DEF MapIn, Entries, EntryAt
  <2> QED BY <2>1 DEF Nodes, Holds, MapIn, Entries
<1>3. Nil \notin Nodes
  BY DEF Nodes, MapIn, Headed, Nil
<1> HIDE DEF q
<1>4. q \in Seq(Nodes) /\ q \in Seq(Handles)
  BY <1>1, <1>2
<1>5. Len(q) <= MaxHandle
  BY <1>1, <1>4, NotLonger DEF Strand, MapBounds
<1>6. Len(q) <= MaxHandle + 1 /\ MaxHandle \in Nat
  BY <1>1, <1>5 DEF MapBounds
<1>7. DOMAIN after = Nodes
  OBVIOUS
<1>8. (q = <<>> => mem.buckets[b] \notin Nodes) /\ (q # <<>> => mem.buckets[b] = q[1])
  BY <1>1, <1>3 DEF Strand
<1>9. ASSUME NEW i \in 1 .. Len(q)
      PROVE  IF i = Len(q) THEN after[q[i]] \notin Nodes ELSE after[q[i]] = q[i + 1]
  <2>1. q[i] \in Nodes
    BY <1>1, <1>2
  <2>2. after[q[i]] = IF i = Len(q) THEN Nil ELSE q[i + 1]
    BY <1>1, <2>1 DEF Strand
  <2> QED BY <1>3, <2>2
<1>10. ReadFrom(mem.buckets[b], after) = q
  <2> HIDE DEF after
  <2> QED BY <1>4, <1>6, <1>7, <1>8, <1>9, ReadFromIs
<1>11. Chain(b) = q
  BY <1>10 DEF Chain
<1>12. ~IsBroken(b)
  <2>1. CASE q = <<>>
    BY <1>1, <1>11, <2>1 DEF IsBroken, Strand
  <2>2. CASE q # <<>>
    <3>1. Len(q) \in 1 .. Len(q)
      BY <1>1, <2>2
    <3>2. store[q[Len(q)]].nextBlock = Nil
      BY <1>1, <3>1 DEF Strand
    <3> QED BY <1>11, <2>2, <3>2 DEF IsBroken, Last
  <2> QED BY <2>1, <2>2
<1> QED BY <1>11, <1>12 DEF q

LEMMA DataAt ==
    ASSUME NEW h, EntryAt(store, h)
    PROVE  KeyAt(h) = KeyOf(store, h) /\ ValueAt(h) = ValueOf(store, h)
<1>1. Holds(store[h].key, "data") /\ Holds(store[h].value, "data")
  BY DataIs DEF Holds, EntryAt
<1> QED BY <1>1 DEF KeyAt, ValueAt, KeyOf, ValueOf

\* A key is looked for in its chain.
LEMMA PositionIs ==
    ASSUME MapBounds, NEW N, NEW ch, MapIn(store, mem, N, ch), NEW k \in Keys
    PROVE  LET q == ch[Hash[k]]
               i == PositionIn(q, k)
           IN  /\ Hash[k] \in Buckets
               /\ i = 0 => \A h \in N : KeyOf(store, h) # k
               /\ i # 0 => i \in 1 .. Len(q) /\ q[i] \in N /\ KeyOf(store, q[i]) = k
<1> DEFINE q == ch[Hash[k]]
           i == PositionIn(q, k)
           I == {j \in 1 .. Len(q) : KeyAt(q[j]) = k}
<1>1. Hash[k] \in Buckets
  BY DEF MapBounds
<1>2. Len(q) \in Nat /\ \A j \in 1 .. Len(q) : q[j] \in N
  BY <1>1, ChainOf DEF MapIn
<1>3. \A h \in N : KeyAt(h) = KeyOf(store, h)
  BY DataAt DEF MapIn, Entries
<1>4. i = IF I # {} THEN CHOOSE x \in I : \A y \in I : x =< y ELSE 0
  BY DEF PositionIn, SelectInSeq, Min
<1>5. I \subseteq Nat /\ 0 \notin I
  BY <1>2
<1>6. CASE I # {}
  <2> HIDE DEF I
  <2>1. \E x \in I : \A y \in I : x <= y
    BY <1>5, <1>6, Least
  <2>2. i \in I
    BY <1>4, <1>6, <2>1
  <2> HIDE DEF i, q
  <2>3. i \in 1 .. Len(q) /\ KeyAt(q[i]) = k /\ i # 0
    BY <1>5, <2>2 DEF I
  <2> QED BY <1>1, <1>2, <1>3, <2>3 DEF i, q
<1>7. CASE I = {}
  <2>1. i = 0
    BY <1>4, <1>7
  <2>2. ASSUME NEW h \in N, KeyOf(store, h) = k PROVE FALSE
    <3>1. \E j \in 1 .. Len(q) : q[j] = h
      BY <2>2 DEF MapIn, Chains
    <3> QED BY <1>3, <1>7, <2>2, <3>1
  <2> QED BY <1>1, <2>1, <2>2
<1> QED BY <1>6, <1>7

\* What is found is what is in the map.
LEMMA FoundIs ==
    ASSUME MapBounds, NEW N, NEW ch, MapIn(store, mem, N, ch), NEW k \in Keys
    PROVE  /\ (\A h \in N : KeyOf(store, h) # k) => find(k) = None
           /\ \A h \in N : KeyOf(store, h) = k => find(k) = ValueOf(store, h) /\ find(k) # None
<1> DEFINE q == ch[Hash[k]]
           i == PositionIn(q, k)
<1>1. Hash[k] \in Buckets /\ Chain(Hash[k]) = q
  BY PositionIs, ChainIs
<1>2. /\ i = 0 => \A h \in N : KeyOf(store, h) # k
      /\ i # 0 => i \in 1 .. Len(q) /\ q[i] \in N /\ KeyOf(store, q[i]) = k
  BY PositionIs
<1>3. find(k) = IF i = 0 THEN None ELSE ValueAt(q[i])
  BY <1>1 DEF find
<1> HIDE DEF i, q
<1>4. \A h \in N : ValueAt(h) = ValueOf(store, h) /\ ValueOf(store, h) # None
  BY DataAt DEF MapIn, Entries, EntryAt, MapBounds
<1>5. \A g, h \in N : KeyOf(store, g) = KeyOf(store, h) => g = h
  BY DEF MapIn, Entries
<1>6. CASE i = 0
  BY <1>2, <1>3, <1>6
<1>7. CASE i # 0
  BY <1>2, <1>3, <1>4, <1>5, <1>7
<1> QED BY <1>6, <1>7

-----------------------------------------------------------------------------
(* What a map that is kept shows.                                          *)

LEMMA FoundAllowed ==
    ASSUME MapBounds, NEW mis, Kept(store, mem, allowed, mis), NEW k \in Keys
    PROVE  find(k) \in allowed[k]
<1>1. PICK N, ch : MapIn(store, mem, N, ch) /\ Fits(store, N, allowed)
  BY DEF Kept
<1>2. CASE \E h \in N : KeyOf(store, h) = k
  BY <1>1, <1>2, FoundIs DEF Fits
<1>3. CASE \A h \in N : KeyOf(store, h) # k
  BY <1>1, <1>3, FoundIs DEF Fits
<1> QED BY <1>2, <1>3

\* Different members have different images: there are as many.
LEMMA ImageIs ==
    ASSUME NEW S, IsFiniteSet(S), NEW f, DOMAIN f = S, f = [x \in S |-> f[x]], \A x, y \in S : f[x] = f[y] => x = y
    PROVE  IsFiniteSet({f[x] : x \in S}) /\ Cardinality({f[x] : x \in S}) = Cardinality(S)
<1> DEFINE T == {f[x] : x \in S}
<1>1. f \in [S -> T]
  OBVIOUS
<1>2. \A t \in T : \E x \in S : f[x] = t
  OBVIOUS
<1> HIDE DEF T
<1>3. f \in Bijection(S, T)
  BY <1>1, <1>2 DEF Bijection, Injection, Surjection, IsInjective
<1>4. ExistsBijection(S, T)
  BY <1>3 DEF ExistsBijection
<1> QED BY <1>4, FS_Bijection DEF T

LEMMA NodesFinite ==
    ASSUME MapBounds, NEW s, NEW bucket, NEW N, Entries(s, bucket, N)
    PROVE  IsFiniteSet(N) /\ Cardinality(N) \in Nat
<1>1. IsFiniteSet(1 .. MaxHandle)
  BY FS_Interval DEF MapBounds
<1>2. IsFiniteSet(N)
  BY <1>1, FS_Subset DEF Entries, Handles
<1> QED BY <1>2, FS_CardinalityType

\* The nodes of all chains.
LEMMA AllNodes ==
    ASSUME MapBounds, NEW N, NEW ch, MapIn(store, mem, N, ch)
    PROVE  UNION {ToSet(Chain(b)) : b \in Buckets} = N
<1>1. ASSUME NEW b \in Buckets PROVE ToSet(Chain(b)) = {ch[b][i] : i \in 1 .. Len(ch[b])} /\ ToSet(Chain(b)) \subseteq N
  <2>1. Chain(b) = ch[b] /\ ch[b] \in Seq(N)
    BY ChainIs, ChainOf DEF MapIn
  <2> QED BY <2>1 DEF ToSet
<1>2. ASSUME NEW h \in N PROVE \E b \in Buckets : h \in ToSet(Chain(b))
  <2>1. Hash[KeyOf(store, h)] \in Buckets
    BY DEF MapIn, Entries, EntryAt, MapBounds
  <2>2. \E i \in 1 .. Len(ch[Hash[KeyOf(store, h)]]) : ch[Hash[KeyOf(store, h)]][i] = h
    BY DEF MapIn, Chains
  <2> QED BY <1>1, <2>1, <2>2
<1> QED BY <1>1, <1>2

LEMMA SoundIs ==
    ASSUME MapBounds, NEW al, NEW mis, Kept(store, mem, al, mis), mem.bucket \in Nat
    PROVE  ChainsSound
<1>1. PICK N, ch : MapIn(store, mem, N, ch)
  BY DEF Kept
<1> DEFINE K == {store[h].key : h \in N}
           V == {store[h].value : h \in N}
           B == {FIRSTFILESTORAGEBLOCKHANDLE, mem.bucket}
<1>2. UNION {ToSet(Chain(b)) : b \in Buckets} = N
  BY <1>1, AllNodes
<1>3. ASSUME NEW b \in Buckets, NEW h \in ToSet(Chain(b)) PROVE KeyAt(h) \in Keys /\ Hash[KeyAt(h)] = b
  <2>1. Chain(b) = ch[b] /\ ch[b] \in Seq(N)
    BY <1>1, ChainIs, ChainOf DEF MapIn
  <2>2. PICK i \in 1 .. Len(ch[b]) : h = ch[b][i]
    BY <1>3, <2>1 DEF ToSet
  <2>3. h \in N /\ Hash[KeyOf(store, h)] = b
    BY <1>1, <2>2, ChainOf DEF MapIn
  <2> QED BY <1>1, <2>3, DataAt DEF MapIn, Entries, EntryAt
<1>4. Entries(store, mem.bucket, N) /\ FIRSTFILESTORAGEBLOCKHANDLE # mem.bucket
  BY <1>1 DEF MapIn, Headed
<1>5. IsFiniteSet(N) /\ Cardinality(N) \in Nat
  BY <1>4, NodesFinite
<1>6. Cardinality({KeyAt(h) : h \in N}) = Cardinality(N)
  <2> DEFINE f == [h \in N |-> KeyAt(h)]
  <2>1. \A x, y \in N : f[x] = f[y] => x = y
    BY <1>4, DataAt DEF Entries
  <2>2. {KeyAt(h) : h \in N} = {f[x] : x \in N}
    OBVIOUS
  <2>3. DOMAIN f = N /\ f = [x \in N |-> f[x]]
    OBVIOUS
  <2> HIDE DEF f
  <2> QED BY <1>5, <2>1, <2>2, <2>3, ImageIs
<1>7. IsFiniteSet(K) /\ Cardinality(K) = Cardinality(N)
  <2> DEFINE f == [h \in N |-> store[h].key]
  <2>1. \A x, y \in N : f[x] = f[y] => x = y
    BY <1>4 DEF Entries, Uses
  <2>2. K = {f[x] : x \in N}
    OBVIOUS
  <2>3. DOMAIN f = N /\ f = [x \in N |-> f[x]]
    OBVIOUS
  <2> HIDE DEF f, K
  <2> QED BY <1>5, <2>1, <2>2, <2>3, ImageIs
<1>8. IsFiniteSet(V) /\ Cardinality(V) = Cardinality(N)
  <2> DEFINE f == [h \in N |-> store[h].value]
  <2>1. \A x, y \in N : f[x] = f[y] => x = y
    BY <1>4 DEF Entries, Uses
  <2>2. V = {f[x] : x \in N}
    OBVIOUS
  <2>3. DOMAIN f = N /\ f = [x \in N |-> f[x]]
    OBVIOUS
  <2> HIDE DEF f, V
  <2> QED BY <1>5, <2>1, <2>2, <2>3, ImageIs
<1>9. IsFiniteSet(B) /\ Cardinality(B) = 2
  <2>1. IsFiniteSet({FIRSTFILESTORAGEBLOCKHANDLE}) /\ Cardinality({FIRSTFILESTORAGEBLOCKHANDLE}) = 1
    BY FS_Singleton
  <2>2. B = {FIRSTFILESTORAGEBLOCKHANDLE} \cup {mem.bucket} /\ mem.bucket \notin {FIRSTFILESTORAGEBLOCKHANDLE}
    BY <1>4
  <2> HIDE DEF B
  <2> DEFINE S == {FIRSTFILESTORAGEBLOCKHANDLE}
  <2> HIDE DEF S
  <2>3. /\ IsFiniteSet(S \cup {mem.bucket})
        /\ Cardinality(S \cup {mem.bucket}) = IF mem.bucket \in S THEN Cardinality(S) ELSE Cardinality(S) + 1
    BY <2>1, FS_AddElement DEF S
  <2>4. B = S \cup {mem.bucket} /\ mem.bucket \notin S /\ Cardinality(S) = 1
    BY <2>1, <2>2 DEF S
  <2> QED BY <2>3, <2>4
<1>10. N \cap K = {} /\ (N \cup K) \cap V = {} /\ (N \cup K \cup V) \cap B = {}
  <2>1. ASSUME NEW g \in N, NEW h \in N
        PROVE  /\ g # store[h].key /\ g # store[h].value /\ store[g].key # store[h].value
               /\ g \notin B /\ store[g].key \notin B /\ store[g].value \notin B
    <3>1. CASE g = h
      BY <1>4, <3>1 DEF Entries, Alone, Uses
    <3>2. CASE g # h
      BY <1>4, <3>2 DEF Entries, Alone, Uses
    <3> QED BY <3>1, <3>2
  <2> QED BY <2>1
<1> HIDE DEF K, V, B
<1>11. IsFiniteSet(N \cup K) /\ Cardinality(N \cup K) = Cardinality(N) + Cardinality(N)
  BY <1>5, <1>7, <1>10, FS_Union, FS_EmptySet
<1>12. IsFiniteSet(N \cup K \cup V) /\ Cardinality(N \cup K \cup V) = Cardinality(N) + Cardinality(N) + Cardinality(N)
  BY <1>5, <1>8, <1>10, <1>11, FS_Union, FS_EmptySet
<1>13. Cardinality(N \cup K \cup V \cup B) = 3 * Cardinality(N) + 2
  <2> DEFINE S == N \cup K \cup V
             n == Cardinality(N)
  <2> HIDE DEF S, n
  <2>1. Cardinality(S \cup B) = Cardinality(S) + Cardinality(B) - Cardinality(S \cap B)
    BY <1>9, <1>12, FS_Union DEF S
  <2>2. Cardinality(S) = n + n + n /\ Cardinality(B) = 2 /\ S \cap B = {} /\ n \in Nat
    BY <1>5, <1>9, <1>10, <1>12 DEF S, n
  <2>3. Cardinality({}) = 0
    BY FS_EmptySet
  <2>4. Cardinality(S \cup B) = n + n + n + 2
    BY <2>1, <2>2, <2>3
  <2>5. n + n + n + 2 = 3 * n + 2
    BY <2>2
  <2> QED BY <2>4, <2>5 DEF S, n
<1>14. \A b \in Buckets : ~IsBroken(b)
  BY <1>1, ChainIs
<1> QED BY <1>2, <1>3, <1>6, <1>13, <1>14 DEF ChainsSound, K, V, B

\* The nodes of the buckets from b on, in the order in which they are read.
WalkFrom(N, b, q) ==
    /\ q \in Seq(N)
    /\ \A i, j \in 1 .. Len(q) : q[i] = q[j] => i = j
    /\ \A i \in 1 .. Len(q) : Hash[KeyOf(store, q[i])] >= b
    /\ \A h \in N : Hash[KeyOf(store, h)] >= b => \E i \in 1 .. Len(q) : q[i] = h
    /\ IF q = <<>> THEN \A c \in Buckets : c >= b => mem.buckets[c] = Nil
       ELSE \E c \in Buckets : /\ c >= b /\ mem.buckets[c] = q[1] /\ q[1] # Nil
                               /\ \A d \in Buckets : d >= b /\ d < c => mem.buckets[d] = Nil
    /\ \A i \in 1 .. Len(q) : NextOf(q[i]) = IF i = Len(q) THEN Nil ELSE q[i + 1]

\* The least of the buckets that are used.
LEMMA MinIs ==
    ASSUME NEW U, NEW c \in U, U \subseteq Nat, \A d \in U : c <= d
    PROVE  Min(U) = c
<1>1. \E x \in U : \A y \in U : x =< y
  OBVIOUS
<1>2. Min(U) \in U /\ \A y \in U : Min(U) =< y
  BY <1>1 DEF Min
<1> DEFINE m == Min(U)
<1>3. m \in Nat /\ c \in Nat /\ m <= c /\ c <= m
  BY <1>2
<1> HIDE DEF m
<1>4. m = c
  BY <1>3
<1> QED BY <1>4 DEF m

LEMMA WalkOne ==
    ASSUME MapBounds, NEW N, NEW ch, MapIn(store, mem, N, ch), NEW b \in Buckets, NEW q, WalkFrom(N, b + 1, q)
    PROVE  WalkFrom(N, b, ch[b] \o q)
<1> DEFINE p == ch[b]
           r == p \o q
<1>1. Buckets \subseteq Nat /\ b \in Nat
  BY DEF Buckets, MapBounds
<1>2. /\ p \in Seq(N) /\ Len(p) \in Nat /\ Strand(store, mem.buckets[b], p)
      /\ \A i \in 1 .. Len(p) : p[i] \in N /\ Hash[KeyOf(store, p[i])] = b
  BY ChainOf DEF MapIn
<1>3. q \in Seq(N) /\ Len(q) \in Nat /\ \A i \in 1 .. Len(q) : q[i] \in N
  BY DEF WalkFrom
<1>4. \A h \in N : h # Nil /\ h \in Nat /\ KeyAt(h) = KeyOf(store, h) /\ Hash[KeyOf(store, h)] \in Buckets
  BY DataAt DEF MapIn, Entries, EntryAt, Handles, Nil, MapBounds
<1>5. r \in Seq(N) /\ Len(r) = Len(p) + Len(q)
      /\ \A i \in 1 .. Len(p) + Len(q) : r[i] = IF i <= Len(p) THEN p[i] ELSE q[i - Len(p)]
  BY <1>2, <1>3, ConcatProperties
<1>6. (p = <<>> <=> Len(p) = 0) /\ (q = <<>> <=> Len(q) = 0) /\ (r = <<>> <=> Len(r) = 0)
  BY <1>2, <1>3, <1>5
<1> HIDE DEF p, r
<1> DEFINE n == Len(p)
<1>7. ASSUME NEW i \in 1 .. Len(r)
      PROVE  /\ i <= n => i \in 1 .. n /\ r[i] = p[i]
             /\ ~(i <= n) => i - n \in 1 .. Len(q) /\ r[i] = q[i - n]
  BY <1>2, <1>3, <1>5
<1> HIDE DEF n
<1>8. \A i \in 1 .. Len(p), j \in 1 .. Len(q) : p[i] # q[j]
  BY <1>1, <1>2 DEF WalkFrom
<1>9. ASSUME NEW i \in 1 .. Len(r), NEW j \in 1 .. Len(r), r[i] = r[j] PROVE i = j
  <2>1. i \in Nat /\ j \in Nat /\ n \in Nat
    BY <1>2, <1>5 DEF n
  <2>2. CASE i <= n /\ j <= n
    BY <1>2, <1>7, <1>9, <2>2 DEF Strand, n
  <2>3. CASE ~(i <= n) /\ ~(j <= n)
    <3>1. i - n = j - n
      <4>1. i - n \in 1 .. Len(q) /\ j - n \in 1 .. Len(q) /\ q[i - n] = q[j - n]
        BY <1>7, <1>9, <2>3
      <4>2. \A k, l \in 1 .. Len(q) : q[k] = q[l] => k = l
        BY DEF WalkFrom
      <4> QED BY <4>1, <4>2
    <3> QED BY <2>1, <3>1
  <2>4. CASE (i <= n) # (j <= n)
    BY <1>7, <1>8, <1>9, <2>4 DEF n
  <2> QED BY <2>2, <2>3, <2>4
<1>10. ASSUME NEW i \in 1 .. Len(r) PROVE Hash[KeyOf(store, r[i])] >= b
  <2>1. CASE i <= n
    BY <1>1, <1>2, <1>7, <2>1 DEF n
  <2>2. CASE ~(i <= n)
    <3>1. Hash[KeyOf(store, r[i])] >= b + 1 /\ Hash[KeyOf(store, r[i])] \in Nat
      BY <1>1, <1>3, <1>4, <1>7, <2>2 DEF WalkFrom
    <3> QED BY <1>1, <3>1
  <2> QED BY <2>1, <2>2
<1>11. ASSUME NEW h \in N, Hash[KeyOf(store, h)] >= b PROVE \E i \in 1 .. Len(r) : r[i] = h
  <2>1. CASE Hash[KeyOf(store, h)] = b
    <3>1. PICK i \in 1 .. Len(p) : p[i] = h
      BY <2>1 DEF MapIn, Chains, p
    <3>2. i \in 1 .. Len(r) /\ r[i] = h
      BY <1>2, <1>3, <1>5, <3>1
    <3> QED BY <3>2
  <2>2. CASE Hash[KeyOf(store, h)] # b
    <3>1. Hash[KeyOf(store, h)] >= b + 1
      <4>1. Hash[KeyOf(store, h)] \in Nat
        BY <1>1, <1>4
      <4> QED BY <1>1, <1>11, <2>2, <4>1
    <3>2. PICK i \in 1 .. Len(q) : q[i] = h
      BY <3>1 DEF WalkFrom
    <3>3. i + Len(p) \in 1 .. Len(r) /\ ~(i + Len(p) <= Len(p)) /\ i + Len(p) - Len(p) = i
      BY <1>2, <1>3, <1>5
    <3>4. r[i + Len(p)] = h
      BY <1>5, <3>2, <3>3
    <3> QED BY <3>3, <3>4
  <2> QED BY <2>1, <2>2
<1>12. IF r = <<>> THEN \A c \in Buckets : c >= b => mem.buckets[c] = Nil
       ELSE \E c \in Buckets : /\ c >= b /\ mem.buckets[c] = r[1] /\ r[1] # Nil
                               /\ \A d \in Buckets : d >= b /\ d < c => mem.buckets[d] = Nil
  <2>0. \A c \in Buckets : c >= b <=> c = b \/ c >= b + 1
    BY <1>1
  <2>1. CASE p = <<>>
    <3>1. mem.buckets[b] = Nil
      BY <1>2, <2>1 DEF Strand
    <3>2. r = <<>> <=> q = <<>>
      BY <1>2, <1>3, <1>5, <1>6, <2>1
    <3>3. q # <<>> => r[1] = q[1]
      BY <1>3, <1>5, <1>6, <2>1
    <3>4. IF q = <<>> THEN \A c \in Buckets : c >= b + 1 => mem.buckets[c] = Nil
          ELSE \E c \in Buckets : /\ c >= b + 1 /\ mem.buckets[c] = q[1] /\ q[1] # Nil
                                  /\ \A d \in Buckets : d >= b + 1 /\ d < c => mem.buckets[d] = Nil
      BY DEF WalkFrom
    <3> QED BY <2>0, <3>1, <3>2, <3>3, <3>4
  <2>2. CASE p # <<>>
    <3>1. 1 \in 1 .. Len(p) /\ 1 \in 1 .. Len(r) /\ r # <<>> /\ r[1] = p[1]
      BY <1>2, <1>3, <1>5, <1>6, <2>2
    <3>2. mem.buckets[b] = p[1] /\ p[1] # Nil
      BY <1>2, <1>4, <2>2, <3>1 DEF Strand
    <3>3. \A d \in Buckets : ~(d >= b /\ d < b)
      BY <1>1
    <3> QED BY <2>0, <3>1, <3>2, <3>3
  <2> QED BY <2>1, <2>2
<1>13. ASSUME NEW i \in 1 .. Len(r) PROVE NextOf(r[i]) = IF i = Len(r) THEN Nil ELSE r[i + 1]
  <2>1. i \in Nat /\ n \in Nat /\ n = Len(p) /\ Len(r) = n + Len(q)
    BY <1>2, <1>5 DEF n
  <2>2. CASE i < n
    <3>1. i \in 1 .. n /\ i # n /\ i + 1 \in 1 .. n /\ i # Len(r) /\ r[i] = p[i] /\ r[i + 1] = p[i + 1]
      BY <1>3, <1>5, <2>1, <2>2
    <3>2. store[p[i]].nextBlock = p[i + 1] /\ p[i + 1] # Nil
      BY <1>2, <1>4, <3>1 DEF Strand, n
    <3> QED BY <3>1, <3>2 DEF NextOf
  <2>3. CASE i = n
    <3>1. r[i] = p[n] /\ n \in 1 .. n
      BY <1>7, <2>1, <2>3
    <3>2. store[p[n]].nextBlock = Nil /\ KeyAt(p[n]) = KeyOf(store, p[n]) /\ Hash[KeyOf(store, p[n])] = b
      BY <1>2, <1>4, <3>1 DEF Strand, n
    <3> DEFINE later == {c \in Buckets : c > b /\ mem.buckets[c] # Nil}
    <3>3. NextOf(r[i]) = IF later = {} THEN Nil ELSE mem.buckets[Min(later)]
      BY <3>1, <3>2 DEF NextOf
    <3>4. CASE q = <<>>
      <4>1. \A c \in Buckets : c >= b + 1 => mem.buckets[c] = Nil
        BY <3>4 DEF WalkFrom
      <4>2. later = {}
        <5>1. \A c \in Buckets : c > b => c >= b + 1
          BY <1>1
        <5> QED BY <4>1, <5>1
      <4>3. i = Len(r)
        BY <1>6, <2>1, <2>3, <3>4
      <4> QED BY <3>3, <4>2, <4>3
    <3>5. CASE q # <<>>
      <4>1. PICK c \in Buckets : /\ c >= b + 1 /\ mem.buckets[c] = q[1] /\ q[1] # Nil
                                 /\ \A d \in Buckets : d >= b + 1 /\ d < c => mem.buckets[d] = Nil
        BY <3>5 DEF WalkFrom
      <4>2. c \in later /\ later \subseteq Nat /\ \A d \in later : c <= d
        BY <1>1, <4>1
      <4> HIDE DEF later
      <4>3. Min(later) = c
        BY <4>2, MinIs
      <4>4. i # Len(r) /\ i + 1 \in 1 .. Len(r) /\ ~(i + 1 <= n) /\ i + 1 - n = 1
        BY <1>3, <1>6, <2>1, <2>3, <3>5
      <4>5. r[i + 1] = q[1]
        <5> DEFINE j == i + 1
        <5>1. j \in 1 .. Len(r) /\ ~(j <= n) /\ j - n = 1
          BY <1>3, <1>6, <2>1, <2>3, <3>5
        <5> HIDE DEF j
        <5>2. r[j] = q[j - n]
          BY <1>7, <5>1
        <5> QED BY <5>1, <5>2 DEF j
      <4> QED BY <3>3, <4>1, <4>2, <4>3, <4>4, <4>5
    <3> QED BY <3>4, <3>5
  <2>4. CASE i > n
    <3>1. i - n \in 1 .. Len(q) /\ r[i] = q[i - n] /\ (i = Len(r) <=> i - n = Len(q))
      BY <1>3, <1>7, <2>1, <2>4
    <3>2. i # Len(r) => r[i + 1] = q[i - n + 1]
      <4>1. i # Len(r) => i + 1 \in 1 .. Len(r) /\ ~(i + 1 <= n) /\ i + 1 - n = i - n + 1
        BY <1>3, <2>1, <2>4
      <4> DEFINE j == i + 1
      <4>2. i # Len(r) => j \in 1 .. Len(r) /\ ~(j <= n) /\ j - n = i - n + 1
        BY <1>3, <2>1, <2>4
      <4> HIDE DEF j
      <4>3. i # Len(r) => r[j] = q[j - n]
        BY <1>7, <4>2
      <4> QED BY <4>2, <4>3 DEF j
    <3>3. NextOf(q[i - n]) = IF i - n = Len(q) THEN Nil ELSE q[i - n + 1]
      BY <3>1 DEF WalkFrom
    <3> QED BY <3>1, <3>2, <3>3
  <2> QED BY <2>1, <2>2, <2>3, <2>4
<1> QED BY <1>5, <1>9, <1>10, <1>11, <1>12, <1>13 DEF WalkFrom, r, p

LEMMA WalkAll ==
    ASSUME MapBounds, NEW N, NEW ch, MapIn(store, mem, N, ch)
    PROVE  \E q : WalkFrom(N, 0, q)
<1> DEFINE U == {n \in 0 .. bucketSize : \E q : WalkFrom(N, n, q)}
<1>0. bucketSize \in Nat
  BY DEF MapBounds
<1>1. bucketSize \in U
  <2> DEFINE q == <<>>
  <2>1. q \in Seq(N) /\ Len(q) = 0
    OBVIOUS
  <2>2. \A c \in Buckets : ~(c >= bucketSize)
    BY <1>0 DEF Buckets
  <2>3. \A h \in N : Hash[KeyOf(store, h)] \in Buckets
    BY DEF MapIn, Entries, EntryAt, MapBounds
  <2>4. \A i \in 1 .. Len(q) : FALSE
    BY <2>1
  <2>5. WalkFrom(N, bucketSize, q)
    BY <2>1, <2>2, <2>3, <2>4 DEF WalkFrom
  <2> QED BY <1>0, <2>5
<1>2. U \subseteq Nat
  OBVIOUS
<1>3. ASSUME NEW n \in U, n # 0 PROVE n - 1 \in U
  <2>1. n - 1 \in Buckets /\ n - 1 + 1 = n /\ n - 1 \in 0 .. bucketSize
    BY <1>0, <1>3 DEF Buckets
  <2>2. PICK q : WalkFrom(N, n, q)
    BY <1>3
  <2>3. WalkFrom(N, n - 1, ch[n - 1] \o q)
    BY <2>1, <2>2, WalkOne
  <2> QED BY <2>1, <2>3
<1> HIDE DEF U
<1>4. PICK n \in U : \A m \in U : n <= m
  BY <1>1, <1>2, Least
<1>5. n = 0
  <2>1. n \in Nat
    BY <1>2
  <2> QED BY <1>3, <1>4, <2>1
<1> QED BY <1>4, <1>5 DEF U

LEMMA WalkIs ==
    ASSUME MapBounds, NEW N, NEW ch, MapIn(store, mem, N, ch), mem.size = Cardinality(N)
    PROVE  /\ Len(Walk) = Cardinality(N)
           /\ ToSet(Walk) = N
<1> DEFINE used == {b \in Buckets : mem.buckets[b] # Nil}
           after == [h \in {n \in Nodes : KeyAt(n) \in Keys} |-> NextOf(h)]
<1>1. PICK q : WalkFrom(N, 0, q)
  BY WalkAll
<1>2. q \in Seq(N) /\ Len(q) \in Nat /\ (q = <<>> <=> Len(q) = 0) /\ \A i \in 1 .. Len(q) : q[i] \in N
  BY <1>1 DEF WalkFrom
<1>3. IsFiniteSet(N) /\ Cardinality(N) \in Nat
  BY NodesFinite DEF MapIn
<1>4. Buckets \subseteq Nat
  BY DEF Buckets
<1>5. {q[i] : i \in 1 .. Len(q)} = N
  <2>1. ASSUME NEW h \in N PROVE \E i \in 1 .. Len(q) : q[i] = h
    <3>1. Hash[KeyOf(store, h)] \in Nat
      BY <1>4 DEF MapIn, Entries, EntryAt, MapBounds
    <3>2. Hash[KeyOf(store, h)] >= 0
      BY <3>1
    <3> QED BY <1>1, <3>2 DEF WalkFrom
  <2> QED BY <1>2, <2>1
<1>6. Cardinality(N) = Len(q)
  <2> DEFINE I == 1 .. Len(q)
  <2>1. IsFiniteSet(I) /\ Cardinality(I) = Len(q)
    <3>1. IsFiniteSet(I) /\ Cardinality(I) = IF 1 > Len(q) THEN 0 ELSE Len(q) - 1 + 1
      BY <1>2, FS_Interval
    <3> QED BY <1>2, <3>1
  <2>2. DOMAIN q = I /\ q = [i \in I |-> q[i]]
    BY <1>2
  <2>3. \A i, j \in I : q[i] = q[j] => i = j
    BY <1>1 DEF WalkFrom
  <2> HIDE DEF I
  <2>4. Cardinality({q[i] : i \in I}) = Cardinality(I)
    <3> DEFINE f == q
    <3>1. DOMAIN f = I /\ f = [i \in I |-> f[i]] /\ \A i, j \in I : f[i] = f[j] => i = j
      BY <2>2, <2>3
    <3> HIDE DEF f
    <3>2. Cardinality({f[i] : i \in I}) = Cardinality(I)
      BY ONLY <2>1, <3>1, ImageIs
    <3> QED BY <3>2 DEF f
  <2> QED BY <1>5, <2>1, <2>4 DEF I
<1>7. Walk = q
  <2>1. CASE q = <<>>
    <3>1. \A c \in Buckets : mem.buckets[c] = Nil
      <4>1. \A c \in Buckets : c >= 0
        BY <1>4
      <4> QED BY <1>1, <2>1, <4>1 DEF WalkFrom
    <3> QED BY <2>1, <3>1 DEF Walk
  <2>2. CASE q # <<>>
    <3>1. PICK c \in Buckets : /\ c >= 0 /\ mem.buckets[c] = q[1] /\ q[1] # Nil
                               /\ \A d \in Buckets : d >= 0 /\ d < c => mem.buckets[d] = Nil
      BY <1>1, <2>2 DEF WalkFrom
    <3>2. c \in used /\ used \subseteq Nat /\ \A d \in used : c <= d
      <4>1. ASSUME NEW d \in used PROVE c <= d
        <5>1. d \in Nat /\ c \in Nat /\ d \in Buckets /\ mem.buckets[d] # Nil
          BY <1>4
        <5>2. ~(d >= 0 /\ d < c)
          BY <3>1, <5>1
        <5> QED BY <5>1, <5>2
      <4> QED BY <1>4, <3>1, <4>1
    <3>3. mem.size # 0 /\ used # {}
      BY <1>2, <1>6, <2>2, <3>2
    <3>4. Walk = ReadFrom(mem.buckets[Min(used)], after)
      BY <3>3 DEF Walk
    <3> HIDE DEF used
    <3>5. Min(used) = c
      BY <3>2, MinIs
    <3>6. DOMAIN after = {n \in Nodes : KeyAt(n) \in Keys} /\ Nil \notin DOMAIN after
      BY DEF Nodes, MapIn, Headed, Nil
    <3>7. N \subseteq DOMAIN after /\ N \subseteq Handles
      <4>1. ASSUME NEW h \in N PROVE h \in DOMAIN store /\ store[h].kind = "node" /\ KeyAt(h) \in Keys
        BY NodeIs, DataAt DEF MapIn, Entries, EntryAt
      <4> QED BY <3>6, <4>1 DEF Nodes, Holds, MapIn, Entries
    <3>8. q \in Seq(DOMAIN after) /\ q \in Seq(Handles)
      <4> HIDE DEF after
      <4> QED BY <1>2, <3>7
    <3>9. Len(q) <= MaxHandle + 1 /\ MaxHandle \in Nat
      <4>1. \A i, j \in 1 .. Len(q) : q[i] = q[j] => i = j
        BY <1>1 DEF WalkFrom
      <4>2. Len(q) <= MaxHandle /\ MaxHandle \in Nat
        BY <3>8, <4>1, NotLonger DEF MapBounds
      <4> QED BY <1>2, <4>2
    <3>10. ASSUME NEW i \in 1 .. Len(q)
           PROVE  IF i = Len(q) THEN after[q[i]] \notin DOMAIN after ELSE after[q[i]] = q[i + 1]
      <4>1. after[q[i]] = NextOf(q[i])
        BY <1>2, <3>7
      <4>2. NextOf(q[i]) = IF i = Len(q) THEN Nil ELSE q[i + 1]
        BY <1>1 DEF WalkFrom
      <4> HIDE DEF after
      <4> QED BY <3>6, <4>1, <4>2
    <3> HIDE DEF after
    <3>11. ReadFrom(q[1], after) = q
      BY <2>2, <3>8, <3>9, <3>10, ReadFromIs
    <3> QED BY <3>1, <3>4, <3>5, <3>11
  <2> QED BY <2>1, <2>2
<1>8. ToSet(q) = N
  <2>1. DOMAIN q = 1 .. Len(q)
    BY <1>2
  <2>2. ToSet(q) = {q[i] : i \in DOMAIN q}
    BY DEF ToSet
  <2> QED BY ONLY <1>5, <2>1, <2>2
<1> QED BY <1>6, <1>7, <1>8

LEMMA CompleteIs ==
    ASSUME MapBounds, NEW al, Kept(store, mem, al, FALSE)
    PROVE  IterationComplete
<1>1. PICK N, ch : MapIn(store, mem, N, ch) /\ mem.size = Cardinality(N)
  BY DEF Kept
<1>2. Entries(store, mem.bucket, N)
  BY <1>1 DEF MapIn
<1>3. \A h \in N : KeyAt(h) = KeyOf(store, h) /\ KeyOf(store, h) \in Keys
  BY <1>2, DataAt DEF Entries, EntryAt
<1>4. {k \in Keys : find(k) # None} = {KeyAt(h) : h \in N}
  <2>1. ASSUME NEW h \in N PROVE find(KeyAt(h)) # None /\ KeyAt(h) \in Keys
    BY <1>1, <1>3, FoundIs
  <2>2. ASSUME NEW k \in Keys, find(k) # None PROVE \E h \in N : KeyAt(h) = k
    BY <1>1, <1>3, <2>2, FoundIs
  <2> QED BY <2>1, <2>2
<1>5. Cardinality({KeyAt(h) : h \in N}) = Cardinality(N)
  <2> DEFINE f == [h \in N |-> KeyAt(h)]
  <2>1. \A x, y \in N : f[x] = f[y] => x = y
    BY <1>2, <1>3 DEF Entries
  <2>2. {KeyAt(h) : h \in N} = {f[x] : x \in N}
    OBVIOUS
  <2>3. DOMAIN f = N /\ f = [x \in N |-> f[x]]
    OBVIOUS
  <2>4. IsFiniteSet(N)
    BY <1>2, NodesFinite
  <2> HIDE DEF f
  <2>5. Cardinality({f[x] : x \in N}) = Cardinality(N)
    BY ONLY <2>1, <2>3, <2>4, ImageIs
  <2> QED BY <2>2, <2>5
<1>6. Len(Walk) = Cardinality(N) /\ ToSet(Walk) = N
  BY <1>1, WalkIs
<1> QED BY <1>1, <1>4, <1>5, <1>6 DEF IterationComplete

-----------------------------------------------------------------------------
(* The operations on the storage.                                          *)

Does(o, op, h, content) == o.op = op /\ o.h = h /\ o.content = content

LEMMA OpIs ==
    ASSUME NEW h, NEW content
    PROVE  /\ Does(allocate(h), "allocate", h, Junk) /\ ~allocate(h).exposed /\ ~allocate(h).uncounted
           /\ Does(write(h, content), "write", h, content) /\ ~write(h, content).exposed /\ ~write(h, content).uncounted
           /\ Does(Free(h), "free", h, Junk) /\ ~Free(h).exposed /\ ~Free(h).uncounted
           /\ clearFile.op = "clear" /\ ~clearFile.exposed /\ ~clearFile.uncounted
  BY DEF Does, allocate, write, Free, clearFile, Op

LEMMA FlagSet ==
    ASSUME NEW op, NEW h, NEW content, NEW exposed, NEW uncounted, NEW p, NEW y,
           p = [op |-> op, h |-> h, content |-> content, exposed |-> exposed, uncounted |-> uncounted]
    PROVE  /\ [p EXCEPT !.exposed = y] = [op |-> op, h |-> h, content |-> content, exposed |-> y, uncounted |-> uncounted]
           /\ [p EXCEPT !.uncounted = y] = [op |-> op, h |-> h, content |-> content, exposed |-> exposed, uncounted |-> y]
  OBVIOUS

\* The operation o, marked.
Marked(o, exposed, uncounted) ==
    [op |-> o.op, h |-> o.h, content |-> o.content, exposed |-> exposed, uncounted |-> uncounted]

MarksAs(o) ==
    /\ [o EXCEPT !.exposed = TRUE] = Marked(o, TRUE, FALSE)
    /\ [o EXCEPT !.uncounted = TRUE] = Marked(o, FALSE, TRUE)

LEMMA MarkIs ==
    ASSUME NEW h, NEW content, NEW o, o = allocate(h) \/ o = write(h, content) \/ o = Free(h)
    PROVE  MarksAs(o)
<1>1. ASSUME NEW op, NEW x, NEW y, o = Op(op, x, y)
      PROVE  MarksAs(o)
  <2> DEFINE p == Op(op, x, y)
  <2>1. p.op = op /\ p.h = x /\ p.content = y
    BY DEF Op
  <2>2. /\ [p EXCEPT !.exposed = TRUE] = [op |-> op, h |-> x, content |-> y, exposed |-> TRUE, uncounted |-> FALSE]
        /\ [p EXCEPT !.uncounted = TRUE] = [op |-> op, h |-> x, content |-> y, exposed |-> FALSE, uncounted |-> TRUE]
    <3> DEFINE f == FALSE
               t == TRUE
    <3>1. p = [op |-> op, h |-> x, content |-> y, exposed |-> f, uncounted |-> f]
      BY DEF Op
    <3> HIDE DEF p, f, t
    <3>2. /\ [p EXCEPT !.exposed = t] = [op |-> op, h |-> x, content |-> y, exposed |-> t, uncounted |-> f]
          /\ [p EXCEPT !.uncounted = t] = [op |-> op, h |-> x, content |-> y, exposed |-> f, uncounted |-> t]
      BY <3>1, FlagSet
    <3> QED BY <3>2, Zenon DEF f, t
  <2> HIDE DEF p
  <2>3. MarksAs(p)
    <3>1. /\ [p EXCEPT !.exposed = TRUE] = Marked(p, TRUE, FALSE)
          /\ [p EXCEPT !.uncounted = TRUE] = Marked(p, FALSE, TRUE)
      BY <2>1, <2>2 DEF Marked
    <3> QED BY <3>1, Zenon DEF MarksAs
  <2>4. o = p
    BY <1>1 DEF p
  <2> QED BY <2>3, <2>4
<1> QED BY <1>1 DEF allocate, write, Free

LEMMA Allocated ==
    ASSUME NEW s, NEW o, NEW h, Does(o, "allocate", h, Junk)
    PROVE  /\ DOMAIN Applied(s, o) = DOMAIN s \cup {h} /\ Applied(s, o)[h] = Junk
           /\ \A x \in DOMAIN s : x # h => Same(s, Applied(s, o), x)
  BY DEF Does, Applied, Same

LEMMA Written ==
    ASSUME NEW s, NEW o, NEW h \in DOMAIN s, NEW content, Does(o, "write", h, content)
    PROVE  /\ DOMAIN Applied(s, o) = DOMAIN s /\ Applied(s, o)[h] = content
           /\ \A x \in DOMAIN s : x # h => Same(s, Applied(s, o), x)
  BY DEF Does, Applied, Same

LEMMA Freed ==
    ASSUME NEW s, NEW o, NEW h, Does(o, "free", h, Junk)
    PROVE  /\ DOMAIN Applied(s, o) = DOMAIN s \ {h}
           /\ \A x \in DOMAIN s : x # h => Same(s, Applied(s, o), x)
  BY DEF Does, Applied, Same, Restrict

LEMMA Cleared == ASSUME NEW s, NEW o, o.op = "clear" PROVE DOMAIN Applied(s, o) = {}
  BY DEF Applied

LEMMA AllocateIs ==
    ASSUME NEW s, NEW h
    PROVE  /\ DOMAIN Applied(s, allocate(h)) = DOMAIN s \cup {h}
           /\ \A x \in DOMAIN s : x # h => Applied(s, allocate(h))[x] = s[x]
<1>1. Does(allocate(h), "allocate", h, Junk)
  BY OpIs
<1>2. /\ DOMAIN Applied(s, allocate(h)) = DOMAIN s \cup {h}
      /\ \A x \in DOMAIN s : x # h => Same(s, Applied(s, allocate(h)), x)
  BY <1>1, Allocated
<1> QED BY <1>2 DEF Same

LEMMA WriteIs ==
    ASSUME NEW s, NEW h \in DOMAIN s, NEW content
    PROVE  /\ DOMAIN Applied(s, write(h, content)) = DOMAIN s
           /\ Applied(s, write(h, content))[h] = content
           /\ \A x \in DOMAIN s : x # h => Applied(s, write(h, content))[x] = s[x]
<1>1. Does(write(h, content), "write", h, content)
  BY OpIs
<1>2. /\ DOMAIN Applied(s, write(h, content)) = DOMAIN s
      /\ Applied(s, write(h, content))[h] = content
      /\ \A x \in DOMAIN s : x # h => Same(s, Applied(s, write(h, content)), x)
  BY <1>1, Written
<1> QED BY <1>2 DEF Same

LEMMA FreeIs ==
    ASSUME NEW s, NEW h
    PROVE  /\ DOMAIN Applied(s, Free(h)) = DOMAIN s \ {h}
           /\ \A x \in DOMAIN s : x # h => Applied(s, Free(h))[x] = s[x]
<1>1. Does(Free(h), "free", h, Junk)
  BY OpIs
<1>2. /\ DOMAIN Applied(s, Free(h)) = DOMAIN s \ {h}
      /\ \A x \in DOMAIN s : x # h => Same(s, Applied(s, Free(h)), x)
  BY <1>1, Freed
<1> QED BY <1>2 DEF Same

\* t is s with blocks added.
Grown(s, t) == DOMAIN s \subseteq DOMAIN t /\ DOMAIN t \subseteq Nat \ {0} /\ \A x \in DOMAIN s : t[x] = s[x]

\* The members of a set of numbers up to x.
UpToIn(T, x) == {g \in T : g <= x}

\* L are the first members of T.
Lower(L, T) == L \subseteq T /\ \A g \in L : \A x \in T \ L : g <= x

\* The next member of a set of numbers has one more that are not greater.
LEMMA NextMember ==
    ASSUME NEW T, T \subseteq Nat, IsFiniteSet(T), NEW L, Lower(L, T), Cardinality(L) < Cardinality(T)
    PROVE  \E x \in T \ L : Cardinality(UpToIn(T, x)) = Cardinality(L) + 1
<1>0. L \subseteq T /\ \A g \in L : \A x \in T \ L : g <= x
  BY DEF Lower
<1>1. IsFiniteSet(L)
  BY <1>0, FS_Subset
<1>2. T \ L # {}
  <2>1. T \ L = {} => T = L
    BY <1>0
  <2>2. Cardinality(T) \in Nat
    BY FS_CardinalityType
  <2> QED BY <2>1, <2>2
<1>3. PICK x \in T \ L : \A y \in T \ L : x <= y
  <2>1. T \ L \subseteq Nat
    OBVIOUS
  <2> QED BY <1>2, <2>1, Least
<1>4. ASSUME NEW g \in T, g <= x PROVE g \in L \cup {x}
  <2>1. CASE g \in T \ L
    <3>1. x <= g /\ x \in Nat /\ g \in Nat
      BY <1>3, <2>1
    <3>2. g = x
      BY <1>4, <3>1
    <3> QED BY <3>2
  <2> QED BY <2>1
<1>5. x <= x
  <2>1. x \in Nat
    OBVIOUS
  <2> QED BY <2>1
<1>6. UpToIn(T, x) = L \cup {x}
  BY <1>0, <1>4, <1>5 DEF UpToIn
<1>7. Cardinality(L \cup {x}) = Cardinality(L) + 1
  BY <1>1, FS_AddElement
<1> QED BY <1>6, <1>7

LEMMA RoomIs ==
    ASSUME MapBounds, NEW used, NEW n \in 1 .. 3, HasRoom(used, n)
    PROVE  \A i \in 1 .. n : /\ Unused(used, i) \in Handles \ used
                             /\ Cardinality(UpToIn(Handles \ used, Unused(used, i))) = i
<1> DEFINE T == Handles \ used
           Has(i) == \E x \in T : Cardinality(UpToIn(T, x)) = i
<1>1. T \subseteq Nat /\ IsFiniteSet(T) /\ Cardinality(T) >= n
  <2>1. IsFiniteSet(Handles)
    BY FS_Interval DEF MapBounds, Handles
  <2>2. IsFiniteSet(T)
    BY <2>1, FS_Subset
  <2> QED BY <2>2 DEF HasRoom, Handles
<1>2. Cardinality(T) \in Nat
  BY <1>1, FS_CardinalityType
<1> HIDE DEF T
<1>3. Has(1)
  <2> DEFINE L == {}
  <2>1. 0 < Cardinality(T) /\ Cardinality(L) = 0
    BY <1>1, <1>2, FS_EmptySet
  <2>2. Lower(L, T)
    BY DEF Lower
  <2> HIDE DEF L
  <2>3. \E x \in T \ L : Cardinality(UpToIn(T, x)) = Cardinality(L) + 1
    <3>1. Cardinality(L) < Cardinality(T)
      BY ONLY <2>1
    <3> QED BY ONLY <1>1, <2>2, <3>1, NextMember
  <2> QED BY <2>1, <2>3
<1>4. ASSUME NEW i \in 1 .. 2, i < n, Has(i) PROVE Has(i + 1)
  <2>1. PICK y \in T : Cardinality(UpToIn(T, y)) = i
    BY <1>4
  <2> DEFINE L == UpToIn(T, y)
  <2>2. L \subseteq T /\ Cardinality(L) = i
    BY <2>1 DEF UpToIn
  <2>3. ASSUME NEW g \in L, NEW x \in T \ L PROVE g <= x
    <3>1. g \in Nat /\ x \in Nat /\ y \in Nat /\ g <= y /\ ~(x <= y)
      BY <1>1 DEF UpToIn
    <3> QED BY <3>1
  <2>4. i \in Nat /\ i < Cardinality(T)
    BY <1>1, <1>2, <1>4
  <2> HIDE DEF L
  <2>5. \E x \in T \ L : Cardinality(UpToIn(T, x)) = i + 1
    <3>1. Lower(L, T)
      BY <2>2, <2>3 DEF Lower
    <3> QED BY <1>1, <2>2, <2>4, <3>1, NextMember
  <2> QED BY <2>5
<1>5. ASSUME NEW i \in 1 .. n PROVE Has(i)
  <2>1. CASE i = 1
    BY <1>3, <2>1
  <2>2. CASE i = 2
    <3>1. 1 < n
      BY <2>2
    <3> QED BY <1>3, <1>4, <2>2, <3>1
  <2>3. CASE i = 3
    <3>1. 1 < n /\ 2 < n
      BY <2>3
    <3>2. Has(2)
      BY <1>3, <1>4, <3>1
    <3> QED BY <1>4, <2>3, <3>1, <3>2
  <2> QED BY <2>1, <2>2, <2>3
<1>6. ASSUME NEW i \in 1 .. n PROVE Unused(used, i) \in T /\ Cardinality(UpToIn(T, Unused(used, i))) = i
  <2>1. \E x \in T : Cardinality(UpToIn(T, x)) = i
    BY <1>5
  <2> QED BY <2>1 DEF Unused, UpToIn, T
<1> QED BY <1>6 DEF T

-----------------------------------------------------------------------------
(* What a killed process may leave in the file, and a call on its way.     *)

Made(s) ==
    /\ FIRSTFILESTORAGEBLOCKHANDLE \in DOMAIN s /\ s[FIRSTFILESTORAGEBLOCKHANDLE].kind = "info"
    /\ s[FIRSTFILESTORAGEBLOCKHANDLE].bucket \in DOMAIN s
    /\ s[s[FIRSTFILESTORAGEBLOCKHANDLE].bucket].kind = "buckets"

\* A map, or none yet.
Disk(s, al, mis) ==
    \/ ~Made(s) /\ \A k \in Keys : None \in al[k]
    \/ \E m \in Memories : Kept(s, m, al, mis)

\* The process may be killed before o.
Cut(s, o, al, mis, free) == free \/ o.exposed \/ Disk(s, al, mis \/ o.uncounted)

\* The operations ops lead from s to t, and what is there when the process is
\* killed before one of them is right (unless free, when nothing is claimed).
Path(S, s, ops, t, al, mis, free) ==
    /\ S[0] = s /\ S[Len(ops)] = t
    /\ \A i \in 1 .. Len(ops) : S[i] = Applied(S[i - 1], ops[i]) /\ Cut(S[i - 1], ops[i], al, mis, free)
Leads(s, ops, t, al, mis, free) ==
    /\ \E X : ops \in Seq(X)
    /\ \E S : Path(S, s, ops, t, al, mis, free)

\* What is allowed when the call c is done.
Final(al, c) == IF c = NoCall THEN al ELSE [al EXCEPT ![c.key] = {c.value}]

LEMMA HeadIs ==
    ASSUME NEW m
    PROVE  Info(m).kind = "info" /\ Info(m).bucket = m.bucket /\ Info(m).size = m.size
  BY DEF Info

LEMMA MadeIs == ASSUME NEW s, NEW m, Headed(s, m) PROVE Made(s)
  BY HeadIs DEF Headed, Made

LEMMA LeadsNowhere ==
    ASSUME NEW s, NEW al, NEW mis, NEW free, NEW ops, ops = <<>>
    PROVE  Leads(s, ops, s, al, mis, free)
<1> DEFINE S == [i \in {0} |-> s]
<1>1. Len(ops) = 0 /\ ops \in Seq({})
  OBVIOUS
<1>2. S[0] = s
  OBVIOUS
<1> HIDE DEF S
<1>3. Path(S, s, ops, s, al, mis, free)
  BY <1>1, <1>2 DEF Path
<1> QED BY <1>1, <1>3 DEF Leads

LEMMA LeadsEnd ==
    ASSUME NEW s, NEW t, NEW al, NEW mis, NEW free, NEW ops, ops = <<>>, Leads(s, ops, t, al, mis, free)
    PROVE  t = s
<1>1. Len(ops) = 0
  OBVIOUS
<1> QED BY <1>1 DEF Leads, Path

LEMMA LeadsOn ==
    ASSUME NEW s, NEW ops, ops # <<>>, NEW t, NEW al, NEW mis, NEW free, Leads(s, ops, t, al, mis, free)
    PROVE  /\ Cut(s, Head(ops), al, mis, free)
           /\ Leads(Applied(s, Head(ops)), Tail(ops), t, al, mis, free)
<1>1. PICK X : ops \in Seq(X)
  BY DEF Leads
<1>2. PICK S : Path(S, s, ops, t, al, mis, free)
  BY DEF Leads
<1> DEFINE n == Len(ops)
           T == [i \in 0 .. n - 1 |-> S[i + 1]]
<1>3. n \in Nat /\ n >= 1 /\ Head(ops) = ops[1]
  BY <1>1
<1>4. Tail(ops) \in Seq(X) /\ Len(Tail(ops)) = n - 1 /\ \A i \in 1 .. n - 1 : Tail(ops)[i] = ops[i + 1]
  BY <1>1, <1>3
<1>5. S[1] = Applied(s, Head(ops)) /\ Cut(s, Head(ops), al, mis, free)
  <2>1. 1 \in 1 .. Len(ops) /\ 1 - 1 = 0
    BY <1>3
  <2>2. S[1] = Applied(S[1 - 1], ops[1]) /\ Cut(S[1 - 1], ops[1], al, mis, free)
    BY <1>2, <2>1 DEF Path
  <2> QED BY <1>2, <1>3, <2>2 DEF Path
<1>6. T[0] = S[1] /\ T[n - 1] = t
  BY <1>2, <1>3 DEF Path
<1>7. ASSUME NEW i \in 1 .. n - 1
      PROVE  T[i] = Applied(T[i - 1], Tail(ops)[i]) /\ Cut(T[i - 1], Tail(ops)[i], al, mis, free)
  <2> DEFINE j == i + 1
  <2>1. T[i] = S[j] /\ T[i - 1] = S[j - 1] /\ Tail(ops)[i] = ops[j] /\ j \in 1 .. Len(ops)
    BY <1>3, <1>4
  <2> HIDE DEF T, j
  <2> QED BY <1>2, <2>1 DEF Path
<1> HIDE DEF T, n
<1>8. Path(T, Applied(s, Head(ops)), Tail(ops), t, al, mis, free)
  BY <1>4, <1>5, <1>6, <1>7 DEF Path
<1> QED BY <1>4, <1>5, <1>8 DEF Leads

\* More may be allowed.
LEMMA KeptMore ==
    ASSUME NEW s, NEW m, NEW al, NEW bl, NEW mis, NEW mis2, Kept(s, m, al, mis), mis => mis2,
           \A k \in Keys : al[k] \subseteq bl[k]
    PROVE  Kept(s, m, bl, mis2)
<1>1. PICK N, ch : MapIn(s, m, N, ch) /\ Fits(s, N, al) /\ (mis \/ m.size = Cardinality(N))
  BY DEF Kept
<1>2. \A h \in N : KeyOf(s, h) \in Keys
  BY <1>1 DEF MapIn, Entries, EntryAt
<1>3. Fits(s, N, bl)
  BY <1>1, <1>2 DEF Fits
<1> QED BY <1>1, <1>3 DEF Kept

\* One operation.
LEMMA LeadsOne ==
    ASSUME NEW s, NEW o, NEW al, NEW mis, NEW free, Cut(s, o, al, mis, free)
    PROVE  Leads(s, <<o>>, Applied(s, o), al, mis, free)
<1> DEFINE ops == <<o>>
           S == [i \in {0, 1} |-> IF i = 0 THEN s ELSE Applied(s, o)]
<1>1. ops \in Seq({o}) /\ Len(ops) = 1 /\ ops[1] = o
  OBVIOUS
<1>2. S[0] = s /\ S[1] = Applied(s, o)
  OBVIOUS
<1> HIDE DEF S, ops
<1>3. ASSUME NEW i \in 1 .. Len(ops) PROVE S[i] = Applied(S[i - 1], ops[i]) /\ Cut(S[i - 1], ops[i], al, mis, free)
  <2>1. i = 1 /\ i - 1 = 0
    BY <1>1
  <2> QED BY <1>1, <1>2, <2>1
<1>4. Path(S, s, ops, Applied(s, o), al, mis, free)
  BY <1>1, <1>2, <1>3 DEF Path
<1>5. Leads(s, ops, Applied(s, o), al, mis, free)
  BY <1>1, <1>4 DEF Leads
<1> QED BY <1>5 DEF ops

\* One sequence of operations after another.
LEMMA LeadsBoth ==
    ASSUME NEW s, NEW t, NEW u, NEW a, NEW b, NEW al, NEW mis, NEW free,
           Leads(s, a, t, al, mis, free), Leads(t, b, u, al, mis, free)
    PROVE  Leads(s, a \o b, u, al, mis, free)
<1>1. PICK X, Y : a \in Seq(X) /\ b \in Seq(Y)
  BY DEF Leads
<1>2. PICK S, T : Path(S, s, a, t, al, mis, free) /\ Path(T, t, b, u, al, mis, free)
  BY DEF Leads
<1> DEFINE m == Len(a)
           n == Len(b)
           ops == a \o b
           U == [i \in 0 .. m + n |-> IF i <= m THEN S[i] ELSE T[i - m]]
<1>3. m \in Nat /\ n \in Nat /\ ops \in Seq(X \cup Y) /\ Len(ops) = m + n
      /\ (\A i \in 1 .. m : ops[i] = a[i]) /\ \A i \in 1 .. n : ops[m + i] = b[i]
  <2>1. a \in Seq(X \cup Y) /\ b \in Seq(X \cup Y)
    BY <1>1
  <2> QED BY <2>1
<1>4. S[0] = s /\ S[m] = t /\ T[0] = t /\ T[n] = u
  BY <1>2 DEF Path
<1>5. \A i \in 0 .. m : U[i] = S[i]
  BY <1>3
<1>6. ASSUME NEW i \in 0 .. n PROVE U[m + i] = T[i]
  <2>1. CASE i = 0
    BY <1>3, <1>4, <2>1
  <2>2. CASE i > 0
    <3>1. m + i \in 0 .. m + n /\ ~(m + i <= m) /\ m + i - m = i
      BY <1>3, <2>2
    <3> QED BY <3>1
  <2> QED BY <2>1, <2>2
<1> HIDE DEF U, m, n, ops
<1>7. ASSUME NEW i \in 1 .. m + n
      PROVE  U[i] = Applied(U[i - 1], ops[i]) /\ Cut(U[i - 1], ops[i], al, mis, free)
  <2>1. CASE i <= m
    <3>1. i \in 1 .. Len(a) /\ i \in 1 .. m /\ i \in 0 .. m /\ i - 1 \in 0 .. m
      BY <1>3, <2>1 DEF m
    <3>2. S[i] = Applied(S[i - 1], a[i]) /\ Cut(S[i - 1], a[i], al, mis, free)
      BY <1>2, <3>1 DEF Path
    <3> QED BY <1>3, <1>5, <3>1, <3>2
  <2>2. CASE i > m
    <3> DEFINE j == i - m
    <3>1. j \in 1 .. Len(b) /\ j \in 1 .. n /\ j \in 0 .. n /\ j - 1 \in 0 .. n /\ m + j = i /\ m + (j - 1) = i - 1
      BY <1>3, <2>2 DEF n
    <3> HIDE DEF j
    <3>2. T[j] = Applied(T[j - 1], b[j]) /\ Cut(T[j - 1], b[j], al, mis, free)
      BY <1>2, <3>1 DEF Path
    <3>3. U[i] = T[j] /\ U[i - 1] = T[j - 1] /\ ops[i] = b[j]
      BY <1>3, <1>6, <3>1
    <3> QED BY <3>2, <3>3
  <2> QED BY <1>3, <2>1, <2>2
<1>8. U[0] = s /\ U[m + n] = u
  <2>1. 0 \in 0 .. m /\ n \in 0 .. n
    BY <1>3
  <2> QED BY <1>4, <1>5, <1>6, <2>1
<1>9. Path(U, s, ops, u, al, mis, free)
  BY <1>3, <1>7, <1>8 DEF Path
<1>10. Leads(s, ops, u, al, mis, free)
  BY <1>3, <1>9 DEF Leads
<1> QED BY <1>10 DEF ops

\* A call has something to do.
Goes(s, ops, t, al, mis) == Leads(s, ops, t, al, mis, FALSE) /\ ops # <<>>

LEMMA GoesBoth ==
    ASSUME NEW s, NEW t, NEW u, NEW a, NEW b, NEW al, NEW mis,
           Leads(s, a, t, al, mis, FALSE), Leads(t, b, u, al, mis, FALSE), a # <<>> \/ b # <<>>
    PROVE  Goes(s, a \o b, u, al, mis)
<1>1. PICK X : a \in Seq(X)
  BY DEF Leads
<1>2. PICK Y : b \in Seq(Y)
  BY DEF Leads
<1> DEFINE Z == X \cup Y
<1>3. a \in Seq(Z) /\ b \in Seq(Z)
  BY <1>1, <1>2
<1> HIDE DEF Z
<1>4. Len(a \o b) = Len(a) + Len(b) /\ Len(a) \in Nat /\ Len(b) \in Nat /\ (Len(a) # 0 \/ Len(b) # 0)
  BY <1>3
<1>5. a \o b # <<>>
  BY <1>4
<1> QED BY <1>5, LeadsBoth DEF Goes

LEMMA Tuples ==
    ASSUME NEW o, NEW p, NEW q
    PROVE  <<o>> \o <<p>> = <<o, p>> /\ <<o, p>> \o <<q>> = <<o, p, q>>
<1> DEFINE X == {o, p, q}
           a == <<o>> \o <<p>>
           b == <<o, p>> \o <<q>>
           c == <<o, p>>
           d == <<o, p, q>>
<1>1. a \in Seq(X) /\ c \in Seq(X) /\ Len(a) = Len(c) /\ \A i \in 1 .. Len(a) : a[i] = c[i]
  OBVIOUS
<1>2. b \in Seq(X) /\ d \in Seq(X) /\ Len(b) = Len(d) /\ \A i \in 1 .. Len(b) : b[i] = d[i]
  OBVIOUS
<1> HIDE DEF X, a, b, c, d
<1>3. a = c /\ b = d
  BY <1>1, <1>2, SeqEqual
<1> QED BY <1>3 DEF a, b, c, d

LEMMA LeadsTwo ==
    ASSUME NEW s, NEW o, NEW p, NEW al, NEW mis, NEW free,
           Cut(s, o, al, mis, free), Cut(Applied(s, o), p, al, mis, free)
    PROVE  Leads(s, <<o, p>>, Applied(Applied(s, o), p), al, mis, free)
<1>1. <<o>> \o <<p>> = <<o, p>>
  BY Tuples
<1>2. Leads(s, <<o>> \o <<p>>, Applied(Applied(s, o), p), al, mis, free)
  BY LeadsOne, LeadsBoth
<1> QED BY <1>1, <1>2

LEMMA LeadsThree ==
    ASSUME NEW s, NEW o, NEW p, NEW q, NEW al, NEW mis, NEW free,
           Cut(s, o, al, mis, free), Cut(Applied(s, o), p, al, mis, free),
           Cut(Applied(Applied(s, o), p), q, al, mis, free)
    PROVE  Leads(s, <<o, p, q>>, Applied(Applied(Applied(s, o), p), q), al, mis, free)
<1>1. <<o, p>> \o <<q>> = <<o, p, q>>
  BY Tuples
<1>2. Leads(s, <<o, p>> \o <<q>>, Applied(Applied(Applied(s, o), p), q), al, mis, free)
  BY LeadsOne, LeadsTwo, LeadsBoth
<1> QED BY <1>1, <1>2

\* Operations that are not marked.
Plain(o) == \E h, content : o = allocate(h) \/ o = write(h, content) \/ o = Free(h)
Plains(ops) == (\E X : ops \in Seq(X)) /\ \A i \in 1 .. Len(ops) : Plain(ops[i])

LEMMA PlainIs ==
    ASSUME NEW o, Plain(o)
    PROVE  /\ [o EXCEPT !.exposed = TRUE] = Marked(o, TRUE, FALSE)
           /\ [o EXCEPT !.uncounted = TRUE] = Marked(o, FALSE, TRUE)
           /\ ~o.exposed /\ ~o.uncounted
<1>1. PICK h, content : o = allocate(h) \/ o = write(h, content) \/ o = Free(h)
  BY DEF Plain
<1>2. ~o.exposed /\ ~o.uncounted
  BY <1>1, OpIs
<1>3. /\ [o EXCEPT !.exposed = TRUE] = Marked(o, TRUE, FALSE)
      /\ [o EXCEPT !.uncounted = TRUE] = Marked(o, FALSE, TRUE)
  <2>1. MarksAs(o)
    BY <1>1, MarkIs
  <2> QED BY <2>1, Zenon DEF MarksAs
<1> QED BY <1>2, <1>3, Zenon

LEMMA MarkedDoes ==
    ASSUME NEW s, NEW o, NEW e, NEW u
    PROVE  Applied(s, Marked(o, e, u)) = Applied(s, o)
<1> DEFINE p == Marked(o, e, u)
<1>1. p.op = o.op /\ p.h = o.h /\ p.content = o.content
  BY DEF Marked
<1> HIDE DEF p
<1>2. Applied(s, p) = Applied(s, o)
  BY <1>1 DEF Applied
<1> QED BY <1>2 DEF p

LEMMA PlainsOne == ASSUME NEW o, Plain(o) PROVE Plains(<<o>>)
<1>1. <<o>> \in Seq({o}) /\ \A i \in 1 .. Len(<<o>>) : <<o>>[i] = o
  OBVIOUS
<1>2. \A i \in 1 .. Len(<<o>>) : Plain(<<o>>[i])
  BY <1>1, Zenon
<1> QED BY <1>1, <1>2, Zenon DEF Plains

LEMMA PlainsTwo == ASSUME NEW o, NEW p, Plain(o), Plain(p) PROVE Plains(<<o, p>>)
<1>1. <<o, p>> \in Seq({o, p}) /\ \A i \in 1 .. Len(<<o, p>>) : <<o, p>>[i] \in {o, p}
  OBVIOUS
<1>2. \A i \in 1 .. Len(<<o, p>>) : Plain(<<o, p>>[i])
  BY <1>1, Zenon
<1> QED BY <1>1, <1>2, Zenon DEF Plains

LEMMA PlainsBoth == ASSUME NEW a, NEW b, Plains(a), Plains(b) PROVE Plains(a \o b)
<1>1. PICK X, Y : a \in Seq(X) /\ b \in Seq(Y)
  BY DEF Plains
<1>2. a \in Seq(X \cup Y) /\ b \in Seq(X \cup Y)
  BY <1>1
<1>3. ASSUME NEW i \in 1 .. Len(a) + Len(b) PROVE Plain((a \o b)[i])
  <2>1. CASE i <= Len(a)
    <3>1. i \in 1 .. Len(a) /\ (a \o b)[i] = a[i]
      BY <1>2, <2>1
    <3> QED BY <3>1 DEF Plains
  <2>2. CASE i > Len(a)
    <3>1. i - Len(a) \in 1 .. Len(b) /\ (a \o b)[i] = b[i - Len(a)]
      BY <1>2, <2>2
    <3> QED BY <3>1 DEF Plains
  <2> QED BY <1>2, <2>1, <2>2
<1>4. a \o b \in Seq(X \cup Y) /\ Len(a \o b) = Len(a) + Len(b)
  BY <1>2
<1> QED BY <1>3, <1>4 DEF Plains

LEMMA LeadsExposed ==
    ASSUME NEW s, NEW ops, Plains(ops), NEW t, NEW al, NEW mis, Leads(s, ops, t, al, mis, TRUE)
    PROVE  Leads(s, Exposed(ops), t, al, mis, FALSE)
<1> DEFINE e == Exposed(ops)
<1>1. PICK X : ops \in Seq(X)
  BY DEF Plains
<1>2. PICK S : Path(S, s, ops, t, al, mis, TRUE)
  BY DEF Leads
<1>3. DOMAIN ops = 1 .. Len(ops) /\ Len(ops) \in Nat
  BY <1>1
<1>4. ASSUME NEW i \in 1 .. Len(ops) PROVE e[i] = Marked(ops[i], TRUE, FALSE)
  <2>1. e[i] = [ops[i] EXCEPT !.exposed = TRUE]
    BY <1>3 DEF Exposed
  <2> HIDE DEF e
  <2> QED BY <2>1, PlainIs DEF Plains
<1>5. e \in Seq({e[i] : i \in 1 .. Len(ops)}) /\ Len(e) = Len(ops)
  <2>1. DOMAIN e = 1 .. Len(ops) /\ e = [i \in 1 .. Len(ops) |-> e[i]]
    BY <1>3 DEF Exposed
  <2> HIDE DEF e
  <2> QED BY <1>3, <2>1
<1> HIDE DEF e
<1>6. ASSUME NEW i \in 1 .. Len(e) PROVE S[i] = Applied(S[i - 1], e[i]) /\ Cut(S[i - 1], e[i], al, mis, FALSE)
  <2>1. S[i] = Applied(S[i - 1], ops[i])
    BY <1>2, <1>5 DEF Path
  <2>2. Plain(ops[i]) /\ e[i] = Marked(ops[i], TRUE, FALSE)
    BY <1>4, <1>5 DEF Plains
  <2>3. Applied(S[i - 1], e[i]) = Applied(S[i - 1], ops[i])
    <3>1. Applied(S[i - 1], Marked(ops[i], TRUE, FALSE)) = Applied(S[i - 1], ops[i])
      BY MarkedDoes, Zenon
    <3> QED BY <2>2, <3>1, Zenon
  <2>4. e[i].exposed
    BY <2>2 DEF Marked
  <2> QED BY <2>1, <2>3, <2>4 DEF Cut
<1>7. Path(S, s, e, t, al, mis, FALSE)
  BY <1>2, <1>5, <1>6 DEF Path
<1>8. Leads(s, e, t, al, mis, FALSE)
  BY <1>5, <1>7 DEF Leads
<1> QED BY <1>8 DEF e

LEMMA LeadsUncounted ==
    ASSUME NEW s, NEW ops, Plains(ops), NEW t, NEW al, NEW mis, Leads(s, ops, t, al, TRUE, FALSE)
    PROVE  Leads(s, Uncounted(ops), t, al, mis, FALSE)
<1> DEFINE e == Uncounted(ops)
<1>1. PICK X : ops \in Seq(X)
  BY DEF Plains
<1>2. PICK S : Path(S, s, ops, t, al, TRUE, FALSE)
  BY DEF Leads
<1>3. DOMAIN ops = 1 .. Len(ops) /\ Len(ops) \in Nat
  BY <1>1
<1>4. ASSUME NEW i \in 1 .. Len(ops) PROVE e[i] = Marked(ops[i], FALSE, TRUE)
  <2>1. e[i] = [ops[i] EXCEPT !.uncounted = TRUE]
    BY <1>3 DEF Uncounted
  <2> HIDE DEF e
  <2> QED BY <2>1, PlainIs DEF Plains
<1>5. e \in Seq({e[i] : i \in 1 .. Len(ops)}) /\ Len(e) = Len(ops)
  <2>1. DOMAIN e = 1 .. Len(ops) /\ e = [i \in 1 .. Len(ops) |-> e[i]]
    BY <1>3 DEF Uncounted
  <2> HIDE DEF e
  <2> QED BY <1>3, <2>1
<1> HIDE DEF e
<1>6. ASSUME NEW i \in 1 .. Len(e) PROVE S[i] = Applied(S[i - 1], e[i]) /\ Cut(S[i - 1], e[i], al, mis, FALSE)
  <2>1. S[i] = Applied(S[i - 1], ops[i]) /\ Cut(S[i - 1], ops[i], al, TRUE, FALSE)
    BY <1>2, <1>5 DEF Path
  <2>2. Plain(ops[i]) /\ e[i] = Marked(ops[i], FALSE, TRUE)
    BY <1>4, <1>5 DEF Plains
  <2>3. Applied(S[i - 1], e[i]) = Applied(S[i - 1], ops[i])
    <3>1. Applied(S[i - 1], Marked(ops[i], FALSE, TRUE)) = Applied(S[i - 1], ops[i])
      BY MarkedDoes, Zenon
    <3> QED BY <2>2, <3>1, Zenon
  <2>4. e[i].uncounted = TRUE
    BY <2>2 DEF Marked
  <2>5. ~ops[i].exposed
    BY <2>2, OpIs DEF Plain
  <2>6. Disk(S[i - 1], al, TRUE)
    <3>1. Disk(S[i - 1], al, TRUE \/ ops[i].uncounted)
      BY <2>1, <2>5 DEF Cut
    <3>2. (TRUE \/ ops[i].uncounted) = TRUE
      OBVIOUS
    <3> QED BY <3>1, <3>2
  <2>7. (mis \/ e[i].uncounted) = TRUE
    BY <2>4
  <2>8. Disk(S[i - 1], al, mis \/ e[i].uncounted)
    BY <2>6, <2>7
  <2> QED BY <2>1, <2>3, <2>8 DEF Cut
<1>7. Path(S, s, e, t, al, mis, FALSE)
  BY <1>2, <1>5, <1>6 DEF Path
<1>8. Leads(s, e, t, al, mis, FALSE)
  BY <1>5, <1>7 DEF Leads
<1> QED BY <1>8 DEF e

-----------------------------------------------------------------------------
(* An update.                                                              *)

\* The node h leads to another block for its value.
LEMMA UpdatedIs ==
    ASSUME MapBounds, NEW s, NEW t, NEW m, NEW N, NEW ch, MapIn(s, m, N, ch), NEW h \in N, NEW new \in Nat \ {0},
           new \notin DOMAIN s \ {s[h].value}, NEW v \in Values,
           DOMAIN t = (DOMAIN s \ {s[h].value}) \cup {new}, t[new] = Data(v),
           t[h] = NodeOf(s[h].key, new, s[h].nextBlock),
           \A x \in DOMAIN s : x # s[h].value /\ x # h => t[x] = s[x],
           NEW A, NEW al \in [Keys -> A], Fits(s, N, al)
    PROVE  /\ MapIn(t, m, N, ch)
           /\ Fits(t, N, [al EXCEPT ![KeyOf(s, h)] = {v}])
<1> DEFINE old == s[h].value
<1>1. Headed(s, m) /\ Entries(s, m.bucket, N) /\ Chains(s, m.buckets, N, ch)
  BY DEF MapIn
<1>2. EntryAt(s, h) /\ Alone(s, m.bucket, h) /\ h \in Handles /\ h \in Nat \ {0}
  BY <1>1 DEF Entries, Handles
<1>3. ASSUME NEW x \in DOMAIN s, x # old, x # h PROVE Same(s, t, x)
  BY <1>3 DEF Same
<1>4. Headed(t, m)
  <2>1. Same(s, t, FIRSTFILESTORAGEBLOCKHANDLE) /\ Same(s, t, m.bucket)
    BY <1>1, <1>2, <1>3 DEF Headed, Alone, Uses
  <2> QED BY <1>1, <2>1 DEF Headed, Same
<1>5. t[h].key = s[h].key /\ t[h].value = new /\ t[h].nextBlock = s[h].nextBlock
  BY NodeIs
<1>6. Same(s, t, s[h].key) /\ new # s[h].key /\ new # h /\ h \in DOMAIN t
      /\ new # FIRSTFILESTORAGEBLOCKHANDLE /\ new # m.bucket
  BY <1>1, <1>2, <1>3 DEF EntryAt, Alone, Uses, Headed
<1>7. KeyOf(t, h) = KeyOf(s, h) /\ ValueOf(t, h) = v
  BY <1>5, <1>6, DataIs DEF KeyOf, ValueOf, Same
<1>8. EntryAt(t, h) /\ Alone(t, m.bucket, h)
  <2>1. EntryAt(t, h)
    BY <1>2, <1>5, <1>6, <1>7 DEF EntryAt, Same
  <2>2. Alone(t, m.bucket, h)
    BY <1>2, <1>5, <1>6 DEF Alone, Uses
  <2> QED BY <2>1, <2>2
<1> DEFINE M == N \ {h}
<1>9. ASSUME NEW g \in M PROVE Stays(s, t, g) /\ t[g].nextBlock = s[g].nextBlock
  <2>1. EntryAt(s, g) /\ Uses(s, g) \cap Uses(s, h) = {}
    BY <1>1 DEF Entries
  <2>2. ASSUME NEW x \in Uses(s, g) PROVE Same(s, t, x)
    BY <1>3, <2>1 DEF EntryAt, Uses
  <2> QED BY <2>1, <2>2, SameStays
<1>10. Entries(s, m.bucket, M)
  BY <1>1, EntriesLess
<1>11. Entries(t, m.bucket, M)
  BY <1>9, <1>10, EntriesStay
<1>12. ASSUME NEW g \in M PROVE KeyOf(t, g) = KeyOf(s, g) /\ ValueOf(t, g) = ValueOf(s, g) /\ Uses(t, g) = Uses(s, g)
  BY <1>9, <1>10, EntryStays DEF Entries
<1>13. ASSUME NEW g \in M PROVE KeyOf(t, g) # KeyOf(t, h) /\ Uses(t, g) \cap Uses(t, h) = {}
  <2>1. KeyOf(s, g) # KeyOf(s, h) /\ Uses(s, g) \cap Uses(s, h) = {} /\ EntryAt(s, g)
    BY <1>1 DEF Entries
  <2>2. Uses(s, g) \subseteq DOMAIN s /\ s[h].value \notin Uses(s, g)
    BY <2>1 DEF EntryAt, Uses
  <2>3. new \notin Uses(s, g)
    BY <2>2
  <2> QED BY <1>5, <1>7, <1>12, <2>1, <2>3 DEF Uses
<1>14. Entries(t, m.bucket, N)
  <2>1. N = M \cup {h}
    OBVIOUS
  <2> HIDE DEF M
  <2>2. Entries(t, m.bucket, M \cup {h})
    BY <1>2, <1>8, <1>11, <1>13, EntriesMore
  <2> QED BY <2>1, <2>2
<1>15. Chains(t, m.buckets, N, ch)
  <2>1. \A g \in N : KeyOf(t, g) = KeyOf(s, g) /\ t[g].nextBlock = s[g].nextBlock
    BY <1>5, <1>7, <1>9, <1>12
  <2> QED BY <1>1, <2>1, ChainsStay
<1>16. Fits(t, N, [al EXCEPT ![KeyOf(s, h)] = {v}])
  <2> DEFINE bl == [al EXCEPT ![KeyOf(s, h)] = {v}]
  <2>1. ASSUME NEW g \in N PROVE ValueOf(t, g) \in bl[KeyOf(t, g)]
    <3>1. CASE g = h
      <4>1. KeyOf(s, h) \in Keys
        BY <1>2 DEF EntryAt
      <4>2. bl[KeyOf(s, h)] = {v}
        BY <4>1
      <4> QED BY <1>7, <3>1, <4>2
    <3>2. CASE g # h
      BY <1>7, <1>12, <1>13, <3>2 DEF Fits
    <3> QED BY <3>1, <3>2
  <2>2. ASSUME NEW k \in Keys, \A g \in N : KeyOf(t, g) # k PROVE None \in bl[k]
    <3>1. k # KeyOf(s, h) /\ \A g \in N : KeyOf(s, g) # k
      BY <1>7, <1>12, <2>2
    <3> QED BY <3>1 DEF Fits
  <2> QED BY <2>1, <2>2 DEF Fits
<1> QED BY <1>4, <1>14, <1>15, <1>16 DEF MapIn

\* A map that is open may be left as it is.
LEMMA CutKept ==
    ASSUME NEW s, NEW m \in Memories, NEW al, NEW mis, Kept(s, m, al, mis), NEW o, ~o.exposed, NEW free
    PROVE  Cut(s, o, al, mis, free)
<1>1. Kept(s, m, al, mis \/ o.uncounted)
  BY DEF Kept
<1> QED BY <1>1 DEF Cut, Disk

LEMMA UpdateLeads ==
    ASSUME MapBounds, mem \in Memories, NEW N, NEW ch, MapIn(store, mem, N, ch),
           NEW A, NEW al \in [Keys -> A], Fits(store, N, al), NEW mis, mis \/ mem.size = Cardinality(N),
           NEW h \in N, NEW v \in Values, NEW new \in Handles, new \notin DOMAIN store \ {store[h].value}
    PROVE  \E t : /\ Goes(store, <<Free(store[h].value)>>
                                 \o Exposed(<<allocate(new)>> \o WriteData(new, v)
                                            \o <<write(h, [store[h] EXCEPT !.value = new])>>), t, al, mis)
                  /\ Kept(t, mem, [al EXCEPT ![KeyOf(store, h)] = {v}], mis)
<1> DEFINE old == store[h].value
           c == [store[h] EXCEPT !.value = new]
           s1 == Applied(store, Free(old))
           s2 == Applied(s1, allocate(new))
           s3 == Applied(s2, write(new, Data(Torn)))
           s4 == Applied(s3, write(new, Data(v)))
           s5 == Applied(s4, write(h, c))
           D == DOMAIN store \ {old}
<1>0. EntryAt(store, h) /\ h # old /\ new \in Nat \ {0} /\ h \in D /\ h # new
  BY DEF MapIn, Entries, EntryAt, Alone, Handles
<1>1. DOMAIN s1 = D /\ \A x \in D : s1[x] = store[x]
  BY FreeIs
<1>2. DOMAIN s2 = D \cup {new} /\ \A x \in D : s2[x] = store[x]
  <2> HIDE DEF s1
  <2>1. DOMAIN s2 = DOMAIN s1 \cup {new} /\ \A x \in DOMAIN s1 : x # new => s2[x] = s1[x]
    BY AllocateIs
  <2> QED BY <1>1, <2>1
<1>3. DOMAIN s3 = D \cup {new} /\ \A x \in D : s3[x] = store[x]
  <2> HIDE DEF s2
  <2>1. DOMAIN s3 = DOMAIN s2 /\ \A x \in DOMAIN s2 : x # new => s3[x] = s2[x]
    BY <1>2, WriteIs
  <2> QED BY <1>2, <2>1
<1>4. DOMAIN s4 = D \cup {new} /\ s4[new] = Data(v) /\ \A x \in D : s4[x] = store[x]
  <2> HIDE DEF s3
  <2>1. DOMAIN s4 = DOMAIN s3 /\ s4[new] = Data(v) /\ \A x \in DOMAIN s3 : x # new => s4[x] = s3[x]
    <3>1. new \in DOMAIN s3
      BY <1>3
    <3> HIDE DEF D, old
    <3> QED BY <3>1, WriteIs
  <2> QED BY <1>3, <2>1
<1>5. DOMAIN s5 = D \cup {new} /\ s5[new] = Data(v) /\ s5[h] = c /\ \A x \in D : x # h => s5[x] = store[x]
  <2> HIDE DEF s4, c
  <2>1. DOMAIN s5 = DOMAIN s4 /\ s5[h] = c /\ \A x \in DOMAIN s4 : x # h => s5[x] = s4[x]
    <3>1. h \in DOMAIN s4
      BY <1>0, <1>4
    <3> HIDE DEF D, old
    <3> QED BY <3>1, WriteIs
  <2> QED BY <1>0, <1>4, <2>1
<1>6. c = NodeOf(store[h].key, new, store[h].nextBlock)
  <2>1. c = GivenValue(store[h], new)
    BY DEF GivenValue
  <2> HIDE DEF c
  <2> QED BY <1>0, <2>1, NodeSet DEF EntryAt
<1>7. MapIn(s5, mem, N, ch) /\ Fits(s5, N, [al EXCEPT ![KeyOf(store, h)] = {v}])
  <2> HIDE DEF s5, c
  <2> QED BY <1>0, <1>5, <1>6, UpdatedIs
<1>8. Leads(store, <<Free(old)>>, s1, al, mis, FALSE)
  <2>1. Kept(store, mem, al, mis)
    BY DEF Kept
  <2>2. Cut(store, Free(old), al, mis, FALSE)
    BY <2>1, CutKept, OpIs
  <2> QED BY <2>2, LeadsOne
<1> DEFINE a == <<allocate(new)>>
           b == WriteData(new, v)
           d == <<write(h, c)>>
<1>9. Leads(s1, a, s2, al, mis, TRUE) /\ Leads(s2, b, s4, al, mis, TRUE) /\ Leads(s4, d, s5, al, mis, TRUE)
  <2>1. \A s, o : Cut(s, o, al, mis, TRUE)
    BY DEF Cut
  <2> HIDE DEF s1, c
  <2>2. Leads(s1, a, s2, al, mis, TRUE)
    BY <2>1, LeadsOne
  <2>3. Leads(s2, b, s4, al, mis, TRUE)
    <3> HIDE DEF s2
    <3> QED BY <2>1, LeadsTwo DEF WriteData
  <2>4. Leads(s4, d, s5, al, mis, TRUE)
    <3> HIDE DEF s4
    <3> QED BY <2>1, LeadsOne
  <2> QED BY <2>2, <2>3, <2>4
<1>10. Plains(a) /\ Plains(b) /\ Plains(d)
  BY PlainsOne, PlainsTwo DEF Plain, WriteData
<1> DEFINE e == a \o b \o d
<1>11. Plains(e) /\ Leads(s1, e, s5, al, mis, TRUE)
  <2> HIDE DEF a, b, d, s1, s2, s4, s5
  <2> QED BY <1>9, <1>10, PlainsBoth, LeadsBoth
<1>12. Leads(s1, Exposed(e), s5, al, mis, FALSE)
  <2> HIDE DEF e, s1, s5
  <2> QED BY <1>11, LeadsExposed
<1>13. Goes(store, <<Free(old)>> \o Exposed(e), s5, al, mis)
  <2> HIDE DEF e, s1, s5
  <2> QED BY <1>8, <1>12, GoesBoth
<1>14. Kept(s5, mem, [al EXCEPT ![KeyOf(store, h)] = {v}], mis)
  <2> HIDE DEF s5
  <2> QED BY <1>7 DEF Kept
<1> QED
  <2> HIDE DEF s5
  <2> QED BY <1>13, <1>14

-----------------------------------------------------------------------------
(* An insertion.                                                           *)

\* In t the last of q leads to n; m1 is the head and the buckets then.
LinkedIn(s, t, m, m1, q, n) ==
    /\ t[FIRSTFILESTORAGEBLOCKHANDLE] = Info(m1) /\ t[m.bucket] = [kind |-> "buckets", first |-> m1.buckets]
    /\ q # <<>> => t[q[Len(q)]] = LinkedTo(s[q[Len(q)]], n)
    /\ \A x \in DOMAIN s :
          x # FIRSTFILESTORAGEBLOCKHANDLE /\ x # m.bucket /\ (q # <<>> => x # q[Len(q)]) => t[x] = s[x]

\* The nodes N, none of them that of k, have the keys and values they had.
Others(s, t, N, k) ==
    \A h \in N : KeyOf(s, h) # k /\ KeyOf(t, h) = KeyOf(s, h) /\ ValueOf(t, h) = ValueOf(s, h)

LEMMA InsertedFits ==
    ASSUME NEW s, NEW t, NEW bucket, NEW N, Entries(s, bucket, N), NEW A, NEW al \in [Keys -> A], Fits(s, N, al),
           NEW k \in Keys, NEW v, NEW n, KeyOf(t, n) = k, ValueOf(t, n) = v, Others(s, t, N, k)
    PROVE  Fits(t, N \cup {n}, Put(al, k, {v}))
<1> DEFINE bl == Put(al, k, {v})
<1>1. bl[k] = {v} /\ \A j \in Keys : j # k => bl[j] = al[j]
  BY DEF Put
<1> HIDE DEF bl
<1>2. \A h \in N : KeyOf(s, h) \in Keys
  BY DEF Entries, EntryAt
<1>3. \A h \in N \cup {n} : ValueOf(t, h) \in bl[KeyOf(t, h)]
  BY <1>1, <1>2 DEF Fits, Others
<1>4. ASSUME NEW j \in Keys, \A h \in N \cup {n} : KeyOf(t, h) # j PROVE None \in bl[j]
  <2>1. j # k
    BY <1>4
  <2>2. \A h \in N : KeyOf(s, h) # j
    BY <1>4 DEF Others
  <2> QED BY <1>1, <2>1, <2>2 DEF Fits
<1>5. Fits(t, N \cup {n}, bl)
  BY <1>3, <1>4 DEF Fits
<1> QED BY <1>5 DEF bl

\* The node n is there, and the last node of its chain, or the bucket, leads
\* to it.
LEMMA InsertedIs ==
    ASSUME MapBounds, NEW s, NEW t, NEW m \in Memories, NEW N, NEW ch, MapIn(s, m, N, ch),
           NEW k \in Keys, \A h \in N : KeyOf(s, h) # k, NEW v \in Values,
           NEW n \in Handles, NEW key \in Nat \ {0}, NEW value \in Nat \ {0},
           n # key, n # value, key # value, n \notin DOMAIN s, key \notin DOMAIN s, value \notin DOMAIN s,
           DOMAIN t = DOMAIN s \cup {n, key, value},
           t[n] = NodeOf(key, value, Nil), t[key] = Data(k), t[value] = Data(v),
           NEW m1 \in Memories, m1.bucket = m.bucket,
           NEW q, q = ch[Hash[k]], m1.buckets = (IF q = <<>> THEN Put(m.buckets, Hash[k], n) ELSE m.buckets),
           LinkedIn(s, t, m, m1, q, n), NEW A, NEW al \in [Keys -> A], Fits(s, N, al)
    PROVE  MapIn(t, m1, N \cup {n}, Longer(ch, Hash[k], n)) /\ Fits(t, N \cup {n}, Put(al, k, {v}))
<1> DEFINE b == Hash[k]
           last == q[Len(q)]
<1>0. /\ t[FIRSTFILESTORAGEBLOCKHANDLE] = Info(m1) /\ t[m.bucket] = [kind |-> "buckets", first |-> m1.buckets]
      /\ q # <<>> => t[last] = LinkedTo(s[last], n)
      /\ \A x \in DOMAIN s :
            x # FIRSTFILESTORAGEBLOCKHANDLE /\ x # m.bucket /\ (q # <<>> => x # last) => t[x] = s[x]
  BY DEF LinkedIn
<1>1. Headed(s, m) /\ Entries(s, m.bucket, N) /\ Chains(s, m.buckets, N, ch) /\ b \in Buckets
  BY DEF MapIn, MapBounds
<1>2. q \in Seq(N) /\ (q # <<>> => last \in N)
  <2>1. q \in Seq(N) /\ \A i \in 1 .. Len(q) : q[i] \in N
    BY <1>1, ChainOf
  <2>2. q # <<>> => Len(q) \in 1 .. Len(q)
    BY <2>1
  <2> QED BY <2>1, <2>2
<1>3. Headed(t, m1)
  <2>1. DOMAIN t \subseteq Nat \ {0}
    BY <1>1 DEF Headed, Handles
  <2> QED BY <1>0, <1>1, <2>1 DEF Headed
<1> HIDE DEF b, last
<1>4. ASSUME NEW h \in N
      PROVE  /\ EntryAt(s, h) /\ Alone(s, m.bucket, h) /\ n # h
             /\ (q # <<>> => s[h].key # last /\ s[h].value # last)
  <2>1. EntryAt(s, h) /\ Alone(s, m.bucket, h)
    BY <1>1 DEF Entries
  <2>2. n # h
    BY <2>1 DEF EntryAt
  <2>3. ASSUME q # <<>> PROVE s[h].key # last /\ s[h].value # last
    <3>1. last \in N
      BY <1>2, <2>3
    <3>2. last # h => Uses(s, last) \cap Uses(s, h) = {}
      BY <1>1, <3>1 DEF Entries
    <3> QED BY <2>1, <3>2 DEF Uses, Alone
  <2> QED BY <2>1, <2>2, <2>3
<1>5. ASSUME NEW h \in N
      PROVE  /\ Stays(s, t, h)
             /\ t[h].nextBlock = IF q # <<>> /\ h = last THEN n ELSE s[h].nextBlock
  <2>1. EntryAt(s, h) /\ Alone(s, m.bucket, h)
    BY <1>4
  <2>2. t[s[h].key] = s[s[h].key] /\ t[s[h].value] = s[s[h].value]
        /\ s[h].key \in DOMAIN t /\ s[h].value \in DOMAIN t /\ h \in DOMAIN t
    BY <1>0, <1>4, <2>1 DEF EntryAt, Alone, Uses
  <2>3. CASE q # <<>> /\ h = last
    <3>1. t[h] = NodeOf(s[h].key, s[h].value, n)
      <4>1. t[h] = LinkedTo(s[h], n)
        BY <1>0, <2>3
      <4>2. s[h] = NodeOf(s[h].key, s[h].value, s[h].nextBlock)
        BY <2>1 DEF EntryAt
      <4>3. LinkedTo(s[h], n) = NodeOf(s[h].key, s[h].value, n)
        BY <4>2, NodeSet
      <4> QED BY <4>1, <4>3
    <3>2. t[h].nextBlock = n
      BY <3>1, NodeIs
    <3> QED BY <2>2, <2>3, <3>1, <3>2 DEF Stays
  <2>4. CASE ~(q # <<>> /\ h = last)
    <3>1. t[h] = s[h]
      BY <1>0, <2>1, <2>4 DEF EntryAt, Alone, Uses
    <3> QED BY <2>1, <2>2, <2>4, <3>1 DEF Stays, EntryAt
  <2> QED BY <2>3, <2>4
<1>6. Entries(t, m.bucket, N) /\ \A h \in N : KeyOf(t, h) = KeyOf(s, h) /\ Uses(t, h) = Uses(s, h)
  <2>1. Entries(t, m.bucket, N)
    BY <1>1, <1>5, EntriesStay
  <2>2. ASSUME NEW h \in N PROVE KeyOf(t, h) = KeyOf(s, h) /\ Uses(t, h) = Uses(s, h)
    BY <1>4, <1>5, EntryStays
  <2> QED BY <2>1, <2>2
<1>7. /\ t[n].key = key /\ t[n].value = value /\ t[n].nextBlock = Nil
      /\ KeyOf(t, n) = k /\ ValueOf(t, n) = v /\ Uses(t, n) = {n, key, value}
  BY NodeIs, DataIs DEF KeyOf, ValueOf, Uses
<1>8. EntryAt(t, n)
  BY <1>7 DEF EntryAt
<1>9. Alone(t, m.bucket, n)
  BY <1>1, <1>7 DEF Alone, Headed
<1>10. ASSUME NEW h \in N PROVE KeyOf(t, h) # KeyOf(t, n) /\ Uses(t, h) \cap Uses(t, n) = {}
  <2>1. Uses(s, h) \subseteq DOMAIN s
    BY <1>4 DEF EntryAt, Uses
  <2> QED BY <1>6, <1>7, <2>1
<1>11. Entries(t, m.bucket, N \cup {n})
  BY <1>6, <1>8, <1>9, <1>10, EntriesMore
<1>12. Chains(t, m1.buckets, N \cup {n}, Longer(ch, b, n))
  <2> DEFINE f == m.buckets
  <2>1. f \in [Buckets -> Handles \cup {Nil}]
    BY MemIs
  <2>2. n \notin N /\ b = Hash[KeyOf(t, n)] /\ KeyOf(t, n) \in Keys /\ q = ch[b]
    BY <1>4, <1>7 DEF b
  <2>3. Behind(s, t, N, ch[b], n)
    BY <1>5, <2>2 DEF last, Behind
  <2>4. m1.buckets = IF ch[b] = <<>> THEN Put(f, b, n) ELSE f
    BY <2>2 DEF b
  <2>5. Chains(s, f, N, ch)
    BY <1>1
  <2> HIDE DEF f
  <2>6. Chains(t, m1.buckets, N \cup {n}, Longer(ch, b, n))
    <3>1. t[n].nextBlock = Nil /\ Entries(s, m.bucket, N)
      BY <1>1, <1>7
    <3>2. n \notin N
      BY <2>2
    <3>3. KeyOf(t, n) \in Keys
      BY <2>2
    <3>4. b = Hash[KeyOf(t, n)]
      BY <2>2
    <3>5. ASSUME NEW d, d = b, NEW g, g = m1.buckets PROVE Chains(t, g, N \cup {n}, Longer(ch, d, n))
      <4>1. Behind(s, t, N, ch[d], n) /\ d = Hash[KeyOf(t, n)] /\ g = IF ch[d] = <<>> THEN Put(f, d, n) ELSE f
        BY <2>3, <2>4, <3>4, <3>5
      <4> QED BY <2>1, <2>5, <3>1, <3>2, <3>3, <4>1, ChainsAdd
    <3> QED BY <3>5
  <2> QED BY <2>6
<1>13. Fits(t, N \cup {n}, Put(al, k, {v}))
  <2>1. Others(s, t, N, k)
    BY <1>4, <1>5, EntryStays DEF Others
  <2> QED BY <1>1, <1>7, <2>1, InsertedFits
<1> QED BY <1>3, <1>11, <1>12, <1>13 DEF MapIn, b

\* Nothing leads to the blocks that are filled.
LEMMA CutGrown ==
    ASSUME NEW s, NEW t, Grown(s, t), NEW m \in Memories, NEW al, NEW mis, Kept(s, m, al, mis), NEW o, ~o.exposed, NEW free
    PROVE  Cut(t, o, al, mis, free)
<1>1. Kept(t, m, al, mis)
  <2>1. DOMAIN t \subseteq Nat \ {0} /\ \A x \in DOMAIN s : Same(s, t, x)
    BY DEF Grown, Same
  <2> QED BY <2>1, KeptStays
<1> QED BY <1>1, CutKept

Filling(n, key, value, k, v) ==
    <<allocate(n), allocate(key)>> \o WriteData(key, k) \o <<allocate(value)>> \o WriteData(value, v)
    \o <<write(n, NodeOf(key, value, Nil))>>

\* t is s with the blocks of a node, which nothing leads to.
Filled(s, t, n, key, value, k, v) ==
    /\ Grown(s, t) /\ DOMAIN t = DOMAIN s \cup {n, key, value}
    /\ t[n] = NodeOf(key, value, Nil) /\ t[key] = Data(k) /\ t[value] = Data(v)

LEMMA FillLeads ==
    ASSUME mem \in Memories, NEW al, NEW mis, Kept(store, mem, al, mis), DOMAIN store \subseteq Nat \ {0},
           NEW n \in Nat \ {0}, NEW key \in Nat \ {0}, NEW value \in Nat \ {0}, n # key, n # value, key # value,
           n \notin DOMAIN store, key \notin DOMAIN store, value \notin DOMAIN store, NEW k, NEW v
    PROVE  \E t : Leads(store, Filling(n, key, value, k, v), t, al, mis, FALSE) /\ Filled(store, t, n, key, value, k, v)
<1> DEFINE node == NodeOf(key, value, Nil)
           dk == Data(k)
           dv == Data(v)
           torn == Data(Torn)
           s1 == Applied(store, allocate(n))
           s2 == Applied(s1, allocate(key))
           s3 == Applied(s2, write(key, torn))
           s4 == Applied(s3, write(key, dk))
           s5 == Applied(s4, allocate(value))
           s6 == Applied(s5, write(value, torn))
           s7 == Applied(s6, write(value, dv))
           s8 == Applied(s7, write(n, node))
           D == DOMAIN store
           Old(s) == \A x \in D : s[x] = store[x]
<1> HIDE DEF node, dk, dv, torn
<1>1. DOMAIN s1 = D \cup {n} /\ Old(s1)
  BY AllocateIs
<1>2. DOMAIN s2 = D \cup {n, key} /\ Old(s2)
  <2> HIDE DEF s1
  <2>1. DOMAIN s2 = DOMAIN s1 \cup {key} /\ \A x \in DOMAIN s1 : x # key => s2[x] = s1[x]
    BY AllocateIs
  <2> QED BY <1>1, <2>1
<1>3. DOMAIN s3 = D \cup {n, key} /\ Old(s3)
  <2> HIDE DEF s2
  <2>1. DOMAIN s3 = DOMAIN s2 /\ \A x \in DOMAIN s2 : x # key => s3[x] = s2[x]
    BY <1>2, WriteIs
  <2> QED BY <1>2, <2>1
<1>4. DOMAIN s4 = D \cup {n, key} /\ Old(s4) /\ s4[key] = dk
  <2> HIDE DEF s3
  <2>1. DOMAIN s4 = DOMAIN s3 /\ s4[key] = dk /\ \A x \in DOMAIN s3 : x # key => s4[x] = s3[x]
    BY <1>3, WriteIs
  <2> QED BY <1>3, <2>1
<1>5. DOMAIN s5 = D \cup {n, key, value} /\ Old(s5) /\ s5[key] = dk
  <2> HIDE DEF s4
  <2>1. DOMAIN s5 = DOMAIN s4 \cup {value} /\ \A x \in DOMAIN s4 : x # value => s5[x] = s4[x]
    BY AllocateIs
  <2> QED BY <1>4, <2>1
<1>6. DOMAIN s6 = D \cup {n, key, value} /\ Old(s6) /\ s6[key] = dk
  <2> HIDE DEF s5
  <2>1. DOMAIN s6 = DOMAIN s5 /\ \A x \in DOMAIN s5 : x # value => s6[x] = s5[x]
    BY <1>5, WriteIs
  <2> QED BY <1>5, <2>1
<1>7. DOMAIN s7 = D \cup {n, key, value} /\ Old(s7) /\ s7[key] = dk /\ s7[value] = dv
  <2> HIDE DEF s6
  <2>1. DOMAIN s7 = DOMAIN s6 /\ s7[value] = dv /\ \A x \in DOMAIN s6 : x # value => s7[x] = s6[x]
    BY <1>6, WriteIs
  <2> QED BY <1>6, <2>1
<1>8. DOMAIN s8 = D \cup {n, key, value} /\ Old(s8) /\ s8[key] = dk /\ s8[value] = dv /\ s8[n] = node
  <2> HIDE DEF s7
  <2>1. DOMAIN s8 = DOMAIN s7 /\ s8[n] = node /\ \A x \in DOMAIN s7 : x # n => s8[x] = s7[x]
    BY <1>7, WriteIs
  <2> QED BY <1>7, <2>1
<1>9. ASSUME NEW s, D \subseteq DOMAIN s, DOMAIN s \subseteq D \cup {n, key, value}, Old(s), NEW o, ~o.exposed
      PROVE  Cut(s, o, al, mis, FALSE)
  <2>1. Grown(store, s)
    BY <1>9 DEF Grown
  <2> QED BY <1>9, <2>1, CutGrown
<1>10. \A h, content : ~allocate(h).exposed /\ ~write(h, content).exposed
  BY OpIs
<1> DEFINE a == <<allocate(n), allocate(key)>>
           b == WriteData(key, k)
           c == <<allocate(value)>>
           d == WriteData(value, v)
           e == <<write(n, node)>>
<1> HIDE DEF Old, D
<1>11. Leads(store, a, s2, al, mis, FALSE)
  <2>1. Cut(store, allocate(n), al, mis, FALSE)
    BY <1>9, <1>10 DEF Old, D
  <2>2. Cut(s1, allocate(key), al, mis, FALSE)
    <3> HIDE DEF s1
    <3> QED BY <1>1, <1>9, <1>10
  <2> QED BY <2>1, <2>2, LeadsTwo
<1>12. Leads(s2, b, s4, al, mis, FALSE)
  <2> HIDE DEF s2
  <2>1. Cut(s2, write(key, torn), al, mis, FALSE)
    BY <1>2, <1>9, <1>10
  <2>2. Cut(s3, write(key, dk), al, mis, FALSE)
    <3> HIDE DEF s3
    <3> QED BY <1>3, <1>9, <1>10
  <2>3. b = <<write(key, torn), write(key, dk)>>
    BY DEF WriteData, torn, dk
  <2> HIDE DEF b
  <2> QED BY <2>1, <2>2, <2>3, LeadsTwo
<1>13. Leads(s4, c, s5, al, mis, FALSE)
  <2> HIDE DEF s4
  <2>1. Cut(s4, allocate(value), al, mis, FALSE)
    BY <1>4, <1>9, <1>10
  <2> QED BY <2>1, LeadsOne
<1>14. Leads(s5, d, s7, al, mis, FALSE)
  <2> HIDE DEF s5
  <2>1. Cut(s5, write(value, torn), al, mis, FALSE)
    BY <1>5, <1>9, <1>10
  <2>2. Cut(s6, write(value, dv), al, mis, FALSE)
    <3> HIDE DEF s6
    <3> QED BY <1>6, <1>9, <1>10
  <2>3. d = <<write(value, torn), write(value, dv)>>
    BY DEF WriteData, torn, dv
  <2> HIDE DEF d
  <2> QED BY <2>1, <2>2, <2>3, LeadsTwo
<1>15. Leads(s7, e, s8, al, mis, FALSE)
  <2> HIDE DEF s7
  <2>1. Cut(s7, write(n, node), al, mis, FALSE)
    BY <1>7, <1>9, <1>10
  <2> QED BY <2>1, LeadsOne
<1>16. Leads(store, a \o b \o c \o d \o e, s8, al, mis, FALSE)
  <2> HIDE DEF a, b, c, d, e, s2, s4, s5, s7, s8
  <2> QED BY <1>11, <1>12, <1>13, <1>14, <1>15, LeadsBoth
<1>17. Grown(store, s8)
  <2> HIDE DEF s8
  <2> QED BY <1>8 DEF Grown, Old, D
<1> QED
  <2> HIDE DEF s8
  <2>1. Leads(store, Filling(n, key, value, k, v), s8, al, mis, FALSE)
    BY <1>16 DEF Filling, node
  <2>2. Filled(store, s8, n, key, value, k, v)
    BY <1>8, <1>17 DEF Filled, D, node, dk, dv
  <2> QED BY <2>1, <2>2

BucketBlock(buckets) == [kind |-> "buckets", first |-> buckets]

\* t is s with another content in the block h.
Rewritten(s, t, h, content) ==
    DOMAIN t = DOMAIN s /\ t[h] = content /\ \A x \in DOMAIN s : x # h => t[x] = s[x]

\* The node n is linked behind the last of q and counted: the link makes w of u
\* and m0 of the head m, the count y and m1.
Linkage(s, u, w, y, m, m0, m1, q, b, n, buckets, p, c, size) ==
    /\ buckets = IF q = <<>> THEN Put(m.buckets, b, n) ELSE m.buckets
    /\ p = IF q = <<>> THEN m.bucket ELSE q[Len(q)]
    /\ c = IF q = <<>> THEN BucketBlock(buckets) ELSE LinkedTo(s[p], n)
    /\ m0 = Rebucketed(m, buckets) /\ size = m.size + 1 /\ m1 = Changed(m, buckets, size)
    /\ Rewritten(u, w, p, c) /\ Rewritten(w, y, FIRSTFILESTORAGEBLOCKHANDLE, Info(m1))

\* What the link and the count make of it.
LEMMA LinkIs ==
    ASSUME MapBounds, NEW s, NEW u, NEW m \in Memories, NEW N, NEW ch, MapIn(s, m, N, ch),
           NEW k \in Keys, \A h \in N : KeyOf(s, h) # k, NEW v \in Values,
           NEW n \in Handles, NEW key \in Nat \ {0}, NEW value \in Nat \ {0},
           n # key, n # value, key # value, n \notin DOMAIN s, key \notin DOMAIN s, value \notin DOMAIN s,
           Filled(s, u, n, key, value, k, v), NEW q, q = ch[Hash[k]],
           NEW w, NEW y, NEW m0, NEW m1, NEW buckets, NEW p, NEW c, NEW size,
           Linkage(s, u, w, y, m, m0, m1, q, Hash[k], n, buckets, p, c, size),
           NEW A, NEW al \in [Keys -> A], Fits(s, N, al)
    PROVE  /\ m0 \in Memories /\ m1 \in Memories /\ m1.size = m.size + 1
           /\ MapIn(w, m0, N \cup {n}, Longer(ch, Hash[k], n)) /\ Fits(w, N \cup {n}, Put(al, k, {v}))
           /\ MapIn(y, m1, N \cup {n}, Longer(ch, Hash[k], n)) /\ Fits(y, N \cup {n}, Put(al, k, {v}))
<1> DEFINE last == q[Len(q)]
           F == FIRSTFILESTORAGEBLOCKHANDLE
<1>0. /\ Grown(s, u) /\ DOMAIN u = DOMAIN s \cup {n, key, value}
      /\ u[n] = NodeOf(key, value, Nil) /\ u[key] = Data(k) /\ u[value] = Data(v)
      /\ DOMAIN w = DOMAIN u /\ w[p] = c /\ \A x \in DOMAIN u : x # p => w[x] = u[x]
      /\ DOMAIN y = DOMAIN w /\ y[F] = Info(m1) /\ \A x \in DOMAIN w : x # F => y[x] = w[x]
  BY DEF Filled, Rewritten, Linkage
<1>b. /\ buckets = IF q = <<>> THEN Put(m.buckets, Hash[k], n) ELSE m.buckets
      /\ p = IF q = <<>> THEN m.bucket ELSE q[Len(q)]
      /\ c = IF q = <<>> THEN BucketBlock(buckets) ELSE LinkedTo(s[p], n)
      /\ m0 = Rebucketed(m, buckets) /\ size = m.size + 1 /\ m1 = Changed(m, buckets, size)
  BY DEF Linkage
<1>1. /\ Hash[k] \in Buckets /\ buckets \in [Buckets -> Handles \cup {Nil}]
  BY <1>b, MemIs DEF MapBounds, Put
<1>2. /\ m0 \in Memories /\ m0.bucket = m.bucket /\ m0.size = m.size /\ m0.buckets = buckets
      /\ m1 \in Memories /\ m1.bucket = m.bucket /\ m1.size = m.size + 1 /\ m1.buckets = buckets
  <2>1. size \in Int
    <3>1. m.size \in Int
      BY MemIs
    <3> QED BY <1>b, <3>1
  <2>2. /\ m0 \in Memories /\ m0.bucket = m.bucket /\ m0.size = m.size /\ m0.buckets = buckets
    BY <1>b, <1>1, <2>1, MemSet
  <2>3. /\ m1 \in Memories /\ m1.bucket = m.bucket /\ m1.size = size /\ m1.buckets = buckets
    BY <1>b, <1>1, <2>1, MemSet
  <2> QED BY <1>b, <2>2, <2>3
<1>3. Info(m0) = Info(m)
  BY <1>2 DEF Info
<1>4. /\ F \in DOMAIN s /\ s[F] = Info(m) /\ m.bucket \in DOMAIN s /\ F # m.bucket
      /\ s[m.bucket] = [kind |-> "buckets", first |-> m.buckets]
  BY DEF MapIn, Headed
<1>5. q # <<>> => last \in DOMAIN s /\ last # F /\ last # m.bucket
  <2>1. q \in Seq(N) /\ \A i \in 1 .. Len(q) : q[i] \in N
    BY <1>1, ChainOf DEF MapIn
  <2>2. q # <<>> => Len(q) \in 1 .. Len(q)
    BY <2>1
  <2>3. q # <<>> => last \in N
    BY <2>1, <2>2
  <2> HIDE DEF last
  <2> QED BY <2>3 DEF MapIn, Entries, EntryAt, Alone, Uses
<1>6. p \in DOMAIN s /\ p # F
  BY <1>b, <1>4, <1>5
<1>7. \A x \in DOMAIN s : u[x] = s[x]
  BY <1>0 DEF Grown
<1>8. /\ DOMAIN w = DOMAIN s \cup {n, key, value}
      /\ w[n] = NodeOf(key, value, Nil) /\ w[key] = Data(k) /\ w[value] = Data(v)
      /\ w[F] = Info(m0) /\ w[m.bucket] = [kind |-> "buckets", first |-> buckets]
      /\ (q # <<>> => w[last] = LinkedTo(s[last], n))
      /\ \A x \in DOMAIN s : x # F /\ x # m.bucket /\ (q # <<>> => x # last) => w[x] = s[x]
  <2>1. DOMAIN w = DOMAIN s \cup {n, key, value}
    BY <1>0
  <2>2. w[n] = NodeOf(key, value, Nil) /\ w[key] = Data(k) /\ w[value] = Data(v)
    BY <1>0, <1>6
  <2>3. \A x \in DOMAIN s : x # p => w[x] = s[x]
    BY <1>0, <1>7
  <2>4. w[F] = Info(m0)
    BY <1>3, <1>4, <1>6, <2>3
  <2>5. CASE q = <<>>
    <3>1. w[m.bucket] = [kind |-> "buckets", first |-> buckets]
      BY <1>b, <1>0, <2>5 DEF BucketBlock
    <3> QED BY <1>b, <2>1, <2>2, <2>3, <2>4, <2>5, <3>1
  <2>6. CASE q # <<>>
    <3>1. w[m.bucket] = [kind |-> "buckets", first |-> buckets]
      BY <1>b, <1>4, <1>5, <2>3, <2>6
    <3>2. p = last /\ w[last] = LinkedTo(s[last], n)
      BY <1>b, <1>0, <2>6
    <3> QED BY <1>b, <2>1, <2>2, <2>3, <2>4, <2>6, <3>1, <3>2
  <2> QED BY <2>5, <2>6
<1>9. /\ DOMAIN y = DOMAIN s \cup {n, key, value}
      /\ y[n] = NodeOf(key, value, Nil) /\ y[key] = Data(k) /\ y[value] = Data(v)
      /\ y[F] = Info(m1) /\ y[m.bucket] = [kind |-> "buckets", first |-> buckets]
      /\ (q # <<>> => y[last] = LinkedTo(s[last], n))
      /\ \A x \in DOMAIN s : x # F /\ x # m.bucket /\ (q # <<>> => x # last) => y[x] = s[x]
  <2> HIDE DEF last
  <2>1. n # F /\ key # F /\ value # F
    BY <1>4
  <2> QED BY <1>b, <1>0, <1>4, <1>5, <1>8, <2>1
<1> DEFINE Is(t) == /\ DOMAIN t = DOMAIN s \cup {n, key, value}
                    /\ t[n] = NodeOf(key, value, Nil) /\ t[key] = Data(k) /\ t[value] = Data(v)
<1>a. ASSUME NEW t, Is(t), NEW mm \in Memories, mm.bucket = m.bucket, mm.buckets = buckets, LinkedIn(s, t, m, mm, q, n)
      PROVE  MapIn(t, mm, N \cup {n}, Longer(ch, Hash[k], n)) /\ Fits(t, N \cup {n}, Put(al, k, {v}))
  <2>1. mm.buckets = (IF q = <<>> THEN Put(m.buckets, Hash[k], n) ELSE m.buckets)
    BY <1>b, <1>a
  <2> QED BY <1>a, <2>1, InsertedIs
<1>10. MapIn(w, m0, N \cup {n}, Longer(ch, Hash[k], n)) /\ Fits(w, N \cup {n}, Put(al, k, {v}))
  <2>1. LinkedIn(s, w, m, m0, q, n) /\ Is(w)
    BY <1>2, <1>8 DEF LinkedIn
  <2> HIDE DEF Is
  <2> QED BY <1>2, <1>a, <2>1
<1>11. MapIn(y, m1, N \cup {n}, Longer(ch, Hash[k], n)) /\ Fits(y, N \cup {n}, Put(al, k, {v}))
  <2>1. LinkedIn(s, y, m, m1, q, n) /\ Is(y)
    BY <1>2, <1>9 DEF LinkedIn
  <2> HIDE DEF Is
  <2> QED BY <1>2, <1>a, <2>1
<1> QED BY <1>2, <1>10, <1>11

LEMMA PutIs ==
    ASSUME NEW A, NEW al \in [Keys -> A], NEW k \in Keys, NEW v, v \in al[k]
    PROVE  \A j \in Keys : Put(al, k, {v})[j] \subseteq al[j]
  BY DEF Put

LEMMA InsertLeads ==
    ASSUME MapBounds, mem \in Memories, NEW N, NEW ch, MapIn(store, mem, N, ch),
           NEW A, NEW al \in [Keys -> A], Fits(store, N, al), NEW mis, mis \/ mem.size = Cardinality(N),
           NEW k \in Keys, \A h \in N : KeyOf(store, h) # k, NEW v \in Values, v \in al[k],
           NEW n \in Handles, NEW key \in Handles, NEW value \in Handles, n # key, n # value, key # value,
           n \notin DOMAIN store, key \notin DOMAIN store, value \notin DOMAIN store,
           NEW q, q = ch[Hash[k]],
           NEW buckets, buckets = (IF q = <<>> THEN Put(mem.buckets, Hash[k], n) ELSE mem.buckets),
           NEW link, link = (IF q = <<>> THEN WriteBuckets(buckets)
                             ELSE write(q[Len(q)], LinkedTo(store[q[Len(q)]], n)))
    PROVE  \E t : /\ Goes(store, Linked(Filling(n, key, value, k, v), link)
                                 \o Uncounted(<<WriteInfo(mem.size + 1)>>), t, al, mis)
                  /\ Kept(t, Changed(mem, buckets, mem.size + 1), Put(al, k, {v}), mis)
<1> DEFINE fill == Filling(n, key, value, k, v)
           F == FIRSTFILESTORAGEBLOCKHANDLE
           size == mem.size + 1
           m1 == Changed(mem, buckets, size)
           m0 == Rebucketed(mem, buckets)
           p == IF q = <<>> THEN mem.bucket ELSE q[Len(q)]
           c == IF q = <<>> THEN BucketBlock(buckets) ELSE LinkedTo(store[q[Len(q)]], n)
           bl == Put(al, k, {v})
           M == N \cup {n}
           d == Longer(ch, Hash[k], n)
<1>1. Kept(store, mem, al, mis)
  BY DEF Kept
<1>2. DOMAIN store \subseteq Nat \ {0} /\ n \in Nat \ {0} /\ key \in Nat \ {0} /\ value \in Nat \ {0}
  BY DEF MapIn, Headed, Handles
<1>a. PICK u : Leads(store, fill, u, al, mis, FALSE) /\ Filled(store, u, n, key, value, k, v)
  BY <1>1, <1>2, FillLeads
<1>3. Leads(store, fill, u, al, mis, FALSE) /\ Grown(store, u) /\ DOMAIN u = DOMAIN store \cup {n, key, value}
  BY <1>a DEF Filled
<1> HIDE DEF fill
<1> DEFINE w == Applied(u, link)
           info == write(F, Info(m1))
           y == Applied(w, info)
<1>4. link = write(p, c)
  BY DEF WriteBuckets, BucketBlock
<1>5. p \in DOMAIN store /\ F \in DOMAIN store
  <2>1. F \in DOMAIN store /\ mem.bucket \in DOMAIN store
    BY DEF MapIn, Headed
  <2>2. CASE q # <<>>
    <3>1. Hash[k] \in Buckets
      BY DEF MapBounds
    <3>2. q \in Seq(N) /\ \A i \in 1 .. Len(q) : q[i] \in N
      BY <3>1, ChainOf DEF MapIn
    <3>3. Len(q) \in 1 .. Len(q)
      BY <2>2, <3>2
    <3>4. p \in N
      BY <2>2, <3>2, <3>3
    <3> HIDE DEF p
    <3> QED BY <2>1, <3>4 DEF MapIn, Entries, EntryAt
  <2> QED BY <2>1, <2>2
<1>6. Rewritten(u, w, p, c)
  <2>1. p \in DOMAIN u
    BY <1>3, <1>5
  <2> HIDE DEF p, c
  <2> QED BY <1>4, <2>1, WriteIs DEF Rewritten
<1>7. Rewritten(w, y, F, Info(m1))
  <2>1. F \in DOMAIN w
    BY <1>3, <1>5, <1>6 DEF Rewritten
  <2> HIDE DEF w, m1
  <2> QED BY <2>1, WriteIs DEF Rewritten
<1>8. /\ m0 \in Memories /\ m1 \in Memories /\ m1.size = mem.size + 1
      /\ MapIn(w, m0, M, d) /\ Fits(w, M, bl)
      /\ MapIn(y, m1, M, d) /\ Fits(y, M, bl)
  <2> DEFINE m == mem
             s == store
  <2>1. m \in Memories /\ MapIn(s, m, N, ch) /\ \A h \in N : KeyOf(s, h) # k
    OBVIOUS
  <2>2. n \notin DOMAIN s /\ key \notin DOMAIN s /\ value \notin DOMAIN s /\ Fits(s, N, al)
    OBVIOUS
  <2>3. Linkage(s, u, w, y, m, m0, m1, q, Hash[k], n, buckets, p, c, size)
    <3>1. c = IF q = <<>> THEN BucketBlock(buckets) ELSE LinkedTo(s[p], n)
      OBVIOUS
    <3>2. p = IF q = <<>> THEN m.bucket ELSE q[Len(q)]
      OBVIOUS
    <3>3. buckets = (IF q = <<>> THEN Put(m.buckets, Hash[k], n) ELSE m.buckets) /\ m0 = Rebucketed(m, buckets)
      OBVIOUS
    <3>4. size = m.size + 1 /\ m1 = Changed(m, buckets, size)
      OBVIOUS
    <3> HIDE DEF m, s, m0, m1, p, c, w, y, size
    <3> QED BY <1>6, <1>7, <3>1, <3>2, <3>3, <3>4 DEF Linkage
  <2>5. m.size = mem.size /\ size = m.size + 1
    OBVIOUS
  <2>6. Filled(s, u, n, key, value, k, v)
    BY <1>a
  <2> HIDE DEF m, s, m0, m1, p, c, w, y, size
  <2>7. /\ MapIn(s, m, N, ch) /\ Fits(s, N, al) /\ Filled(s, u, n, key, value, k, v)
        /\ Linkage(s, u, w, y, m, m0, m1, q, Hash[k], n, buckets, p, c, size) /\ q = ch[Hash[k]]
        /\ m \in Memories /\ al \in [Keys -> A] /\ k \in Keys /\ v \in Values /\ \A h \in N : KeyOf(s, h) # k
        /\ n \in Handles /\ key \in Nat \ {0} /\ value \in Nat \ {0} /\ n # key /\ n # value /\ key # value
        /\ n \notin DOMAIN s /\ key \notin DOMAIN s /\ value \notin DOMAIN s
    BY <1>2, <2>1, <2>2, <2>3, <2>6
  <2>8. /\ m0 \in Memories /\ m1 \in Memories /\ m1.size = m.size + 1
        /\ MapIn(w, m0, M, d) /\ Fits(w, M, bl)
        /\ MapIn(y, m1, M, d) /\ Fits(y, M, bl)
    BY ONLY MapBounds, <2>7, LinkIs
  <2> QED BY <2>5, <2>8
<1>9. Cardinality(M) = Cardinality(N) + 1
  <2>1. n \notin N
    BY DEF MapIn, Entries, EntryAt
  <2>2. IsFiniteSet(N)
    BY NodesFinite DEF MapIn
  <2> QED BY <2>1, <2>2, FS_AddElement
<1>10. Kept(w, m0, bl, TRUE) /\ Kept(y, m1, bl, mis)
  <2> HIDE DEF w, y, m0, m1, M, bl, d
  <2> QED BY <1>8, <1>9 DEF Kept
<1>11. Leads(u, <<link>>, w, al, mis, FALSE)
  <2>1. Cut(u, link, al, mis, FALSE)
    BY <1>1, <1>3, <1>4, CutGrown, OpIs
  <2> QED BY <2>1, LeadsOne
<1>12. Leads(w, <<info>>, y, al, TRUE, FALSE)
  <2>1. Kept(w, m0, al, TRUE)
    <3> HIDE DEF w, m0
    <3> QED BY <1>10, PutIs, KeptMore
  <2>2. ~info.exposed
    BY OpIs
  <2> HIDE DEF w, m0, info
  <2>3. Cut(w, info, al, TRUE, FALSE)
    BY <1>8, <2>1, <2>2, CutKept
  <2> QED BY <2>3, LeadsOne
<1>13. info = WriteInfo(mem.size + 1)
  <2>1. mem.size + 1 \in Int /\ buckets \in [Buckets -> Handles \cup {Nil}]
    <3>1. mem.size \in Int /\ mem.buckets \in [Buckets -> Handles \cup {Nil}]
      BY MemIs
    <3> QED BY <3>1 DEF MapBounds, Put
  <2>2. Info(Counted(mem, mem.size + 1)) = Info(m1)
    BY <2>1, MemSet DEF Info
  <2> QED BY <2>2 DEF WriteInfo, Counted
<1>14. Leads(w, Uncounted(<<info>>), y, al, mis, FALSE)
  <2>1. Plains(<<info>>)
    BY PlainsOne DEF Plain
  <2> HIDE DEF w, info, y
  <2> QED BY <1>12, <2>1, LeadsUncounted
<1>15. Goes(store, fill \o <<link>> \o Uncounted(<<info>>), y, al, mis)
  <2> HIDE DEF w, info, y
  <2>1. Goes(store, fill \o <<link>>, w, al, mis)
    BY <1>3, <1>11, GoesBoth
  <2> DEFINE a == fill \o <<link>>
             b == Uncounted(<<info>>)
  <2>2. Leads(store, a, w, al, mis, FALSE) /\ a # <<>>
    BY <2>1 DEF Goes
  <2>3. Leads(w, b, y, al, mis, FALSE)
    BY <1>14
  <2> HIDE DEF a, b
  <2>4. Goes(store, a \o b, y, al, mis)
    BY ONLY <2>2, <2>3, GoesBoth
  <2> QED BY <2>4 DEF a, b
<1> QED
  <2> HIDE DEF y, info
  <2> QED BY <1>10, <1>13, <1>15 DEF Linked, fill

-----------------------------------------------------------------------------
(* A deletion.                                                             *)

\* In t the i-th of q is passed by; m1 is the head and the buckets then.
UnlinkedIn(s, t, m, m1, q, i) ==
    /\ DOMAIN s \ Uses(s, q[i]) \subseteq DOMAIN t /\ DOMAIN t \subseteq Nat \ {0}
    /\ t[FIRSTFILESTORAGEBLOCKHANDLE] = Info(m1) /\ t[m.bucket] = BucketBlock(m1.buckets)
    /\ i > 1 => t[q[i - 1]] = LinkedTo(s[q[i - 1]], s[q[i]].nextBlock)
    /\ \A x \in DOMAIN s \ Uses(s, q[i]) :
          x # FIRSTFILESTORAGEBLOCKHANDLE /\ x # m.bucket /\ (i > 1 => x # q[i - 1]) => t[x] = s[x]

\* Without the node of k nothing is found with k.
LEMMA DroppedFits ==
    ASSUME NEW s, NEW t, NEW bucket, NEW N, Entries(s, bucket, N), NEW A, NEW al \in [Keys -> A], Fits(s, N, al),
           NEW k \in Keys, NEW M, M \subseteq N, \A h \in N \ M : KeyOf(s, h) = k, Others(s, t, M, k)
    PROVE  Fits(t, M, Put(al, k, {None}))
<1> DEFINE bl == Put(al, k, {None})
<1>1. bl[k] = {None} /\ \A j \in Keys : j # k => bl[j] = al[j]
  BY DEF Put
<1> HIDE DEF bl
<1>2. \A h \in N : KeyOf(s, h) \in Keys
  BY DEF Entries, EntryAt
<1>3. \A h \in M : ValueOf(t, h) \in bl[KeyOf(t, h)]
  BY <1>1, <1>2 DEF Fits, Others
<1>4. ASSUME NEW j \in Keys, \A h \in M : KeyOf(t, h) # j PROVE None \in bl[j]
  <2>1. CASE j = k
    BY <1>1, <2>1
  <2>2. CASE j # k
    <3>1. \A h \in N : KeyOf(s, h) # j
      BY <1>4, <2>2 DEF Others
    <3> QED BY <1>1, <2>2, <3>1 DEF Fits
  <2> QED BY <2>1, <2>2
<1>5. Fits(t, M, bl)
  BY <1>3, <1>4 DEF Fits
<1> QED BY <1>5 DEF bl

LEMMA DroppedIs ==
    ASSUME MapBounds, NEW s, NEW t, NEW m \in Memories, NEW N, NEW ch, MapIn(s, m, N, ch),
           NEW b \in Buckets, NEW q, q = ch[b], NEW i \in 1 .. Len(q),
           NEW m1 \in Memories, m1.bucket = m.bucket,
           m1.buckets = (IF i = 1 THEN Put(m.buckets, b, s[q[i]].nextBlock) ELSE m.buckets),
           UnlinkedIn(s, t, m, m1, q, i), NEW A, NEW al \in [Keys -> A], Fits(s, N, al)
    PROVE  MapIn(t, m1, N \ {q[i]}, Shorter(ch, b, i)) /\ Fits(t, N \ {q[i]}, Put(al, KeyOf(s, q[i]), {None}))
<1> DEFINE g == q[i]
           F == FIRSTFILESTORAGEBLOCKHANDLE
           prev == q[i - 1]
           M == N \ {g}
           k == KeyOf(s, g)
<1>0. /\ DOMAIN s \ Uses(s, g) \subseteq DOMAIN t /\ DOMAIN t \subseteq Nat \ {0}
      /\ t[F] = Info(m1) /\ t[m.bucket] = BucketBlock(m1.buckets)
      /\ i > 1 => t[prev] = LinkedTo(s[prev], s[g].nextBlock)
      /\ \A x \in DOMAIN s \ Uses(s, g) : x # F /\ x # m.bucket /\ (i > 1 => x # prev) => t[x] = s[x]
  BY DEF UnlinkedIn
<1>1. Headed(s, m) /\ Entries(s, m.bucket, N) /\ Chains(s, m.buckets, N, ch)
  BY DEF MapIn
<1>2. /\ q \in Seq(N) /\ Len(q) \in Nat /\ i \in Nat /\ i >= 1 /\ \A j \in 1 .. Len(q) : q[j] \in N
      /\ \A j, l \in 1 .. Len(q) : q[j] = q[l] => j = l
  <2>1. q \in Seq(N) /\ Len(q) \in Nat /\ Strand(s, m.buckets[b], q) /\ \A j \in 1 .. Len(q) : q[j] \in N
    BY <1>1, ChainOf
  <2> QED BY <2>1 DEF Strand
<1>3. g \in N /\ EntryAt(s, g) /\ Alone(s, m.bucket, g)
  BY <1>1, <1>2 DEF Entries
<1>4. i > 1 => prev \in N /\ prev # g
  <2>1. i > 1 => i - 1 \in 1 .. Len(q) /\ i - 1 # i
    BY <1>2
  <2> QED BY <1>2, <2>1
<1> HIDE DEF g, prev
<1>5. Headed(t, m1)
  <2>1. F \in DOMAIN t /\ m.bucket \in DOMAIN t
    BY <1>0, <1>1, <1>3 DEF Headed, Alone
  <2> QED BY <1>0, <1>1, <2>1 DEF Headed, BucketBlock
<1>6. ASSUME NEW h \in M
      PROVE  /\ EntryAt(s, h) /\ Alone(s, m.bucket, h) /\ Uses(s, h) \cap Uses(s, g) = {} /\ KeyOf(s, h) # k
             /\ Uses(s, h) \subseteq DOMAIN s \ Uses(s, g)
             /\ (i > 1 => s[h].key # prev /\ s[h].value # prev)
  <2>1. EntryAt(s, h) /\ Alone(s, m.bucket, h) /\ Uses(s, h) \cap Uses(s, g) = {} /\ KeyOf(s, h) # k
    BY <1>1, <1>3 DEF Entries
  <2>2. Uses(s, h) \subseteq DOMAIN s
    BY <2>1 DEF EntryAt, Uses
  <2>3. ASSUME i > 1 PROVE s[h].key # prev /\ s[h].value # prev
    <3>1. prev # h => Uses(s, prev) \cap Uses(s, h) = {}
      BY <1>1, <1>4, <2>3 DEF Entries
    <3> QED BY <2>1, <3>1 DEF Uses, Alone
  <2> QED BY <2>1, <2>2, <2>3
<1>7. ASSUME NEW h \in M
      PROVE  /\ Stays(s, t, h)
             /\ t[h].nextBlock = IF i > 1 /\ h = prev THEN s[g].nextBlock ELSE s[h].nextBlock
  <2>1. EntryAt(s, h) /\ Alone(s, m.bucket, h) /\ Uses(s, h) \subseteq DOMAIN s \ Uses(s, g)
    BY <1>6
  <2>2. /\ s[h].key \in Uses(s, h) /\ s[h].value \in Uses(s, h) /\ h \in Uses(s, h)
        /\ F \notin Uses(s, h) /\ m.bucket \notin Uses(s, h)
    BY <2>1 DEF Uses, Alone
  <2>3. t[s[h].key] = s[s[h].key] /\ t[s[h].value] = s[s[h].value]
        /\ s[h].key \in DOMAIN t /\ s[h].value \in DOMAIN t /\ h \in DOMAIN t
    BY <1>0, <1>6, <2>1, <2>2
  <2>4. CASE i > 1 /\ h = prev
    <3>1. t[h] = LinkedTo(s[h], s[g].nextBlock)
      BY <1>0, <2>4
    <3>2. s[h] = NodeOf(s[h].key, s[h].value, s[h].nextBlock)
      BY <2>1 DEF EntryAt
    <3>3. LinkedTo(s[h], s[g].nextBlock) = NodeOf(s[h].key, s[h].value, s[g].nextBlock)
      BY <3>2, NodeSet
    <3>4. t[h].nextBlock = s[g].nextBlock
      BY <3>1, <3>3, NodeIs
    <3> QED BY <2>3, <2>4, <3>1, <3>3, <3>4 DEF Stays
  <2>5. CASE ~(i > 1 /\ h = prev)
    <3>1. t[h] = s[h]
      BY <1>0, <2>1, <2>2, <2>5
    <3> QED BY <2>1, <2>3, <2>5, <3>1 DEF Stays, EntryAt
  <2> QED BY <2>4, <2>5
<1>8. Entries(s, m.bucket, M)
  BY <1>1, EntriesLess
<1>9. Entries(t, m.bucket, M)
  BY <1>7, <1>8, EntriesStay
<1>10. Chains(t, m1.buckets, M, Shorter(ch, b, i))
  <2> DEFINE first == m.buckets
             f == m1.buckets
  <2>1. first \in [Buckets -> Handles \cup {Nil}]
    BY MemIs
  <2>2. Passed(s, t, N, ch[b], i)
    BY <1>7 DEF Passed, g, prev
  <2>3. f = IF i = 1 THEN Put(first, b, s[ch[b][i]].nextBlock) ELSE first
    OBVIOUS
  <2>4. Chains(s, first, N, ch) /\ Entries(s, m.bucket, N) /\ i \in 1 .. Len(ch[b])
    BY <1>1
  <2> HIDE DEF first, f
  <2>5. Chains(t, f, N \ {ch[b][i]}, Shorter(ch, b, i))
    BY ONLY MapBounds, b \in Buckets, <2>1, <2>2, <2>3, <2>4, ChainsDrop
  <2> QED BY <2>5 DEF f, g
<1>11. Fits(t, M, Put(al, k, {None}))
  <2>1. Others(s, t, M, k)
    BY <1>6, <1>7, EntryStays DEF Others
  <2>2. \A h \in N \ M : KeyOf(s, h) = k
    OBVIOUS
  <2>3. k \in Keys /\ M \subseteq N
    BY <1>3 DEF EntryAt
  <2> HIDE DEF k, M
  <2> QED BY <1>1, <2>1, <2>2, <2>3, DroppedFits
<1> QED BY <1>5, <1>9, <1>10, <1>11 DEF MapIn, g

\* t is s without some of the blocks U.
Fewer(s, t, U) ==
    /\ DOMAIN s \ U \subseteq DOMAIN t /\ DOMAIN t \subseteq DOMAIN s
    /\ \A x \in DOMAIN s \ U : t[x] = s[x]

LEMMA FewerStep ==
    ASSUME NEW s, NEW t, NEW U, Fewer(s, t, U), NEW h \in U
    PROVE  Fewer(s, Applied(t, Free(h)), U)
<1> DEFINE u == Applied(t, Free(h))
<1>1. DOMAIN u = DOMAIN t \ {h} /\ \A x \in DOMAIN t : x # h => u[x] = t[x]
  BY FreeIs
<1> HIDE DEF u
<1>2. Fewer(s, u, U)
  BY <1>1 DEF Fewer
<1> QED BY <1>2 DEF u

\* The head and the node before have none of the blocks of the i-th node.
LEMMA KeptApart ==
    ASSUME NEW s, NEW m, NEW N, NEW ch, MapIn(s, m, N, ch), NEW b \in Buckets, NEW q, q = ch[b], NEW i \in 1 .. Len(q)
    PROVE  /\ q \in Seq(N) /\ i \in Nat /\ i >= 1 /\ q[i] \in N /\ EntryAt(s, q[i])
           /\ FIRSTFILESTORAGEBLOCKHANDLE \in DOMAIN s \ Uses(s, q[i]) /\ m.bucket \in DOMAIN s \ Uses(s, q[i])
           /\ i > 1 => /\ q[i - 1] \in DOMAIN s \ Uses(s, q[i])
                       /\ q[i - 1] # FIRSTFILESTORAGEBLOCKHANDLE /\ q[i - 1] # m.bucket
<1>1. Headed(s, m) /\ Entries(s, m.bucket, N) /\ Chains(s, m.buckets, N, ch)
  BY DEF MapIn
<1>2. /\ q \in Seq(N) /\ Len(q) \in Nat /\ i \in Nat /\ i >= 1 /\ \A j \in 1 .. Len(q) : q[j] \in N
      /\ \A j, l \in 1 .. Len(q) : q[j] = q[l] => j = l
  <2>1. q \in Seq(N) /\ Len(q) \in Nat /\ Strand(s, m.buckets[b], q) /\ \A j \in 1 .. Len(q) : q[j] \in N
    BY <1>1, ChainOf
  <2> QED BY <2>1 DEF Strand
<1>3. q[i] \in N /\ EntryAt(s, q[i]) /\ Alone(s, m.bucket, q[i])
  BY <1>1, <1>2 DEF Entries
<1>4. /\ FIRSTFILESTORAGEBLOCKHANDLE \in DOMAIN s \ Uses(s, q[i]) /\ m.bucket \in DOMAIN s \ Uses(s, q[i])
  BY <1>1, <1>3 DEF Headed, Alone
<1>5. ASSUME i > 1
      PROVE  /\ q[i - 1] \in DOMAIN s \ Uses(s, q[i])
             /\ q[i - 1] # FIRSTFILESTORAGEBLOCKHANDLE /\ q[i - 1] # m.bucket
  <2>1. i - 1 \in 1 .. Len(q) /\ i - 1 # i
    BY <1>2, <1>5
  <2> DEFINE p == q[i - 1]
  <2>2. p \in N /\ p # q[i]
    BY <1>2, <2>1
  <2> HIDE DEF p
  <2>3. EntryAt(s, p) /\ Alone(s, m.bucket, p) /\ Uses(s, p) \cap Uses(s, q[i]) = {}
    BY <1>1, <1>3, <2>2 DEF Entries
  <2>4. p \in DOMAIN s \ Uses(s, q[i]) /\ p # FIRSTFILESTORAGEBLOCKHANDLE /\ p # m.bucket
    BY <2>3 DEF EntryAt, Alone, Uses
  <2> QED BY <2>4 DEF p
<1> QED BY <1>2, <1>3, <1>4, <1>5

\* It stays unlinked when its blocks are freed and the count is written.
LEMMA UnlinkedFewer ==
    ASSUME NEW s, NEW m, NEW N, NEW ch, MapIn(s, m, N, ch), NEW b \in Buckets, NEW q, q = ch[b], NEW i \in 1 .. Len(q),
           NEW t, NEW u, NEW m1, UnlinkedIn(s, t, m, m1, q, i), Fewer(t, u, Uses(s, q[i]))
    PROVE  UnlinkedIn(s, u, m, m1, q, i)
<1>1. /\ FIRSTFILESTORAGEBLOCKHANDLE \in DOMAIN s \ Uses(s, q[i]) /\ m.bucket \in DOMAIN s \ Uses(s, q[i])
      /\ i > 1 => q[i - 1] \in DOMAIN s \ Uses(s, q[i])
  BY KeptApart
<1> DEFINE D == DOMAIN s \ Uses(s, q[i])
<1>2. D \subseteq DOMAIN t \ Uses(s, q[i]) /\ DOMAIN t \subseteq Nat \ {0}
  BY DEF UnlinkedIn
<1>3. D \subseteq DOMAIN u /\ DOMAIN u \subseteq Nat \ {0} /\ \A x \in D : u[x] = t[x]
  BY <1>2 DEF Fewer
<1> QED BY <1>1, <1>3 DEF UnlinkedIn

LEMMA UnlinkedCounted ==
    ASSUME NEW s, NEW m, NEW N, NEW ch, MapIn(s, m, N, ch), NEW b \in Buckets, NEW q, q = ch[b], NEW i \in 1 .. Len(q),
           NEW t, NEW u, NEW m0, NEW m1, UnlinkedIn(s, t, m, m0, q, i), m1.buckets = m0.buckets,
           Rewritten(t, u, FIRSTFILESTORAGEBLOCKHANDLE, Info(m1))
    PROVE  UnlinkedIn(s, u, m, m1, q, i)
<1>0. /\ m.bucket \in DOMAIN s \ Uses(s, q[i])
      /\ i > 1 => q[i - 1] \in DOMAIN s \ Uses(s, q[i]) /\ q[i - 1] # FIRSTFILESTORAGEBLOCKHANDLE
  BY KeptApart
<1>1. /\ m.bucket \in DOMAIN s \ Uses(s, q[i]) /\ m.bucket # FIRSTFILESTORAGEBLOCKHANDLE
      /\ i > 1 => q[i - 1] \in DOMAIN s \ Uses(s, q[i]) /\ q[i - 1] # FIRSTFILESTORAGEBLOCKHANDLE
  BY <1>0 DEF MapIn, Headed
<1> DEFINE D == DOMAIN s \ Uses(s, q[i])
<1>2. D \subseteq DOMAIN t /\ DOMAIN t \subseteq Nat \ {0}
  BY DEF UnlinkedIn
<1>3. /\ D \subseteq DOMAIN u /\ DOMAIN u \subseteq Nat \ {0} /\ u[FIRSTFILESTORAGEBLOCKHANDLE] = Info(m1)
      /\ \A x \in D : x # FIRSTFILESTORAGEBLOCKHANDLE => u[x] = t[x]
  BY <1>2 DEF Rewritten
<1> QED BY <1>1, <1>3 DEF UnlinkedIn

\* The map without the i-th node of q is kept; where it is counted, it has one
\* entry less.
LEMMA DroppedKept ==
    ASSUME MapBounds, NEW s, NEW t, NEW m \in Memories, NEW N, NEW ch, MapIn(s, m, N, ch),
           NEW b \in Buckets, NEW q, q = ch[b], NEW i \in 1 .. Len(q),
           NEW m1 \in Memories, m1.bucket = m.bucket,
           m1.buckets = (IF i = 1 THEN Put(m.buckets, b, s[q[i]].nextBlock) ELSE m.buckets),
           UnlinkedIn(s, t, m, m1, q, i), NEW A, NEW al \in [Keys -> A], Fits(s, N, al),
           NEW mis, mis \/ m.size = Cardinality(N)
    PROVE  /\ Kept(t, m1, Put(al, KeyOf(s, q[i]), {None}), TRUE)
           /\ m1.size = m.size - 1 => Kept(t, m1, Put(al, KeyOf(s, q[i]), {None}), mis)
<1>1. MapIn(t, m1, N \ {q[i]}, Shorter(ch, b, i)) /\ Fits(t, N \ {q[i]}, Put(al, KeyOf(s, q[i]), {None}))
  BY DroppedIs
<1>2. q[i] \in N /\ IsFiniteSet(N) /\ Cardinality(N) \in Nat
  <2>1. q[i] \in N
    BY KeptApart
  <2>2. Entries(s, m.bucket, N)
    BY DEF MapIn
  <2> QED BY <2>1, <2>2, NodesFinite
<1>3. Cardinality(N \ {q[i]}) = Cardinality(N) - 1
  BY <1>2, FS_RemoveElement
<1> DEFINE M == N \ {q[i]}
           bl == Put(al, KeyOf(s, q[i]), {None})
           d == Shorter(ch, b, i)
<1> HIDE DEF M, bl, d
<1>4. MapIn(t, m1, M, d) /\ Fits(t, M, bl) /\ Cardinality(M) = Cardinality(N) - 1
  BY <1>1, <1>3 DEF M, bl, d
<1>5. Kept(t, m1, bl, TRUE)
  BY <1>4 DEF Kept
<1>6. m1.size = m.size - 1 => Kept(t, m1, bl, mis)
  <2>1. m1.size = m.size - 1 => (mis \/ m1.size = Cardinality(M))
    BY <1>4
  <2> QED BY <1>4, <2>1 DEF Kept
<1> QED BY <1>5, <1>6 DEF bl

\* The node before leads past it.
LEMMA UnlinkedBehind ==
    ASSUME NEW s, NEW m, NEW N, NEW ch, MapIn(s, m, N, ch), NEW b \in Buckets, NEW q, q = ch[b], NEW i \in 1 .. Len(q),
           i > 1, NEW p, p = q[i - 1], NEW t, Rewritten(s, t, p, LinkedTo(s[p], s[q[i]].nextBlock))
    PROVE  UnlinkedIn(s, t, m, m, q, i)
<1>1. Headed(s, m)
  BY DEF MapIn
<1>2. /\ FIRSTFILESTORAGEBLOCKHANDLE \in DOMAIN s /\ m.bucket \in DOMAIN s
      /\ p \in DOMAIN s /\ p # FIRSTFILESTORAGEBLOCKHANDLE /\ p # m.bucket
  BY KeptApart
<1>3. DOMAIN t = DOMAIN s /\ DOMAIN t \subseteq Nat \ {0}
  BY <1>1 DEF Rewritten, Headed
<1>4. t[FIRSTFILESTORAGEBLOCKHANDLE] = Info(m) /\ t[m.bucket] = BucketBlock(m.buckets)
  BY <1>1, <1>2 DEF Rewritten, Headed, BucketBlock
<1>5. t[p] = LinkedTo(s[p], s[q[i]].nextBlock) /\ \A x \in DOMAIN s : x # p => t[x] = s[x]
  BY DEF Rewritten
<1> QED BY <1>3, <1>4, <1>5 DEF UnlinkedIn

\* The bucket leads past it.
LEMMA UnlinkedFirst ==
    ASSUME NEW s, NEW m \in Memories, NEW N, NEW ch, MapIn(s, m, N, ch), NEW b \in Buckets, NEW q, q = ch[b],
           NEW i \in 1 .. Len(q), i = 1, NEW t, Fewer(s, t, Uses(s, q[i])), NEW u,
           NEW buckets \in [Buckets -> Handles \cup {Nil}], Rewritten(t, u, m.bucket, BucketBlock(buckets)),
           NEW m0, m0 = Rebucketed(m, buckets)
    PROVE  UnlinkedIn(s, u, m, m0, q, i)
<1> DEFINE F == FIRSTFILESTORAGEBLOCKHANDLE
           D == DOMAIN s \ Uses(s, q[i])
<1>1. Headed(s, m)
  BY DEF MapIn
<1>2. F \in D /\ m.bucket \in D /\ F # m.bucket
  <2>1. F \in D /\ m.bucket \in D
    BY KeptApart
  <2> QED BY <1>1, <2>1 DEF Headed
<1>3. m0.bucket = m.bucket /\ m0.size = m.size /\ m0.buckets = buckets
  <2>1. m.size \in Int
    BY MemIs
  <2> QED BY <2>1, MemSet
<1>4. DOMAIN u = DOMAIN t /\ D \subseteq DOMAIN t /\ DOMAIN u \subseteq Nat \ {0} /\ \A x \in D : t[x] = s[x]
  BY <1>1 DEF Rewritten, Headed, Fewer
<1>5. u[m.bucket] = BucketBlock(buckets) /\ \A x \in D : x # m.bucket => u[x] = s[x]
  BY <1>4 DEF Rewritten
<1>6. u[F] = Info(m0)
  BY <1>1, <1>2, <1>3, <1>5 DEF Headed, Info
<1> QED BY <1>3, <1>4, <1>5, <1>6 DEF UnlinkedIn

\* Freeing the three blocks of a node.
LEMMA FreedAll ==
    ASSUME NEW s, NEW t, NEW g, NEW t1, NEW t2, NEW t3,
           t1 = Applied(t, Free(s[g].key)), t2 = Applied(t1, Free(s[g].value)), t3 = Applied(t2, Free(g)),
           NEW r, Fewer(r, t, Uses(s, g))
    PROVE  Fewer(r, t1, Uses(s, g)) /\ Fewer(r, t2, Uses(s, g)) /\ Fewer(r, t3, Uses(s, g))
<1>1. s[g].key \in Uses(s, g) /\ s[g].value \in Uses(s, g) /\ g \in Uses(s, g)
  BY DEF Uses
<1>2. Fewer(r, t1, Uses(s, g))
  BY <1>1, FewerStep
<1>3. Fewer(r, t2, Uses(s, g))
  BY <1>1, <1>2, FewerStep
<1>4. Fewer(r, t3, Uses(s, g))
  BY <1>1, <1>3, FewerStep
<1> QED BY <1>2, <1>3, <1>4

\* The i-th node of q, the chain of bucket b, is to be deleted: g, that of k.
Removal(N, ch, A, al, mis, b, q, i, g, k) ==
    /\ mem \in Memories /\ MapIn(store, mem, N, ch) /\ (mis \/ mem.size = Cardinality(N))
    /\ al \in [Keys -> A] /\ Fits(store, N, al)
    /\ b \in Buckets /\ q = ch[b] /\ i \in 1 .. Len(q) /\ g = q[i]
    /\ k = KeyOf(store, g) /\ None \in al[k]

\* It is kept out when it is unlinked.
LEMMA RemovedKept ==
    ASSUME MapBounds, NEW N, NEW ch, NEW A, NEW al, NEW mis, NEW b, NEW q, NEW i, NEW g, NEW k,
           Removal(N, ch, A, al, mis, b, q, i, g, k), NEW t, NEW m1 \in Memories, m1.bucket = mem.bucket,
           m1.buckets = (IF i = 1 THEN Put(mem.buckets, b, store[g].nextBlock) ELSE mem.buckets),
           UnlinkedIn(store, t, mem, m1, q, i)
    PROVE  /\ Kept(t, m1, al, TRUE)
           /\ m1.size = mem.size - 1 => Kept(t, m1, Put(al, k, {None}), mis)
<1>1. /\ mem \in Memories /\ MapIn(store, mem, N, ch) /\ (mis \/ mem.size = Cardinality(N))
      /\ al \in [Keys -> A] /\ Fits(store, N, al)
      /\ b \in Buckets /\ q = ch[b] /\ i \in 1 .. Len(q) /\ g = q[i]
      /\ k = KeyOf(store, g) /\ None \in al[k]
  BY DEF Removal
<1>2. m1.buckets = (IF i = 1 THEN Put(mem.buckets, b, store[q[i]].nextBlock) ELSE mem.buckets)
  BY <1>1
<1> DEFINE bl == Put(al, KeyOf(store, q[i]), {None})
           m == mem
           s == store
<1>3. /\ m \in Memories /\ MapIn(s, m, N, ch) /\ (mis \/ m.size = Cardinality(N)) /\ Fits(s, N, al)
      /\ m1 \in Memories /\ m1.bucket = m.bucket /\ UnlinkedIn(s, t, m, m1, q, i)
      /\ m1.buckets = (IF i = 1 THEN Put(m.buckets, b, s[q[i]].nextBlock) ELSE m.buckets)
      /\ bl = Put(al, KeyOf(s, q[i]), {None}) /\ m.size = mem.size
  BY <1>1, <1>2
<1> HIDE DEF bl, m, s
<1>4. Kept(t, m1, bl, TRUE) /\ (m1.size = m.size - 1 => Kept(t, m1, bl, mis))
  BY ONLY MapBounds, <1>1, <1>3, DroppedKept
<1>5. bl = Put(al, k, {None})
  BY <1>1 DEF bl
<1>6. k \in Keys
  <2>1. EntryAt(store, q[i])
    BY <1>1, KeptApart
  <2> QED BY <1>1, <2>1 DEF EntryAt
<1>7. \A j \in Keys : bl[j] \subseteq al[j]
  BY <1>1, <1>5, <1>6, PutIs
<1>8. Kept(t, m1, al, TRUE)
  BY <1>4, <1>7, KeptMore
<1> QED BY <1>3, <1>4, <1>5, <1>8

\* A node behind another is passed by, and then freed and counted.
LEMMA PassLeads ==
    ASSUME MapBounds, NEW N, NEW ch, NEW A, NEW al, NEW mis, NEW b, NEW q, NEW i, NEW g, NEW k,
           Removal(N, ch, A, al, mis, b, q, i, g, k), i > 1, NEW p, p = q[i - 1]
    PROVE  \E t : /\ Goes(store, <<write(p, LinkedTo(store[p], store[g].nextBlock))>>
                                 \o Uncounted(<<Free(store[g].key), Free(store[g].value), Free(g)>>
                                              \o <<WriteInfo(mem.size - 1)>>), t, al, mis)
                  /\ Kept(t, Counted(mem, mem.size - 1), Put(al, k, {None}), mis)
<1> DEFINE F == FIRSTFILESTORAGEBLOCKHANDLE
           c == LinkedTo(store[p], store[g].nextBlock)
           size == mem.size - 1
           m1 == Counted(mem, size)
           U == Uses(store, g)
           bl == Put(al, k, {None})
           f1 == Free(store[g].key)
           f2 == Free(store[g].value)
           f3 == Free(g)
           link == write(p, c)
           s1 == Applied(store, link)
           s2 == Applied(s1, f1)
           s3 == Applied(s2, f2)
           s4 == Applied(s3, f3)
           info == write(F, Info(m1))
           y == Applied(s4, info)
<1> USE DEF Removal
<1>1. Kept(store, mem, al, mis)
  BY DEF Kept
<1>2. k \in Keys /\ p \in DOMAIN store /\ F \in DOMAIN store \ U
  BY KeptApart DEF EntryAt
<1>3. /\ m1 \in Memories /\ m1.bucket = mem.bucket /\ m1.size = mem.size - 1 /\ m1.buckets = mem.buckets
      /\ mem.buckets \in [Buckets -> Handles \cup {Nil}]
  <2>1. mem.size \in Int /\ mem.buckets \in [Buckets -> Handles \cup {Nil}]
    BY MemIs
  <2>2. size \in Int
    BY <2>1
  <2> HIDE DEF size
  <2>3. m1 \in Memories /\ m1.bucket = mem.bucket /\ m1.size = size /\ m1.buckets = mem.buckets
    BY <2>1, <2>2, MemSet
  <2> HIDE DEF m1
  <2> QED BY <2>1, <2>3 DEF size
<1>4. Rewritten(store, s1, p, c)
  <2> HIDE DEF c
  <2> QED BY <1>2, WriteIs DEF Rewritten
<1>5. UnlinkedIn(store, s1, mem, mem, q, i)
  <2> HIDE DEF s1
  <2> QED BY <1>4, UnlinkedBehind
<1>6. Fewer(s1, s1, U) /\ Fewer(s1, s2, U) /\ Fewer(s1, s3, U) /\ Fewer(s1, s4, U)
  <2>1. Fewer(s1, s1, U)
    BY DEF Fewer
  <2> HIDE DEF s1
  <2>0. s2 = Applied(s1, Free(store[g].key)) /\ s3 = Applied(s2, Free(store[g].value)) /\ s4 = Applied(s3, Free(g))
    OBVIOUS
  <2> HIDE DEF s2, s3, s4
  <2>2. Fewer(s1, s2, U) /\ Fewer(s1, s3, U) /\ Fewer(s1, s4, U)
    BY ONLY <2>0, <2>1, FreedAll
  <2> QED BY <2>1, <2>2
<1> HIDE DEF s1
<1>7. /\ UnlinkedIn(store, s2, mem, mem, q, i) /\ UnlinkedIn(store, s3, mem, mem, q, i)
      /\ UnlinkedIn(store, s4, mem, mem, q, i)
  <2> HIDE DEF s2, s3, s4
  <2> QED BY <1>5, <1>6, UnlinkedFewer
<1>8. Rewritten(s4, y, F, Info(m1))
  <2>1. F \in DOMAIN s4
    <3> HIDE DEF s4, U
    <3> QED BY <1>2, <1>4, <1>6 DEF Fewer, Rewritten
  <2> HIDE DEF s4, m1
  <2> QED BY <2>1, WriteIs DEF Rewritten
<1>9. UnlinkedIn(store, y, mem, m1, q, i)
  <2> HIDE DEF s4, y, m1
  <2> QED BY <1>3, <1>7, <1>8, UnlinkedCounted
<1>10. \A x : UnlinkedIn(store, x, mem, mem, q, i) => Kept(x, mem, al, TRUE)
  <2> DEFINE m == mem
  <2>1. /\ m.buckets = (IF i = 1 THEN Put(mem.buckets, b, store[g].nextBlock) ELSE mem.buckets)
        /\ m \in Memories /\ m.bucket = mem.bucket
    OBVIOUS
  <2> HIDE DEF Removal, m
  <2>2. ASSUME NEW x, UnlinkedIn(store, x, mem, m, q, i) PROVE Kept(x, m, al, TRUE)
    BY ONLY MapBounds, Removal(N, ch, A, al, mis, b, q, i, g, k), <2>1, <2>2, RemovedKept
  <2> QED BY <2>2 DEF m
<1>11. Kept(y, m1, bl, mis)
  <2> HIDE DEF y, m1
  <2>1. m1.buckets = (IF i = 1 THEN Put(mem.buckets, b, store[g].nextBlock) ELSE mem.buckets)
    BY <1>3
  <2> HIDE DEF Removal
  <2> QED BY <1>3, <1>9, <2>1, RemovedKept
<1>12. Leads(store, <<link>>, s1, al, mis, FALSE)
  <2>1. Cut(store, link, al, mis, FALSE)
    BY <1>1, CutKept, OpIs
  <2> QED BY <2>1, LeadsOne DEF s1
<1>13. Leads(s1, <<f1, f2, f3>>, s4, al, TRUE, FALSE)
  <2>1. Kept(s1, mem, al, TRUE) /\ Kept(s2, mem, al, TRUE) /\ Kept(s3, mem, al, TRUE)
    BY <1>5, <1>7, <1>10
  <2>2. Cut(s1, f1, al, TRUE, FALSE) /\ Cut(s2, f2, al, TRUE, FALSE) /\ Cut(s3, f3, al, TRUE, FALSE)
    <3>1. ~f1.exposed /\ ~f2.exposed /\ ~f3.exposed
      BY OpIs
    <3> HIDE DEF f1, f2, f3, s2, s3
    <3> QED BY <2>1, <3>1, CutKept
  <2> HIDE DEF f1, f2, f3
  <2> QED BY <2>2, LeadsThree
<1>14. Leads(s4, <<info>>, y, al, TRUE, FALSE)
  <2>1. Kept(s4, mem, al, TRUE) /\ ~info.exposed
    BY <1>7, <1>10, OpIs
  <2> HIDE DEF s4, info
  <2>2. Cut(s4, info, al, TRUE, FALSE)
    BY <2>1, CutKept
  <2> QED BY <2>2, LeadsOne
<1> DEFINE frees == <<f1, f2, f3>>
<1>15. Plains(frees) /\ Plains(<<info>>)
  <2>1. Plain(f1) /\ Plain(f2) /\ Plain(f3) /\ Plain(info)
    BY DEF Plain
  <2>2. frees = <<f1, f2>> \o <<f3>>
    BY Tuples
  <2> HIDE DEF f1, f2, f3, info, frees
  <2> QED BY <2>1, <2>2, PlainsOne, PlainsTwo, PlainsBoth
<1> DEFINE last == <<info>>
<1>16. Leads(s1, Uncounted(frees \o last), y, al, mis, FALSE)
  <2> HIDE DEF frees, last, s4, y
  <2>1. Plains(frees \o last) /\ Leads(s1, frees \o last, y, al, TRUE, FALSE)
    BY <1>13, <1>14, <1>15, PlainsBoth, LeadsBoth DEF frees, last
  <2> DEFINE e == frees \o last
  <2> HIDE DEF e
  <2>2. Leads(s1, Uncounted(e), y, al, mis, FALSE)
    BY <2>1, LeadsUncounted DEF e
  <2> QED BY <2>2 DEF e
<1>17. Goes(store, <<link>> \o Uncounted(frees \o last), y, al, mis)
  <2> HIDE DEF frees, last, link, y
  <2> QED BY <1>12, <1>16, GoesBoth
<1>18. info = WriteInfo(mem.size - 1)
  BY DEF WriteInfo, Counted
<1> QED
  <2> HIDE DEF y
  <2> QED BY <1>11, <1>17, <1>18

\* The first node of a chain is freed and then passed by, and counted.
LEMMA FirstLeads ==
    ASSUME MapBounds, NEW N, NEW ch, NEW A, NEW al, NEW mis, NEW b, NEW q, NEW i, NEW g, NEW k,
           Removal(N, ch, A, al, mis, b, q, i, g, k), i = 1,
           NEW buckets, buckets = Put(mem.buckets, b, store[g].nextBlock)
    PROVE  \E t : /\ Goes(store, <<Free(store[g].key)>>
                                 \o Exposed(<<Free(store[g].value), Free(g)>> \o <<WriteBuckets(buckets)>>)
                                 \o Uncounted(<<WriteInfo(mem.size - 1)>>), t, al, mis)
                  /\ Kept(t, Changed(mem, buckets, mem.size - 1), Put(al, k, {None}), mis)
                  /\ Changed(mem, buckets, mem.size - 1) \in Memories
<1> DEFINE F == FIRSTFILESTORAGEBLOCKHANDLE
           size == mem.size - 1
           m0 == Rebucketed(mem, buckets)
           m1 == Changed(mem, buckets, size)
           U == Uses(store, g)
           bl == Put(al, k, {None})
           f1 == Free(store[g].key)
           f2 == Free(store[g].value)
           f3 == Free(g)
           link == write(mem.bucket, BucketBlock(buckets))
           s1 == Applied(store, f1)
           s2 == Applied(s1, f2)
           s3 == Applied(s2, f3)
           s4 == Applied(s3, link)
           info == write(F, Info(m1))
           y == Applied(s4, info)
<1> USE DEF Removal
<1>1. Kept(store, mem, al, mis)
  BY DEF Kept
<1>2. k \in Keys /\ F \in DOMAIN store \ U /\ mem.bucket \in DOMAIN store \ U /\ g \in N
  BY KeptApart DEF EntryAt
<1>3. mem.buckets \in [Buckets -> Handles \cup {Nil}] /\ mem.size \in Int /\ size \in Int
  <2>1. mem.size \in Int /\ mem.buckets \in [Buckets -> Handles \cup {Nil}]
    BY MemIs
  <2>2. size \in Int
    BY ONLY <2>1
  <2> QED BY <2>1, <2>2
<1>4. buckets \in [Buckets -> Handles \cup {Nil}]
  <2>1. /\ Strand(store, mem.buckets[b], q) /\ Len(q) \in Nat
        /\ \A j \in 1 .. Len(q) : q[j] \in N
    BY ChainOf DEF MapIn
  <2>2. N \subseteq Handles
    BY DEF MapIn, Entries
  <2>3. store[g].nextBlock = IF i = Len(q) THEN Nil ELSE q[i + 1]
    BY <2>1 DEF Strand
  <2>4. i # Len(q) => i + 1 \in 1 .. Len(q)
    <3> DEFINE n == Len(q)
    <3>1. n \in Nat /\ i \in 1 .. n
      BY <2>1
    <3> HIDE DEF n
    <3>2. i # n => i + 1 \in 1 .. n
      BY ONLY <3>1
    <3> QED BY <3>2 DEF n
  <2> DEFINE x == store[g].nextBlock
  <2>5. x \in Handles \cup {Nil}
    BY <2>1, <2>2, <2>3, <2>4
  <2> HIDE DEF x
  <2>6. buckets = Put(mem.buckets, b, x)
    BY DEF x
  <2> QED BY <1>3, <2>5, <2>6 DEF Put
<1>5. /\ m0 \in Memories /\ m0.bucket = mem.bucket /\ m0.size = mem.size /\ m0.buckets = buckets
      /\ m1 \in Memories /\ m1.bucket = mem.bucket /\ m1.size = size /\ m1.buckets = buckets
  <2> HIDE DEF size
  <2> QED BY <1>3, <1>4, MemSet
<1>6. Fewer(store, s1, U) /\ Fewer(store, s2, U) /\ Fewer(store, s3, U)
  <2>1. Fewer(store, store, U)
    BY DEF Fewer
  <2>2. s1 = Applied(store, Free(store[g].key)) /\ s2 = Applied(s1, Free(store[g].value)) /\ s3 = Applied(s2, Free(g))
    OBVIOUS
  <2> HIDE DEF s1, s2, s3
  <2> QED BY ONLY <2>1, <2>2, FreedAll
<1>7. Rewritten(s3, s4, mem.bucket, BucketBlock(buckets))
  <2>1. mem.bucket \in DOMAIN s3
    <3> HIDE DEF s3, U
    <3> QED BY <1>2, <1>6 DEF Fewer
  <2> HIDE DEF s3
  <2> QED BY <2>1, WriteIs DEF Rewritten
<1>8. UnlinkedIn(store, s4, mem, m0, q, i)
  <2> HIDE DEF s3, s4, m0
  <2>1. m0 = Rebucketed(mem, buckets)
    BY DEF m0
  <2> QED BY <1>4, <1>6, <1>7, <2>1, UnlinkedFirst
<1>9. Rewritten(s4, y, F, Info(m1))
  <2>1. F \in DOMAIN s4
    <3> HIDE DEF s3, s4, U
    <3> QED BY <1>2, <1>6, <1>7 DEF Fewer, Rewritten
  <2> HIDE DEF s4, m1
  <2> QED BY <2>1, WriteIs DEF Rewritten
<1>10. UnlinkedIn(store, y, mem, m1, q, i)
  <2> HIDE DEF s4, y, m0, m1
  <2> QED BY <1>5, <1>8, <1>9, UnlinkedCounted
<1>11. Kept(s4, m0, al, TRUE) /\ Kept(y, m1, bl, mis)
  <2>1. buckets = (IF i = 1 THEN Put(mem.buckets, b, store[g].nextBlock) ELSE mem.buckets)
    OBVIOUS
  <2> HIDE DEF s4, y, m0, m1, Removal
  <2>2. Kept(s4, m0, al, TRUE)
    BY <1>5, <1>8, <2>1, RemovedKept
  <2>3. Kept(y, m1, bl, mis)
    BY <1>5, <1>10, <2>1, RemovedKept
  <2> QED BY <2>2, <2>3
<1>12. Leads(store, <<f1>>, s1, al, mis, FALSE)
  <2>1. Cut(store, f1, al, mis, FALSE)
    BY <1>1, CutKept, OpIs
  <2> QED BY <2>1, LeadsOne
<1> DEFINE frees == <<f2, f3>>
           last == <<link>>
<1>13. Leads(s1, frees, s3, al, mis, TRUE) /\ Leads(s3, last, s4, al, mis, TRUE)
  <2>1. \A s, o : Cut(s, o, al, mis, TRUE)
    BY DEF Cut
  <2> HIDE DEF s1
  <2>2. Leads(s1, frees, s3, al, mis, TRUE)
    BY <2>1, LeadsTwo
  <2> HIDE DEF s3
  <2>3. Leads(s3, last, s4, al, mis, TRUE)
    BY <2>1, LeadsOne
  <2> QED BY <2>2, <2>3
<1>14. Plains(frees) /\ Plains(last) /\ Plains(<<info>>)
  <2>1. Plain(f2) /\ Plain(f3) /\ Plain(link) /\ Plain(info)
    BY DEF Plain
  <2> HIDE DEF f2, f3, link, info
  <2> QED BY <2>1, PlainsOne, PlainsTwo
<1>15. Leads(s1, Exposed(frees \o last), s4, al, mis, FALSE)
  <2> HIDE DEF frees, last, s1, s3, s4
  <2>1. Plains(frees \o last) /\ Leads(s1, frees \o last, s4, al, mis, TRUE)
    BY <1>13, <1>14, PlainsBoth, LeadsBoth
  <2> DEFINE e == frees \o last
  <2> HIDE DEF e
  <2>2. Leads(s1, Exposed(e), s4, al, mis, FALSE)
    BY <2>1, LeadsExposed DEF e
  <2> QED BY <2>2 DEF e
<1>16. Leads(s4, Uncounted(<<info>>), y, al, mis, FALSE)
  <2>1. ~info.exposed
    BY OpIs
  <2> HIDE DEF s4, m0, info
  <2>2. Cut(s4, info, al, TRUE, FALSE)
    BY <1>5, <1>11, <2>1, CutKept
  <2>3. Leads(s4, <<info>>, y, al, TRUE, FALSE)
    BY <2>2, LeadsOne
  <2> HIDE DEF y
  <2> QED BY <1>14, <2>3, LeadsUncounted
<1>17. Goes(store, <<f1>> \o Exposed(frees \o last) \o Uncounted(<<info>>), y, al, mis)
  <2> HIDE DEF frees, last, f1, info, s1, s4, y
  <2>1. Goes(store, <<f1>> \o Exposed(frees \o last), s4, al, mis)
    BY <1>12, <1>15, GoesBoth
  <2> DEFINE a == <<f1>> \o Exposed(frees \o last)
             c == Uncounted(<<info>>)
  <2>2. Leads(store, a, s4, al, mis, FALSE) /\ a # <<>>
    BY <2>1 DEF Goes
  <2>3. Leads(s4, c, y, al, mis, FALSE)
    BY <1>16
  <2> HIDE DEF a, c
  <2>4. Goes(store, a \o c, y, al, mis)
    BY ONLY <2>2, <2>3, GoesBoth
  <2> QED BY <2>4 DEF a, c
<1>18. info = WriteInfo(mem.size - 1) /\ link = WriteBuckets(buckets)
  <2>1. Counted(mem, size).bucket = mem.bucket /\ Counted(mem, size).size = size
    <3> HIDE DEF size
    <3> QED BY <1>3, <1>4, MemSet
  <2>2. Info(Counted(mem, size)) = Info(m1)
    <3> HIDE DEF size, m1
    <3> QED BY <1>5, <2>1 DEF Info
  <2> QED BY <2>2 DEF WriteInfo, Counted, WriteBuckets, BucketBlock
<1> QED
  <2> HIDE DEF y
  <2>1. Goes(store, <<f1>> \o Exposed(frees \o <<WriteBuckets(buckets)>>)
                    \o Uncounted(<<WriteInfo(mem.size - 1)>>), y, al, mis)
    BY <1>17, <1>18
  <2> QED BY <1>5, <1>11, <2>1

-----------------------------------------------------------------------------
(* A new map.                                                              *)

LEMMA FiveIs ==
    ASSUME NEW o, NEW p, NEW q, NEW u, NEW v
    PROVE  <<o, p, q>> \o <<u, v>> = <<o, p, q, u, v>>
<1> DEFINE X == {o, p, q, u, v}
           a == <<o, p, q>> \o <<u, v>>
           b == <<o, p, q, u, v>>
<1>1. a \in Seq(X) /\ b \in Seq(X) /\ Len(a) = Len(b) /\ \A i \in 1 .. Len(a) : a[i] = b[i]
  OBVIOUS
<1> HIDE DEF X, a, b
<1>2. a = b
  BY <1>1, SeqEqual
<1> QED BY <1>2 DEF a, b

\* The map that CreateMap makes.
NewMap(m, bucket, buckets) ==
    /\ m = [open |-> TRUE, bucket |-> bucket, size |-> 0, buckets |-> buckets]
    /\ bucket \in Nat \ {0, FIRSTFILESTORAGEBLOCKHANDLE}
    /\ buckets = [b \in Buckets |-> Nil]

LEMMA NewIs ==
    ASSUME NEW m, NEW bucket, NEW buckets, NewMap(m, bucket, buckets)
    PROVE  m \in Memories /\ m.bucket = bucket /\ m.size = 0 /\ m.buckets = buckets
<1>1. buckets \in [Buckets -> Handles \cup {Nil}] /\ bucket \in Nat \ {0} /\ 0 \in Int
  BY DEF NewMap
<1> QED BY <1>1 DEF NewMap, Memories

\* It has no entries.
LEMMA NewKept ==
    ASSUME NEW m, NEW bucket, NEW buckets, NewMap(m, bucket, buckets),
           NEW s, DOMAIN s = {FIRSTFILESTORAGEBLOCKHANDLE, bucket},
           s[FIRSTFILESTORAGEBLOCKHANDLE] = Info(m), s[bucket] = BucketBlock(buckets),
           NEW al, \A k \in Keys : None \in al[k], NEW mis
    PROVE  Kept(s, m, al, mis)
<1> DEFINE ch == [b \in Buckets |-> <<>>]
<1>1. m.bucket = bucket /\ m.size = 0 /\ m.buckets = buckets
  BY NewIs
<1>2. Headed(s, m)
  <2>1. DOMAIN s \subseteq Nat \ {0} /\ FIRSTFILESTORAGEBLOCKHANDLE # bucket
    BY DEF NewMap, FIRSTFILESTORAGEBLOCKHANDLE
  <2> QED BY <1>1, <2>1 DEF Headed, BucketBlock
<1>3. Entries(s, m.bucket, {})
  BY DEF Entries
<1>4. Chains(s, m.buckets, {}, ch)
  <2>1. ch \in [Buckets -> Seq({})] /\ \A b \in Buckets : ch[b] = <<>> /\ m.buckets[b] = Nil
    BY <1>1 DEF NewMap
  <2> HIDE DEF ch
  <2>2. \A f : Strand(s, Nil, <<>>)
    BY DEF Strand
  <2>3. \A b \in Buckets : Strand(s, m.buckets[b], ch[b]) /\ Len(ch[b]) = 0
    BY <2>1, <2>2
  <2> QED BY <2>1, <2>3 DEF Chains
<1>5. Fits(s, {}, al)
  BY DEF Fits
<1>6. m.size = Cardinality({})
  BY <1>1, FS_EmptySet
<1> HIDE DEF ch
<1> QED BY <1>2, <1>3, <1>4, <1>5, <1>6 DEF Kept, MapIn

\* Nothing is there yet.
LEMMA CutEmpty ==
    ASSUME NEW s, ~Made(s), NEW al, \A k \in Keys : None \in al[k], NEW o, ~o.exposed, NEW mis, NEW free
    PROVE  Cut(s, o, al, mis, free)
BY DEF Cut, Disk

LEMMA CreateLeads ==
    ASSUME NEW m, NEW bucket, NEW buckets, NewMap(m, bucket, buckets),
           NEW al, \A k \in Keys : None \in al[k], NEW mis, ~Made(store)
    PROVE  \E t : /\ Leads(store, <<clearFile, allocate(FIRSTFILESTORAGEBLOCKHANDLE), allocate(bucket),
                                    write(bucket, BucketBlock(buckets)),
                                    write(FIRSTFILESTORAGEBLOCKHANDLE, Info(m))>>, t, al, mis, FALSE)
                  /\ Kept(t, m, al, mis)
<1> DEFINE F == FIRSTFILESTORAGEBLOCKHANDLE
           o1 == clearFile
           o2 == allocate(F)
           o3 == allocate(bucket)
           o4 == write(bucket, BucketBlock(buckets))
           o5 == write(F, Info(m))
           s1 == Applied(store, o1)
           s2 == Applied(s1, o2)
           s3 == Applied(s2, o3)
           s4 == Applied(s3, o4)
           s5 == Applied(s4, o5)
<1>1. bucket # F
  BY DEF NewMap
<1>2. DOMAIN s1 = {}
  BY Cleared, OpIs
<1>3. DOMAIN s2 = {F} /\ s2[F] = Junk
  <2> HIDE DEF s1, F
  <2>0. Does(o2, "allocate", F, Junk)
    BY OpIs
  <2>1. DOMAIN s2 = DOMAIN s1 \cup {F} /\ s2[F] = Junk
    BY <2>0, Allocated
  <2> QED BY <1>2, <2>1
<1>4. DOMAIN s3 = {F, bucket} /\ s3[F] = Junk
  <2> HIDE DEF s2
  <2>1. DOMAIN s3 = DOMAIN s2 \cup {bucket} /\ \A x \in DOMAIN s2 : x # bucket => s3[x] = s2[x]
    BY AllocateIs
  <2> HIDE DEF F, s3
  <2> QED BY <1>1, <1>3, <2>1
<1>5. DOMAIN s4 = {F, bucket} /\ s4[F] = Junk /\ s4[bucket] = BucketBlock(buckets)
  <2> HIDE DEF s3, F
  <2>0. bucket \in DOMAIN s3
    BY <1>4
  <2>1. DOMAIN s4 = DOMAIN s3 /\ s4[bucket] = BucketBlock(buckets) /\ \A x \in DOMAIN s3 : x # bucket => s4[x] = s3[x]
    BY <2>0, WriteIs
  <2> HIDE DEF s4
  <2> QED BY <1>1, <1>4, <2>1
<1>6. DOMAIN s5 = {F, bucket} /\ s5[F] = Info(m) /\ s5[bucket] = BucketBlock(buckets)
  <2> HIDE DEF s4, F
  <2>0. F \in DOMAIN s4
    BY <1>5
  <2>1. DOMAIN s5 = DOMAIN s4 /\ s5[F] = Info(m) /\ \A x \in DOMAIN s4 : x # F => s5[x] = s4[x]
    BY <2>0, WriteIs
  <2> HIDE DEF s5
  <2> QED BY <1>1, <1>5, <2>1
<1>7. ~Made(s1) /\ ~Made(s2) /\ ~Made(s3) /\ ~Made(s4)
  <2>1. Junk.kind # "info"
    BY DEF Junk
  <2>2. F \notin DOMAIN s1 /\ s2[F].kind # "info" /\ s3[F].kind # "info" /\ s4[F].kind # "info"
    <3> HIDE DEF s1, s2, s3, s4, F
    <3> QED BY <1>2, <1>3, <1>4, <1>5, <2>1
  <2> HIDE DEF s1, s2, s3, s4
  <2> QED BY <2>2 DEF Made
<1>8. ~o1.exposed /\ ~o2.exposed /\ ~o3.exposed /\ ~o4.exposed /\ ~o5.exposed
  BY OpIs
<1> HIDE DEF o1, o2, o3, o4, o5
<1>9. Leads(store, <<o1, o2, o3>>, s3, al, mis, FALSE)
  <2>1. Cut(store, o1, al, mis, FALSE) /\ Cut(s1, o2, al, mis, FALSE) /\ Cut(s2, o3, al, mis, FALSE)
    <3> HIDE DEF s1, s2
    <3> QED BY <1>7, <1>8, CutEmpty
  <2> QED BY <2>1, LeadsThree
<1>10. Leads(s3, <<o4, o5>>, s5, al, mis, FALSE)
  <2>1. Cut(s3, o4, al, mis, FALSE) /\ Cut(s4, o5, al, mis, FALSE)
    <3> HIDE DEF s3, s4
    <3> QED BY <1>7, <1>8, CutEmpty
  <2> HIDE DEF s3
  <2> QED BY <2>1, LeadsTwo
<1>11. Leads(store, <<o1, o2, o3, o4, o5>>, s5, al, mis, FALSE)
  <2>1. <<o1, o2, o3>> \o <<o4, o5>> = <<o1, o2, o3, o4, o5>>
    BY FiveIs
  <2> HIDE DEF s3, s5
  <2> QED BY <1>9, <1>10, <2>1, LeadsBoth
<1>12. Kept(s5, m, al, mis)
  <2> HIDE DEF s5
  <2> QED BY <1>6, NewKept
<1> QED
  <2> HIDE DEF s5
  <2> QED BY <1>11, <1>12 DEF o1, o2, o3, o4, o5

-----------------------------------------------------------------------------
(***************************************************************************)
(* The invariant: a closed map has a right file, whether or not it was     *)
(* killed in a call, and what an open one still does leads to a file that  *)
(* agrees with its memory.                                                 *)
(***************************************************************************)

Allowances == [Keys -> SUBSET (Values \cup {None})]
Calls == [key : Keys, value : Values \cup {None}]

ClosedWell ==
    /\ mem = Closed /\ todo = <<>> /\ call = NoCall
    /\ Disk(store, allowed, miscounted)

OpenWell ==
    /\ mem \in Memories
    /\ call = NoCall \/ call \in Calls
    /\ todo = <<>> => call = NoCall
    /\ \E t : /\ Leads(store, todo, t, allowed, miscounted, FALSE)
              /\ Kept(t, mem, Final(allowed, call), miscounted)

Well == allowed \in Allowances /\ (ClosedWell \/ OpenWell)
Inv == ~dangled => Well

LEMMA NotClosed == ASSUME NEW m \in Memories PROVE m # Closed /\ m.open = TRUE
<1>1. m.open = TRUE
  BY MemIs
<1>2. Closed.open = FALSE
  BY DEF Closed
<1> QED BY <1>1, <1>2, Zenon

\* Between two calls the file agrees with memory.
LEMMA IdleKept ==
    ASSUME Well, Idle
    PROVE  mem \in Memories /\ allowed \in Allowances /\ Kept(store, mem, allowed, miscounted)
<1>1. OpenWell
  <2>1. mem # Closed
    <3>1. Closed.open = FALSE
      BY DEF Closed
    <3> QED BY <3>1 DEF Idle
  <2> QED BY <2>1 DEF Well, ClosedWell
<1>2. todo = <<>> /\ call = NoCall
  BY <1>1 DEF OpenWell, Idle
<1>3. PICK t : Leads(store, todo, t, allowed, miscounted, FALSE) /\ Kept(t, mem, Final(allowed, call), miscounted)
  BY <1>1 DEF OpenWell
<1>4. t = store
  BY <1>2, <1>3, LeadsEnd
<1> QED BY <1>1, <1>2, <1>3, <1>4 DEF OpenWell, Well, Final

LEMMA DiskMore ==
    ASSUME NEW s, NEW al, NEW mis, NEW mis2, Disk(s, al, mis), mis => mis2
    PROVE  Disk(s, al, mis2)
<1>1. CASE \E m \in Memories : Kept(s, m, al, mis)
  <2>1. PICK m \in Memories : Kept(s, m, al, mis)
    BY <1>1
  <2>2. Kept(s, m, al, mis2)
    BY <2>1 DEF Kept
  <2> QED BY <2>2 DEF Disk
<1>2. CASE ~Made(s) /\ \A k \in Keys : None \in al[k]
  BY <1>2 DEF Disk
<1> QED BY <1>1, <1>2 DEF Disk

\* What is allowed from the begin of a call on, and when it is done.
LEMMA Begun ==
    ASSUME MapBounds, allowed \in Allowances, NEW k \in Keys, NEW v \in Values \cup {None}, Begin(k, v)
    PROVE  /\ allowed' \in Allowances /\ v \in allowed'[k] /\ \A j \in Keys : allowed[j] \subseteq allowed'[j]
           /\ call' \in Calls /\ Final(allowed', call') = Put(allowed', k, {v})
           /\ store' = store /\ dangled' = dangled /\ miscounted' = miscounted
<1>1. allowed' = [allowed EXCEPT ![k] = @ \cup {v}] /\ call' = [key |-> k, value |-> v]
  BY DEF Begin
<1>2. allowed' \in Allowances /\ v \in allowed'[k] /\ \A j \in Keys : allowed[j] \subseteq allowed'[j]
  BY <1>1 DEF Allowances
<1>3. call' \in Calls /\ call'.key = k /\ call'.value = v
  BY <1>1 DEF Calls
<1>4. call' # NoCall
  <2>1. NoCall.key = None /\ k # None
    BY DEF NoCall, MapBounds
  <2> QED BY <1>3, <2>1
<1>5. Final(allowed', call') = Put(allowed', k, {v})
  BY <1>3, <1>4 DEF Final, Put
<1> QED BY <1>2, <1>3, <1>5 DEF Begin

\* A call on its way.
LEMMA CallWell ==
    ASSUME MapBounds, allowed \in Allowances, NEW k \in Keys, NEW v \in Values \cup {None}, Begin(k, v),
           mem' \in Memories,
           NEW t, Goes(store, todo', t, allowed', miscounted), Kept(t, mem', Put(allowed', k, {v}), miscounted)
    PROVE  Well'
<1>1. /\ allowed' \in Allowances /\ call' \in Calls /\ Final(allowed', call') = Put(allowed', k, {v})
      /\ store' = store /\ miscounted' = miscounted
  BY Begun
<1>2. Leads(store', todo', t, allowed', miscounted', FALSE) /\ todo' # <<>>
  BY <1>1 DEF Goes
<1>3. Kept(t, mem', Final(allowed', call'), miscounted')
  BY <1>1
<1>4. OpenWell'
  BY <1>1, <1>2, <1>3 DEF OpenWell
<1> QED BY <1>1, <1>4 DEF Well

-----------------------------------------------------------------------------
LEMMA InitInv == Init => Inv
<1> SUFFICES ASSUME Init PROVE Well
  BY DEF Inv
<1>1. allowed \in Allowances /\ \A k \in Keys : None \in allowed[k]
  BY DEF Init, Allowances
<1>2. ~Made(store)
  <2>1. DOMAIN store = {}
    BY DEF Init
  <2> QED BY <2>1 DEF Made
<1>3. Disk(store, allowed, miscounted)
  BY <1>1, <1>2 DEF Disk
<1> QED BY <1>1, <1>3 DEF Init, Well, ClosedWell

\* LoadMap finds the map that is there, CreateMap makes one.
LEMMA OpenInv == ASSUME MapBounds, Well, Open PROVE Well'
<1> DEFINE F == FIRSTFILESTORAGEBLOCKHANDLE
           info == store[F]
<1>1. mem = Closed /\ store' = store /\ call' = call /\ miscounted' = miscounted /\ allowed' = allowed
  BY DEF Open
<1>2. ClosedWell /\ allowed \in Allowances
  BY <1>1, NotClosed DEF Well, OpenWell
<1>3. todo = <<>> /\ call = NoCall /\ Disk(store, allowed, miscounted)
  BY <1>2 DEF ClosedWell
<1>4. Final(allowed', call') = allowed
  BY <1>1, <1>3 DEF Final
<1>5. CASE Made(store)
  <2>1. PICK m \in Memories : Kept(store, m, allowed, miscounted)
    BY <1>3, <1>5 DEF Disk
  <2>2. Headed(store, m)
    BY <2>1 DEF Kept, MapIn
  <2>3. info = Info(m) /\ store[m.bucket] = [kind |-> "buckets", first |-> m.buckets]
    BY <2>2 DEF Headed
  <2>4. info.bucket = m.bucket /\ info.size = m.size /\ store[info.bucket].first = m.buckets
    <3> HIDE DEF info
    <3>1. info.bucket = m.bucket /\ info.size = m.size
      BY <2>3, HeadIs
    <3> QED BY <2>3, <3>1
  <2>5. Holds(F, "info") /\ Holds(info.bucket, "buckets")
    BY <1>5 DEF Made, Holds
  <2>6. mem' = [open |-> TRUE, bucket |-> info.bucket, size |-> info.size, buckets |-> store[info.bucket].first]
        /\ todo' = todo
    BY <2>5 DEF Open
  <2>7. mem' = m
    <3>1. m = [open |-> m.open, bucket |-> m.bucket, size |-> m.size, buckets |-> m.buckets] /\ m.open = TRUE
      BY DEF Memories
    <3> HIDE DEF info
    <3> QED BY <2>4, <2>6, <3>1
  <2>8. Leads(store', todo', store, allowed', miscounted', FALSE)
    BY <1>1, <1>3, <2>6, LeadsNowhere
  <2>9. OpenWell'
    BY <1>1, <1>3, <1>4, <2>1, <2>7, <2>8 DEF OpenWell
  <2> QED BY <1>1, <1>2, <2>9 DEF Well
<1>6. CASE ~Made(store)
  <2> DEFINE bucket == F + 1
             buckets == [b \in Buckets |-> Nil]
             new == [open |-> TRUE, bucket |-> bucket, size |-> 0, buckets |-> buckets]
  <2>1. \A k \in Keys : None \in allowed[k]
    <3>1. ~\E m : Kept(store, m, allowed, miscounted)
      BY <1>6, MadeIs DEF Kept, MapIn
    <3> QED BY <1>3, <3>1 DEF Disk
  <2>2. ~(Holds(F, "info") /\ Holds(info.bucket, "buckets"))
    BY <1>6 DEF Made, Holds
  <2>3. mem' = new
        /\ todo' = <<clearFile, allocate(F), allocate(bucket), write(bucket, [kind |-> "buckets", first |-> new.buckets]),
                     write(F, Info(new))>>
    BY <2>2 DEF Open
  <2>4. NewMap(new, bucket, buckets)
    BY DEF NewMap, FIRSTFILESTORAGEBLOCKHANDLE
  <2>5. new \in Memories /\ new.buckets = buckets
    BY <2>4, NewIs
  <2>6. todo' = <<clearFile, allocate(F), allocate(bucket), write(bucket, BucketBlock(buckets)), write(F, Info(new))>>
    BY <2>3, <2>5 DEF BucketBlock
  <2> HIDE DEF new, bucket, buckets
  <2>7. PICK t : Leads(store, todo', t, allowed, miscounted, FALSE) /\ Kept(t, new, allowed, miscounted)
    BY <1>6, <2>1, <2>4, <2>6, CreateLeads
  <2>8. OpenWell'
    BY <1>1, <1>3, <1>4, <2>3, <2>5, <2>7 DEF OpenWell
  <2> QED BY <1>1, <1>2, <2>8 DEF Well
<1> QED BY <1>5, <1>6

\* The next operation on the file.
LEMMA StepInv == ASSUME Well, Step PROVE Well'
<1> DEFINE o == Head(todo)
<1>1. todo # <<>> /\ store' = Applied(store, o) /\ todo' = Tail(todo) /\ mem' = mem /\ miscounted' = miscounted
  BY DEF Step
<1>2. OpenWell /\ allowed \in Allowances
  BY <1>1 DEF Well, ClosedWell
<1>3. PICK t : Leads(store, todo, t, allowed, miscounted, FALSE) /\ Kept(t, mem, Final(allowed, call), miscounted)
  BY <1>2 DEF OpenWell
<1>4. Leads(store', todo', t, allowed, miscounted, FALSE)
  BY <1>1, <1>3, LeadsOn
<1>5. CASE Tail(todo) = <<>> /\ call # NoCall
  <2>1. call \in Calls /\ allowed' = [allowed EXCEPT ![call.key] = {call.value}] /\ call' = NoCall
    BY <1>2, <1>5 DEF OpenWell, Step
  <2>2. allowed' = Final(allowed, call) /\ Final(allowed', call') = allowed'
    BY <1>5, <2>1 DEF Final
  <2>3. allowed' \in Allowances
    BY <1>2, <2>1 DEF Allowances, Calls
  <2>4. t = store'
    BY <1>1, <1>4, <1>5, LeadsEnd
  <2>5. Leads(store', todo', store', allowed', miscounted', FALSE)
    BY <1>1, <1>5, LeadsNowhere
  <2>6. Kept(store', mem', Final(allowed', call'), miscounted')
    BY <1>1, <1>3, <2>2, <2>4
  <2>7. OpenWell'
    BY <1>1, <1>2, <2>1, <2>5, <2>6 DEF OpenWell
  <2> QED BY <2>3, <2>7 DEF Well
<1>6. CASE ~(Tail(todo) = <<>> /\ call # NoCall)
  <2>1. allowed' = allowed /\ call' = call
    BY <1>6 DEF Step
  <2>2. todo' = <<>> => call' = NoCall
    BY <1>1, <1>6, <2>1
  <2>3. OpenWell'
    BY <1>1, <1>2, <1>3, <1>4, <2>1, <2>2 DEF OpenWell
  <2> QED BY <1>2, <2>1, <2>3 DEF Well
<1> QED BY <1>5, <1>6

\* Killed before an operation that is not exposed.
LEMMA CrashInv == ASSUME Well, Crash, ~dangled' PROVE Well'
<1>1. /\ mem.open /\ mem' = Closed /\ todo' = <<>> /\ call' = NoCall /\ store' = store /\ allowed' = allowed
      /\ ~(todo # <<>> /\ Head(todo).exposed)
      /\ miscounted' = (miscounted \/ (todo # <<>> /\ Head(todo).uncounted))
  BY DEF Crash
<1>2. OpenWell /\ allowed \in Allowances
  <2>1. mem # Closed
    <3>1. Closed.open = FALSE
      BY DEF Closed
    <3> QED BY <1>1, <3>1
  <2> QED BY <2>1 DEF Well, ClosedWell
<1>3. PICK t : Leads(store, todo, t, allowed, miscounted, FALSE) /\ Kept(t, mem, Final(allowed, call), miscounted)
  BY <1>2 DEF OpenWell
<1>4. CASE todo = <<>>
  <2>1. t = store /\ Final(allowed, call) = allowed
    BY <1>2, <1>3, <1>4, LeadsEnd DEF OpenWell, Final
  <2>2. Disk(store, allowed, miscounted)
    BY <1>2, <1>3, <2>1 DEF Disk, OpenWell
  <2>3. miscounted => miscounted'
    BY <1>1, Zenon
  <2>4. Disk(store, allowed, miscounted')
    BY <2>2, <2>3, DiskMore
  <2> QED BY <1>1, <1>2, <2>4 DEF Well, ClosedWell
<1>5. CASE todo # <<>>
  <2>1. Cut(store, Head(todo), allowed, miscounted, FALSE)
    BY <1>3, <1>5, LeadsOn
  <2>2. Disk(store, allowed, miscounted \/ Head(todo).uncounted)
    BY <1>1, <1>5, <2>1 DEF Cut
  <2>3. Disk(store, allowed, miscounted')
    BY <1>1, <1>5, <2>2, DiskMore
  <2> QED BY <1>1, <1>2, <2>3 DEF Well, ClosedWell
<1> QED BY <1>4, <1>5

\* The handles the storage gives out.
LEMMA RoomOne ==
    ASSUME MapBounds, NEW used, HasRoom(used, 1)
    PROVE  Unused(used, 1) \in Handles \ used
<1>1. 1 \in 1 .. 3 /\ 1 \in 1 .. 1
  OBVIOUS
<1> QED BY <1>1, RoomIs

LEMMA RoomThree ==
    ASSUME MapBounds, NEW used, HasRoom(used, 3), NEW n, NEW key, NEW value,
           n = Unused(used, 1), key = Unused(used, 2), value = Unused(used, 3)
    PROVE  /\ n \in Handles \ used /\ key \in Handles \ used /\ value \in Handles \ used
           /\ n # key /\ n # value /\ key # value
<1> DEFINE below(x) == UpToIn(Handles \ used, x)
<1>1. 3 \in 1 .. 3 /\ 1 \in 1 .. 3 /\ 2 \in 1 .. 3
  OBVIOUS
<1>2. \A i \in 1 .. 3 : /\ Unused(used, i) \in Handles \ used
                        /\ Cardinality(below(Unused(used, i))) = i
  BY <1>1, RoomIs
<1> HIDE DEF below
<1>3. /\ n \in Handles \ used /\ Cardinality(below(n)) = 1
      /\ key \in Handles \ used /\ Cardinality(below(key)) = 2
      /\ value \in Handles \ used /\ Cardinality(below(value)) = 3
  BY <1>1, <1>2
<1> QED BY <1>3

LEMMA AddInv == ASSUME MapBounds, Well, NEW k \in Keys, NEW v \in Values, add(k, v) PROVE Well'
<1> DEFINE b == Hash[k]
           q == Chain(b)
           i == PositionIn(q, k)
           al == allowed'
<1>1. Idle /\ Begin(k, v) /\ IF i # 0 THEN Update(k, v, q[i]) ELSE Insert(k, v, q)
  BY DEF add
<1>2. mem \in Memories /\ allowed \in Allowances /\ Kept(store, mem, allowed, miscounted)
  BY <1>1, IdleKept
<1>3. PICK N, ch : /\ MapIn(store, mem, N, ch) /\ Fits(store, N, allowed)
                   /\ miscounted \/ mem.size = Cardinality(N)
  BY <1>2 DEF Kept
<1>4. b \in Buckets /\ q = ch[b]
  <2>1. b \in Buckets
    BY DEF MapBounds
  <2> QED BY <1>3, <2>1, ChainIs
<1>5. /\ i = 0 => \A h \in N : KeyOf(store, h) # k
      /\ i # 0 => i \in 1 .. Len(q) /\ q[i] \in N /\ KeyOf(store, q[i]) = k
  BY <1>3, <1>4, PositionIs
<1>6. al \in Allowances /\ v \in al[k] /\ \A j \in Keys : allowed[j] \subseteq al[j]
  BY <1>1, <1>2, Begun
<1>7. Fits(store, N, al)
  <2>1. \A h \in N : KeyOf(store, h) \in Keys
    BY <1>3 DEF MapIn, Entries, EntryAt
  <2> QED BY <1>3, <1>6, <2>1 DEF Fits
<1> HIDE DEF al, i
<1>8. CASE i # 0
  <2> DEFINE h == q[i]
             new == Unused(DOMAIN store \ {store[h].value}, 1)
  <2>1. /\ HasRoom(DOMAIN store \ {store[h].value}, 1) /\ mem' = mem
        /\ todo' = <<Free(store[h].value)>>
                   \o Exposed(<<allocate(new)>> \o WriteData(new, v)
                              \o <<write(h, [store[h] EXCEPT !.value = new])>>)
    BY <1>1, <1>8 DEF Update
  <2>2. new \in Handles /\ new \notin DOMAIN store \ {store[h].value}
    BY <2>1, RoomOne
  <2>3. h \in N /\ KeyOf(store, h) = k
    BY <1>5, <1>8
  <2> HIDE DEF new, h
  <2>4. PICK t : Goes(store, todo', t, al, miscounted) /\ Kept(t, mem, [al EXCEPT ![KeyOf(store, h)] = {v}], miscounted)
    BY <1>2, <1>3, <1>6, <1>7, <2>1, <2>2, <2>3, UpdateLeads DEF Allowances
  <2>5. Kept(t, mem', Put(al, k, {v}), miscounted)
    BY <2>1, <2>3, <2>4 DEF Put
  <2> QED BY <1>1, <1>2, <2>1, <2>4, <2>5, CallWell DEF al
<1>9. CASE i = 0
  <2> DEFINE U == DOMAIN store
             n == Unused(U, 1)
             key == Unused(U, 2)
             value == Unused(U, 3)
             buckets == IF q = <<>> THEN [mem.buckets EXCEPT ![b] = n] ELSE mem.buckets
             link == IF q = <<>> THEN WriteBuckets(buckets)
                     ELSE write(Last(q), [store[Last(q)] EXCEPT !.nextBlock = n])
  <2>1. /\ HasRoom(U, 3)
        /\ todo' = Linked(Filling(n, key, value, k, v), link) \o Uncounted(<<WriteInfo(mem.size + 1)>>)
        /\ mem' = [mem EXCEPT !.buckets = buckets, !.size = @ + 1]
    BY <1>1, <1>9 DEF Insert, Filling
  <2>2. /\ n \in Handles \ U /\ key \in Handles \ U /\ value \in Handles \ U
        /\ n # key /\ n # value /\ key # value
    <3>1. n = Unused(U, 1) /\ key = Unused(U, 2) /\ value = Unused(U, 3)
      OBVIOUS
    <3> HIDE DEF U, n, key, value
    <3> QED BY <2>1, <3>1, RoomThree
  <2>3. mem' = Changed(mem, buckets, mem.size + 1)
    <3> HIDE DEF buckets
    <3> QED BY <2>1 DEF Changed
  <2>4. buckets = (IF q = <<>> THEN Put(mem.buckets, b, n) ELSE mem.buckets)
    <3> HIDE DEF n
    <3> QED BY DEF Put
  <2>5. link = (IF q = <<>> THEN WriteBuckets(buckets) ELSE write(q[Len(q)], LinkedTo(store[q[Len(q)]], n)))
    <3> HIDE DEF n, buckets
    <3> QED BY DEF Last, LinkedTo
  <2>6. mem' \in Memories
    <3>1. mem.size \in Int /\ mem.buckets \in [Buckets -> Handles \cup {Nil}]
      BY <1>2, MemIs
    <3>2. mem.size + 1 \in Int
      BY <3>1
    <3>3. buckets \in [Buckets -> Handles \cup {Nil}]
      <4> HIDE DEF n, buckets
      <4> QED BY <1>4, <2>2, <2>4, <3>1 DEF Put
    <3> HIDE DEF buckets
    <3> QED BY <1>2, <2>3, <3>2, <3>3, MemSet
  <2> HIDE DEF U, n, key, value, buckets, link
  <2>7. PICK t : /\ Goes(store, todo', t, al, miscounted)
                 /\ Kept(t, Changed(mem, buckets, mem.size + 1), Put(al, k, {v}), miscounted)
    BY <1>2, <1>3, <1>4, <1>5, <1>6, <1>7, <1>9, <2>1, <2>2, <2>4, <2>5, InsertLeads DEF Allowances, U
  <2> QED BY <1>1, <1>2, <2>3, <2>6, <2>7, CallWell DEF al
<1> QED BY <1>8, <1>9

LEMMA ThreeIs ==
    ASSUME NEW o, NEW p, NEW q
    PROVE  <<o, p, q>>[1] = o /\ Tail(<<o, p, q>>) = <<p, q>>
<1> DEFINE X == {o, p, q}
           a == Tail(<<o, p, q>>)
           b == <<p, q>>
<1>1. a \in Seq(X) /\ b \in Seq(X) /\ Len(a) = Len(b) /\ \A i \in 1 .. Len(a) : a[i] = b[i]
  OBVIOUS
<1> HIDE DEF X, a, b
<1>2. a = b
  BY <1>1, SeqEqual
<1>3. <<o, p, q>>[1] = o
  OBVIOUS
<1> QED BY <1>2, <1>3 DEF a, b

LEMMA DelInv == ASSUME MapBounds, Well, NEW k \in Keys, del(k) PROVE Well'
<1> DEFINE b == Hash[k]
           q == Chain(b)
           i == PositionIn(q, k)
           g == q[i]
           f1 == Free(store[g].key)
           f2 == Free(store[g].value)
           f3 == Free(g)
           buckets == [mem.buckets EXCEPT ![b] = Unlinked(g)]
           al == allowed'
<1>1. Idle /\ Begin(k, None) /\ i # 0
  BY DEF del
<1>2. mem \in Memories /\ allowed \in Allowances /\ Kept(store, mem, allowed, miscounted)
  BY <1>1, IdleKept
<1>3. PICK N, ch : /\ MapIn(store, mem, N, ch) /\ Fits(store, N, allowed)
                   /\ miscounted \/ mem.size = Cardinality(N)
  BY <1>2 DEF Kept
<1>4. b \in Buckets /\ q = ch[b]
  <2>1. b \in Buckets
    BY DEF MapBounds
  <2> QED BY <1>3, <2>1, ChainIs
<1>5. i \in 1 .. Len(q) /\ g \in N /\ KeyOf(store, g) = k
  BY <1>1, <1>3, <1>4, PositionIs
<1>6. al \in Allowances /\ None \in al[k] /\ \A j \in Keys : allowed[j] \subseteq al[j]
  BY <1>1, <1>2, Begun
<1>7. Fits(store, N, al)
  <2>1. \A h \in N : KeyOf(store, h) \in Keys
    BY <1>3 DEF MapIn, Entries, EntryAt
  <2> QED BY <1>3, <1>6, <2>1 DEF Fits
<1>8. mem.size \in Int /\ mem.size - 1 \in Int /\ mem.buckets \in [Buckets -> Handles \cup {Nil}]
  <2>1. mem.size \in Int /\ mem.buckets \in [Buckets -> Handles \cup {Nil}]
    BY <1>2, MemIs
  <2>2. mem.size - 1 \in Int
    BY ONLY <2>1
  <2> QED BY <2>1, <2>2
<1>9. <<f1, f2, f3>>[1] = f1 /\ Tail(<<f1, f2, f3>>) = <<f2, f3>>
  BY ThreeIs
<1> DEFINE A == SUBSET (Values \cup {None})
<1>10. Removal(N, ch, A, al, miscounted, b, q, i, g, k)
  <2> HIDE DEF al, q, i, g, b
  <2>1. g = q[i]
    BY DEF g
  <2> QED BY <1>2, <1>3, <1>4, <1>5, <1>6, <1>7, <2>1 DEF Removal, Allowances
<1> HIDE DEF A
<1>11. CASE i > 1
  <2> DEFINE p == q[i - 1]
             link == write(p, [store[p] EXCEPT !.nextBlock = Unlinked(g)])
  <2>1. /\ todo' = <<link>> \o Uncounted(<<f1, f2, f3>> \o <<WriteInfo(mem.size - 1)>>)
        /\ mem' = [mem EXCEPT !.size = @ - 1]
    BY <1>11 DEF del
  <2>2. link = write(p, LinkedTo(store[p], store[g].nextBlock))
    BY DEF LinkedTo, Unlinked
  <2>3. mem' = Counted(mem, mem.size - 1)
    BY <2>1 DEF Counted
  <2>4. mem' \in Memories
    BY <1>2, <1>8, <2>3, MemSet
  <2>5. g = q[i] /\ p = q[i - 1]
    OBVIOUS
  <2> HIDE DEF al, q, i, g, p, link
  <2>6. PICK t : /\ Goes(store, todo', t, al, miscounted)
                 /\ Kept(t, Counted(mem, mem.size - 1), Put(al, k, {None}), miscounted)
    BY ONLY MapBounds, <1>11, <1>10, <2>1, <2>2, <2>5, PassLeads
  <2> QED BY <1>1, <1>2, <2>3, <2>4, <2>6, CallWell DEF al
<1>12. CASE ~(i > 1)
  <2>1. i = 1
    BY <1>5, <1>12
  <2>2. /\ todo' = <<f1>> \o Exposed(<<f2, f3>> \o <<WriteBuckets(buckets)>>) \o Uncounted(<<WriteInfo(mem.size - 1)>>)
        /\ mem' = [mem EXCEPT !.buckets = buckets, !.size = @ - 1]
    BY <1>9, <1>12 DEF del
  <2>3. buckets = Put(mem.buckets, b, store[g].nextBlock)
    BY DEF Put, Unlinked
  <2>4. mem' = Changed(mem, buckets, mem.size - 1)
    BY <2>2 DEF Changed
  <2>5. g = q[i]
    OBVIOUS
  <2> HIDE DEF al, q, i, g, buckets
  <2>6. PICK t : /\ Goes(store, todo', t, al, miscounted)
                 /\ Kept(t, Changed(mem, buckets, mem.size - 1), Put(al, k, {None}), miscounted)
                 /\ Changed(mem, buckets, mem.size - 1) \in Memories
    BY ONLY MapBounds, <1>10, <2>1, <2>2, <2>3, FirstLeads
  <2>7. mem' \in Memories
    BY <2>4, <2>6
  <2> QED BY <1>1, <1>2, <2>4, <2>6, <2>7, CallWell DEF al
<1> QED BY <1>11, <1>12

LEMMA NextInv == ASSUME MapBounds, Inv, [Next]_vars PROVE Inv'
<1> SUFFICES ASSUME ~dangled' PROVE Well'
  BY DEF Inv
<1>1. CASE Next
  <2>1. Well
    BY <1>1 DEF Inv, Next
  <2>2. CASE \E k \in Keys, v \in Values : add(k, v)
    BY <2>1, <2>2, AddInv
  <2>3. CASE \E k \in Keys : del(k)
    BY <2>1, <2>3, DelInv
  <2>4. CASE Open
    BY <2>1, <2>4, OpenInv
  <2>5. CASE Step
    BY <2>1, <2>5, StepInv
  <2>6. CASE Crash
    BY <2>1, <2>6, CrashInv
  <2> QED BY <1>1, <2>2, <2>3, <2>4, <2>5, <2>6 DEF Next
<1>2. CASE UNCHANGED vars
  BY <1>2 DEF Inv, vars, Well, ClosedWell, OpenWell
<1> QED BY <1>1, <1>2

-----------------------------------------------------------------------------
LEMMA InvHolds ==
    ASSUME MapBounds, Inv
    PROVE  KeptIsFound /\ ChainsSound /\ IterationComplete
<1>1. CASE Usable
  <2>1. mem \in Memories /\ Kept(store, mem, allowed, miscounted)
    BY <1>1, IdleKept DEF Usable, Inv
  <2>2. KeptIsFound
    BY <2>1, FoundAllowed DEF KeptIsFound
  <2>3. ChainsSound
    <3>1. mem.bucket \in Nat
      BY <2>1, MemIs
    <3> QED BY <2>1, <3>1, SoundIs
  <2>4. IterationComplete
    <3>1. CASE miscounted
      BY <3>1 DEF IterationComplete
    <3>2. CASE ~miscounted
      <4>1. Kept(store, mem, allowed, FALSE)
        BY <2>1, <3>2 DEF Kept
      <4> QED BY <4>1, CompleteIs
    <3> QED BY <3>1, <3>2
  <2> QED BY <2>2, <2>3, <2>4
<1>2. CASE ~Usable
  BY <1>2 DEF KeptIsFound, ChainsSound, IterationComplete
<1> QED BY <1>1, <1>2
=============================================================================
