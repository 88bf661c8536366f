--------------------------- MODULE BufferListProofs --------------------------
(***************************************************************************)
(* BufferList keeps its records whole and its account of the space right,  *)
(* for every size of the ring and of the records.                          *)
(***************************************************************************)
EXTENDS BufferList, WellFoundedInduction, TLAPS

\* What is assumed of the constants: a length takes room, no record is empty
\* (push_back refuses it), and no number of the ring exceeds an unsigned
\* integer.
Numbers ==
    /\ lenSize \in Nat \ {0} /\ BufSizes \subseteq Nat /\ Lengths \subseteq Nat \ {0}
    /\ Word \in Nat /\ MaxShort \in Nat
    /\ \A n \in BufSizes : n + 2 + lenSize * MaxShort < Word

Records == Payloads \X Lengths
Cells == [kind : {"none", "len", "data"}, what : {0} \cup Lengths \cup Payloads, part : Nat]

\* The i-th byte of a record.
CellOf(c, i) == IF i <= lenSize THEN Cell("len", c[2], i) ELSE Cell("data", c[1], i - lenSize)

-----------------------------------------------------------------------------
(* Numbers.                                                                *)

\* The least member of a set of numbers.
LEMMA Least ==
    ASSUME NEW U, U \subseteq Nat, U # {}
    PROVE  \E x \in U : \A y \in U : x <= y
<1>1. PICK x \in U : \A y \in U : ~(<<y, x>> \in OpToRel(<, Nat))
  BY WFMin, NatLessThanWellFounded
<1>2. ASSUME NEW y \in U PROVE x <= y
  <2>1. ~(<<y, x>> \in {s \in Nat \X Nat : s[1] < s[2]})
    BY <1>1 DEF OpToRel
  <2> QED BY <2>1
<1> QED BY <1>2

\* The remainder of a number that is at most once round the ring away.
LEMMA Modulo ==
    ASSUME NEW m \in Int, m > 0, NEW x \in Int, -m <= x, x < 2 * m
    PROVE  x % m = IF x < 0 THEN x + m ELSE IF x < m THEN x ELSE x - m
<1>1. CASE x < 0
  BY <1>1
<1>2. CASE 0 <= x /\ x < m
  BY <1>2
<1>3. CASE m <= x
  BY <1>3
<1> QED BY <1>1, <1>2, <1>3

LEMMA ModuloOnce ==
    ASSUME NEW m \in Int, m > 0, NEW x \in Int, 0 <= x, x < 2 * m
    PROVE  x % m = IF x < m THEN x ELSE x - m
<1>1. -m <= x /\ ~(x < 0)
  OBVIOUS
<1> QED BY <1>1, Modulo

LEMMA ModuloSum ==
    ASSUME NEW m \in Int, m > 0
    PROVE  \A a, i \in 0 .. m - 1 : /\ (a + i) % m = IF a + i < m THEN a + i ELSE a + i - m
                                    /\ (a + i) % m \in 0 .. m - 1
<1> TAKE a, i \in 0 .. m - 1
<1>1. a + i \in Int /\ 0 <= a + i /\ a + i < 2 * m
  OBVIOUS
<1>2. (a + i) % m = IF a + i < m THEN a + i ELSE a + i - m
  BY <1>1, ModuloOnce
<1>3. (IF a + i < m THEN a + i ELSE a + i - m) \in 0 .. m - 1
  BY <1>1
<1> QED BY <1>2, <1>3

-----------------------------------------------------------------------------
(* The places of records.                                                  *)

LEMMA RecordIs ==
    ASSUME Numbers, NEW c \in Records
    PROVE  /\ c[1] \in Payloads /\ c[2] \in Lengths /\ c[2] \in Nat /\ c[2] > 0
           /\ lenSize \in Nat /\ lenSize > 0
           /\ RecordSize(c) \in Nat /\ RecordSize(c) = lenSize + c[2] /\ RecordSize(c) > 1
<1>1. c[1] \in Payloads /\ c[2] \in Lengths
  BY DEF Records
<1>2. lenSize \in Nat /\ lenSize > 0 /\ \A n \in Lengths : n \in Nat /\ n > 0
  BY DEF Numbers
<1> QED BY <1>1, <1>2 DEF RecordSize

\* f gives the bytes of the first n records of s, up to the k-th.
Counts(f, s, k) ==
    /\ f[0] = 0
    /\ \A n \in 1 .. k : f[n] = f[n - 1] + RecordSize(s[n])

\* A function that counts exists.
LEMMA CountExists ==
    ASSUME Numbers, NEW s \in Seq(Records)
    PROVE  \E f : f = [n \in 0 .. Len(s) |-> IF n = 0 THEN 0 ELSE f[n - 1] + RecordSize(s[n])]
<1> DEFINE P(k) == \E f : f = [n \in 0 .. k |-> IF n = 0 THEN 0 ELSE f[n - 1] + RecordSize(s[n])]
           Bad == {k \in 0 .. Len(s) : ~P(k)}
<1>1. P(0)
  <2> DEFINE f == [n \in 0 .. 0 |-> 0]
  <2>1. f = [n \in 0 .. 0 |-> IF n = 0 THEN 0 ELSE f[n - 1] + RecordSize(s[n])]
    OBVIOUS
  <2> QED BY <2>1
<1>2. ASSUME NEW k \in Nat, k > 0, P(k - 1) PROVE P(k)
  <2>1. PICK f : f = [n \in 0 .. k - 1 |-> IF n = 0 THEN 0 ELSE f[n - 1] + RecordSize(s[n])]
    BY <1>2
  <2> DEFINE g == [n \in 0 .. k |-> IF n = k THEN f[k - 1] + RecordSize(s[k]) ELSE f[n]]
  <2>2. \A n \in 0 .. k : g[n] = IF n = 0 THEN 0 ELSE g[n - 1] + RecordSize(s[n])
    <3>1. ASSUME NEW n \in 0 .. k PROVE g[n] = IF n = 0 THEN 0 ELSE g[n - 1] + RecordSize(s[n])
      <4>1. CASE n = k
        BY <4>1, <1>2
      <4>2. CASE n # k
        BY <4>2, <2>1, <1>2
      <4> QED BY <4>1, <4>2
    <3> QED BY <3>1
  <2>3. g = [n \in 0 .. k |-> g[n]]
    OBVIOUS
  <2>4. g = [n \in 0 .. k |-> IF n = 0 THEN 0 ELSE g[n - 1] + RecordSize(s[n])]
    <3> HIDE DEF g
    <3> QED BY <2>2, <2>3
  <2> QED BY <2>4
<1> HIDE DEF P
<1>3. Bad = {}
  <2> SUFFICES ASSUME Bad # {} PROVE FALSE
    OBVIOUS
  <2>1. PICK k \in Bad : \A j \in Bad : k <= j
    <3>1. Bad \subseteq Nat
      OBVIOUS
    <3> HIDE DEF Bad
    <3> QED BY <3>1, Least
  <2>2. k # 0
    BY <1>1
  <2>3. k - 1 \notin Bad /\ k - 1 \in 0 .. Len(s)
    BY <2>1, <2>2
  <2> QED BY <2>1, <2>2, <2>3, <1>2
<1>4. P(Len(s))
  BY <1>3
<1> QED BY <1>4 DEF P

\* What Through is: it counts, it is a number and it grows.
LEMMA ThroughIs ==
    ASSUME Numbers, NEW s \in Seq(Records)
    PROVE  /\ Counts(Through(s), s, Len(s))
           /\ \A n \in 0 .. Len(s) : Through(s)[n] \in Nat /\ Through(s)[n] >= n
           /\ \A n \in 1 .. Len(s) : Through(s)[n] <= Taken(s)
<1> DEFINE f == Through(s)
<1>1. f = [n \in 0 .. Len(s) |-> IF n = 0 THEN 0 ELSE f[n - 1] + RecordSize(s[n])]
  BY CountExists DEF Through
<1> HIDE DEF f
<1>2. f[0] = 0 /\ \A n \in 1 .. Len(s) : f[n] = f[n - 1] + RecordSize(s[n])
  BY <1>1
<1>3. \A n \in 1 .. Len(s) : RecordSize(s[n]) \in Nat /\ RecordSize(s[n]) > 1
  BY RecordIs
<1> DEFINE Bad == {n \in 0 .. Len(s) : ~(f[n] \in Nat /\ f[n] >= n)}
<1>4. Bad = {}
  <2> SUFFICES ASSUME Bad # {} PROVE FALSE
    OBVIOUS
  <2>1. PICK k \in Bad : \A j \in Bad : k <= j
    <3>1. Bad \subseteq Nat
      OBVIOUS
    <3> HIDE DEF Bad
    <3> QED BY <3>1, Least
  <2>2. k # 0
    BY <1>2
  <2>3. k - 1 \notin Bad /\ k - 1 \in 0 .. Len(s) /\ k \in 1 .. Len(s)
    BY <2>1, <2>2
  <2> QED BY <2>1, <2>3, <1>2, <1>3
<1>5. \A n \in 0 .. Len(s) : f[n] \in Nat /\ f[n] >= n
  BY <1>4
<1> DEFINE Over == {n \in Nat : n <= Len(s) /\ f[Len(s) - n] > f[Len(s)]}
<1>6. Over = {}
  <2> SUFFICES ASSUME Over # {} PROVE FALSE
    OBVIOUS
  <2>1. PICK k \in Over : \A j \in Over : k <= j
    <3>1. Over \subseteq Nat
      OBVIOUS
    <3> HIDE DEF Over
    <3> QED BY <3>1, Least
  <2>2. k # 0
    BY <1>5
  <2> DEFINE n == Len(s) - k + 1
  <2>3. k - 1 \notin Over /\ k - 1 \in Nat /\ n \in 1 .. Len(s) /\ n - 1 \in 0 .. Len(s)
        /\ Len(s) - (k - 1) = n /\ Len(s) - k = n - 1
    BY <2>1, <2>2
  <2>4. ~(f[n] > f[Len(s)]) /\ f[n - 1] > f[Len(s)]
    BY <2>1, <2>3
  <2> HIDE DEF n
  <2>5. f[n] = f[n - 1] + RecordSize(s[n]) /\ RecordSize(s[n]) \in Nat
    BY <2>3, <1>2, <1>3
  <2>6. f[n] \in Nat /\ f[n - 1] \in Nat /\ f[Len(s)] \in Nat
    BY <2>3, <1>5
  <2> QED BY <2>4, <2>5, <2>6
<1>7. \A n \in 1 .. Len(s) : f[n] <= f[Len(s)]
  <2> SUFFICES ASSUME NEW n \in 1 .. Len(s) PROVE f[n] <= f[Len(s)]
    OBVIOUS
  <2>1. Len(s) - n \in Nat /\ Len(s) - n <= Len(s) /\ Len(s) - (Len(s) - n) = n
    OBVIOUS
  <2>2. ~(f[n] > f[Len(s)])
    BY <1>6, <2>1
  <2>3. f[n] \in Nat /\ f[Len(s)] \in Nat
    BY <1>5
  <2> QED BY <2>2, <2>3
<1> QED BY <1>2, <1>5, <1>7 DEF f, Counts, Taken

\* Only one function counts.
LEMMA CountUnique ==
    ASSUME Numbers, NEW s \in Seq(Records), NEW f, NEW k \in 0 .. Len(s), Counts(f, s, k)
    PROVE  \A n \in 0 .. k : f[n] = Through(s)[n]
<1> DEFINE Bad == {n \in 0 .. k : f[n] # Through(s)[n]}
<1> SUFFICES ASSUME Bad # {} PROVE FALSE
  OBVIOUS
<1>1. PICK n \in Bad : \A j \in Bad : n <= j
  <2>1. Bad \subseteq Nat
    OBVIOUS
  <2> HIDE DEF Bad
  <2> QED BY <2>1, Least
<1>2. n # 0
  BY ThroughIs DEF Counts
<1>3. n - 1 \notin Bad /\ n - 1 \in 0 .. k /\ n \in 1 .. k /\ n \in 1 .. Len(s)
  BY <1>1, <1>2
<1>4. Through(s)[n] = Through(s)[n - 1] + RecordSize(s[n])
  BY <1>3, ThroughIs DEF Counts
<1> QED BY <1>1, <1>3, <1>4 DEF Counts

\* A record more.
LEMMA ThroughAppend ==
    ASSUME Numbers, NEW s \in Seq(Records), NEW c \in Records
    PROVE  /\ \A n \in 0 .. Len(s) : Through(Append(s, c))[n] = Through(s)[n]
           /\ Taken(Append(s, c)) = Taken(s) + RecordSize(c)
<1>1. Append(s, c) \in Seq(Records) /\ Len(Append(s, c)) = Len(s) + 1 /\ Append(s, c)[Len(s) + 1] = c
  OBVIOUS
<1>2. Counts(Through(Append(s, c)), s, Len(s))
  <2>1. \A n \in 1 .. Len(s) : Append(s, c)[n] = s[n] /\ n \in 1 .. Len(s) + 1
    OBVIOUS
  <2> QED BY <1>1, <2>1, ThroughIs DEF Counts
<1>3. \A n \in 0 .. Len(s) : Through(Append(s, c))[n] = Through(s)[n]
  BY <1>2, CountUnique
<1>4. Through(Append(s, c))[Len(s) + 1] = Through(Append(s, c))[Len(s)] + RecordSize(c)
  <2> DEFINE t == Append(s, c)
  <2>1. t \in Seq(Records) /\ Len(t) \in 1 .. Len(t) /\ Len(t) = Len(s) + 1 /\ Len(t) - 1 = Len(s) /\ t[Len(t)] = c
    BY <1>1
  <2> HIDE DEF t
  <2>2. Through(t)[Len(t)] = Through(t)[Len(t) - 1] + RecordSize(t[Len(t)])
    BY <2>1, ThroughIs DEF Counts
  <2> QED BY <2>1, <2>2 DEF t
<1> QED BY <1>1, <1>3, <1>4 DEF Taken

\* The first record less.
LEMMA ThroughTail ==
    ASSUME Numbers, NEW s \in Seq(Records), s # <<>>
    PROVE  /\ \A n \in 0 .. Len(s) - 1 : Through(Tail(s))[n] = Through(s)[n + 1] - RecordSize(Head(s))
           /\ Taken(Tail(s)) = Taken(s) - RecordSize(Head(s))
           /\ Taken(s) >= RecordSize(Head(s))
<1> DEFINE f == [n \in 0 .. Len(s) - 1 |-> Through(s)[n + 1] - RecordSize(Head(s))]
<1>1. /\ Tail(s) \in Seq(Records) /\ Len(Tail(s)) = Len(s) - 1 /\ Len(s) \in Nat /\ Len(s) > 0
      /\ \A n \in 1 .. Len(s) - 1 : Tail(s)[n] = s[n + 1]
      /\ Head(s) = s[1] /\ s[1] \in Records
  OBVIOUS
<1>0. Through(s)[1] = RecordSize(s[1])
  <2>1. Through(s)[0] = 0 /\ 1 \in 1 .. Len(s) /\ 1 - 1 = 0
    BY <1>1, ThroughIs DEF Counts
  <2>2. Through(s)[1] = Through(s)[1 - 1] + RecordSize(s[1])
    BY <2>1, ThroughIs DEF Counts
  <2> QED BY <2>1, <2>2, <1>1, RecordIs
<1>2. Counts(f, Tail(s), Len(s) - 1)
  <2>1. f[0] = 0
    <3> QED BY <1>0, <1>1, RecordIs
  <2>2. ASSUME NEW n \in 1 .. Len(s) - 1 PROVE f[n] = f[n - 1] + RecordSize(Tail(s)[n])
    <3>1. n + 1 \in 1 .. Len(s) /\ n \in 0 .. Len(s) /\ s[n + 1] \in Records
      BY <1>1
    <3>2. Through(s)[n + 1] = Through(s)[n] + RecordSize(s[n + 1])
      BY <3>1, ThroughIs DEF Counts
    <3>3. Through(s)[n] \in Nat /\ RecordSize(s[n + 1]) \in Nat /\ RecordSize(Head(s)) \in Nat
      BY <3>1, <1>1, ThroughIs, RecordIs
    <3> QED BY <3>2, <3>3, <1>1
  <2> QED BY <2>1, <2>2 DEF Counts
<1>3. \A n \in 0 .. Len(s) - 1 : f[n] = Through(Tail(s))[n]
  <2> HIDE DEF f
  <2>1. Len(s) - 1 \in 0 .. Len(Tail(s))
    BY <1>1
  <2> QED BY <1>1, <1>2, <2>1, CountUnique
<1>4. Taken(s) >= RecordSize(Head(s))
  <2>1. Through(s)[1] <= Taken(s)
    BY <1>1, ThroughIs
  <2> QED BY <2>1, <1>0, <1>1, RecordIs
<1> QED BY <1>1, <1>3, <1>4 DEF Taken

-----------------------------------------------------------------------------
(* The ring as a value.                                                    *)

\* What a ring is: indices are within it.
Rings == [m_buffer : UNION {[0 .. n + 1 -> Cells] : n \in BufSizes}, m_bufferSize : {n + 2 : n \in BufSizes},
          m_beginIndex : Nat, m_endIndex : Nat, m_size : Nat, m_leftSpace : Nat]
IsRing(r) ==
    /\ r \in Rings
    /\ r.m_buffer \in [0 .. r.m_bufferSize - 1 -> Cells]
    /\ r.m_beginIndex < r.m_bufferSize /\ r.m_endIndex < r.m_bufferSize

LEMMA RingIs ==
    ASSUME Numbers, NEW r, IsRing(r)
    PROVE  /\ r.m_bufferSize \in Int /\ r.m_bufferSize > 1 /\ Capacity(r) = r.m_bufferSize - 2 /\ Capacity(r) \in Nat
           /\ r.m_bufferSize + lenSize * MaxShort < Word /\ lenSize * MaxShort \in Nat /\ Word \in Int
           /\ r.m_bufferSize < Word
           /\ r.m_beginIndex \in 0 .. r.m_bufferSize - 1 /\ r.m_endIndex \in 0 .. r.m_bufferSize - 1
           /\ r.m_size \in Nat /\ r.m_leftSpace \in Nat
<1>1. lenSize \in Nat /\ MaxShort \in Nat /\ Word \in Nat
  BY DEF Numbers
<1>2. lenSize * MaxShort \in Nat
  BY <1>1
<1>3. PICK n \in BufSizes : r.m_bufferSize = n + 2
  BY DEF IsRing, Rings
<1>4. n \in Nat /\ n + 2 + lenSize * MaxShort < Word
  BY DEF Numbers
<1>5. r.m_beginIndex \in Nat /\ r.m_endIndex \in Nat /\ r.m_size \in Nat /\ r.m_leftSpace \in Nat
  BY DEF IsRing, Rings
<1>6. r.m_beginIndex < r.m_bufferSize /\ r.m_endIndex < r.m_bufferSize
  BY DEF IsRing
<1> DEFINE P == lenSize * MaxShort
<1> HIDE DEF P
<1>7. P \in Nat /\ n + 2 + P < Word
  BY <1>2, <1>4 DEF P
<1> QED BY <1>1, <1>3, <1>4, <1>5, <1>6, <1>7 DEF Capacity, P

\* The k-th place behind the begin.
Place(r, k) == At(r, r.m_beginIndex + k)

\* Places are places of the ring, and as many as the ring has are different.
LEMMA PlaceIs ==
    ASSUME Numbers, NEW r, IsRing(r), NEW k \in 0 .. r.m_bufferSize
    PROVE  /\ Place(r, k) \in 0 .. r.m_bufferSize - 1
           /\ Place(r, k) = IF r.m_beginIndex + k < r.m_bufferSize THEN r.m_beginIndex + k
                            ELSE r.m_beginIndex + k - r.m_bufferSize
<1> DEFINE m == r.m_bufferSize
           x == r.m_beginIndex + k
<1>1. m \in Int /\ m > 1 /\ r.m_beginIndex \in 0 .. m - 1 /\ k \in 0 .. m
  BY RingIs
<1>2. m > 0 /\ x \in Int /\ -m <= x /\ x < 2 * m /\ ~(x < 0)
  BY <1>1
<1>3. x % m = IF x < m THEN x ELSE x - m
  <2> HIDE DEF m, x
  <2> QED BY <1>1, <1>2, Modulo
<1> QED BY <1>1, <1>2, <1>3 DEF Place, At

LEMMA PlacesDiffer ==
    ASSUME Numbers, NEW r, IsRing(r), NEW j \in 1 .. r.m_bufferSize, NEW k \in 1 .. r.m_bufferSize,
           Place(r, j) = Place(r, k)
    PROVE  j = k
<1>1. j \in 0 .. r.m_bufferSize /\ k \in 0 .. r.m_bufferSize /\ r.m_bufferSize \in Int
      /\ r.m_beginIndex \in 0 .. r.m_bufferSize - 1
  BY RingIs
<1> QED BY <1>1, PlaceIs

\* Counting on from a place.
LEMMA PlaceOn ==
    ASSUME Numbers, NEW r, IsRing(r), NEW k \in 0 .. r.m_bufferSize, NEW i \in Nat, k + i <= r.m_bufferSize
    PROVE  At(r, Place(r, k) + i) = Place(r, k + i)
<1> DEFINE m == r.m_bufferSize
           b == r.m_beginIndex
           p == Place(r, k)
           x == p + i
<1>1. m \in Int /\ m > 1 /\ b \in 0 .. m - 1 /\ k \in 0 .. m /\ k + i \in 0 .. m /\ i \in 0 .. m
  BY RingIs
<1>2. p \in 0 .. m - 1 /\ p = IF b + k < m THEN b + k ELSE b + k - m
  BY PlaceIs
<1>3. Place(r, k + i) = IF b + (k + i) < m THEN b + (k + i) ELSE b + (k + i) - m
  BY <1>1, PlaceIs
<1> HIDE DEF p
<1>4. m > 0 /\ x \in Int /\ -m <= x /\ x < 2 * m /\ ~(x < 0)
  BY <1>1, <1>2
<1>5. x % m = IF x < m THEN x ELSE x - m
  <2> HIDE DEF m, x
  <2> QED BY <1>1, <1>4, Modulo
<1>6. At(r, Place(r, k) + i) = x % m
  BY DEF At, p
<1> HIDE DEF m, b
<1> QED BY <1>1, <1>2, <1>3, <1>5, <1>6

\* What the two memcpy of push_back put where.
IsPut(q, r, from, cells) ==
    /\ q = [r EXCEPT !.m_buffer = q.m_buffer]
    /\ IsRing(q)
    /\ \A j \in 0 .. Len(cells) - 1 : q.m_buffer[At(r, from + j)] = cells[j + 1]
    /\ \A i \in 0 .. r.m_bufferSize - 1 :
           (\A j \in 0 .. Len(cells) - 1 : At(r, from + j) # i) => q.m_buffer[i] = r.m_buffer[i]

LEMMA PutIs ==
    ASSUME Numbers, NEW r, IsRing(r), NEW from \in 0 .. r.m_bufferSize - 1,
           NEW cells \in Seq(Cells), Len(cells) < r.m_bufferSize
    PROVE  IsPut(Put(r, from, cells), r, from, cells)
<1> DEFINE m == r.m_bufferSize
           q == Put(r, from, cells)
<1>0. m \in Int /\ m > 1 /\ from \in 0 .. m - 1 /\ Len(cells) \in Nat /\ Len(cells) < m
  BY RingIs
<1>1. r \in Rings /\ r.m_buffer \in [0 .. m - 1 -> Cells] /\ DOMAIN r.m_buffer = 0 .. m - 1
  BY DEF IsRing
<1>2. \A i \in 0 .. m - 1 : At(r, i - from) = IF i < from THEN i - from + m ELSE i - from
  <2> SUFFICES ASSUME NEW i \in 0 .. m - 1 PROVE (i - from) % m = IF i < from THEN i - from + m ELSE i - from
    BY DEF At
  <2> DEFINE x == i - from
  <2>1. m > 0 /\ x \in Int /\ -m <= x /\ x < m /\ x < 2 * m /\ (x < 0 <=> i < from)
    BY <1>0
  <2> HIDE DEF m
  <2>2. x % m = IF x < 0 THEN x + m ELSE IF x < m THEN x ELSE x - m
    <3> HIDE DEF x
    <3> QED BY <1>0, <2>1, Modulo
  <2> QED BY <2>1, <2>2
<1>3. \A j \in 0 .. Len(cells) - 1 : At(r, from + j) = IF from + j < m THEN from + j ELSE from + j - m
  <2> SUFFICES ASSUME NEW j \in 0 .. Len(cells) - 1
               PROVE  (from + j) % m = IF from + j < m THEN from + j ELSE from + j - m
    BY DEF At
  <2>1. j \in 0 .. m - 1 /\ m > 0
    BY <1>0
  <2> QED BY <1>0, <2>1, ModuloSum
<1>4. q.m_buffer = [i \in 0 .. m - 1 |-> IF At(r, i - from) < Len(cells) THEN cells[At(r, i - from) + 1] ELSE r.m_buffer[i]]
  BY <1>1 DEF Put, Rings
<1>5. q = [r EXCEPT !.m_buffer = q.m_buffer]
  BY <1>1 DEF Put, Rings
<1>6. q.m_buffer \in [0 .. m - 1 -> Cells]
  <2> SUFFICES ASSUME NEW i \in 0 .. m - 1
               PROVE  (IF At(r, i - from) < Len(cells) THEN cells[At(r, i - from) + 1] ELSE r.m_buffer[i]) \in Cells
    BY <1>4
  <2>1. At(r, i - from) \in 0 .. m - 1
    BY <1>0, <1>2
  <2>2. CASE At(r, i - from) < Len(cells)
    <3>1. At(r, i - from) + 1 \in 1 .. Len(cells)
      BY <2>1, <2>2, <1>0
    <3> QED BY <3>1, <2>2
  <2>3. CASE ~(At(r, i - from) < Len(cells))
    BY <2>3, <1>1
  <2> QED BY <2>2, <2>3
<1>7. IsRing(q)
  <2>1. PICK n \in BufSizes : m = n + 2
    BY <1>1 DEF Rings
  <2>2. n \in Nat /\ 0 .. m - 1 = 0 .. n + 1
    BY <2>1 DEF Numbers
  <2>3. q.m_buffer \in UNION {[0 .. k + 1 -> Cells] : k \in BufSizes}
    BY <2>2, <1>6
  <2> HIDE DEF q
  <2>4. q \in Rings /\ q.m_bufferSize = m /\ q.m_beginIndex = r.m_beginIndex /\ q.m_endIndex = r.m_endIndex
    BY <1>1, <1>5, <2>3 DEF Rings
  <2> QED BY <2>4, <1>6 DEF IsRing
<1>8. ASSUME NEW j \in 0 .. Len(cells) - 1 PROVE q.m_buffer[At(r, from + j)] = cells[j + 1]
  <2> DEFINE i == At(r, from + j)
  <2>1. i \in 0 .. m - 1 /\ At(r, i - from) = j
    <3>1. i = IF from + j < m THEN from + j ELSE from + j - m
      BY <1>3
    <3> HIDE DEF i, m
    <3>2. i \in 0 .. m - 1
      BY <3>1, <1>0
    <3>3. At(r, i - from) = IF i < from THEN i - from + m ELSE i - from
      BY <3>2, <1>2
    <3>4. (IF i < from THEN i - from + m ELSE i - from) = j
      BY <3>1, <3>2, <1>0
    <3> QED BY <3>2, <3>3, <3>4
  <2>2. j < Len(cells)
    BY <1>0
  <2> HIDE DEF i
  <2> QED BY <2>1, <2>2, <1>4 DEF i
<1>9. ASSUME NEW i \in 0 .. m - 1, \A j \in 0 .. Len(cells) - 1 : At(r, from + j) # i
      PROVE  q.m_buffer[i] = r.m_buffer[i]
  <2> DEFINE n == At(r, i - from)
  <2>1. n \in 0 .. m - 1 /\ n = IF i < from THEN i - from + m ELSE i - from
    BY <1>0, <1>2
  <2> HIDE DEF n
  <2>2. ~(n < Len(cells))
    <3> SUFFICES ASSUME n < Len(cells) PROVE FALSE
      OBVIOUS
    <3>1. n \in 0 .. Len(cells) - 1
      BY <2>1, <1>0
    <3>2. At(r, from + n) = IF from + n < m THEN from + n ELSE from + n - m
      BY <3>1, <1>3
    <3>3. (IF from + n < m THEN from + n ELSE from + n - m) = i
      BY <2>1, <1>0
    <3> QED BY <3>1, <3>2, <3>3, <1>9
  <2> QED BY <2>2, <1>4 DEF n
<1> QED BY <1>5, <1>7, <1>8, <1>9 DEF IsPut

-----------------------------------------------------------------------------
(* Records in the ring.                                                    *)

LEMMA CellsIs ==
    ASSUME Numbers, NEW c \in Records
    PROVE  /\ LengthCells(c[2]) \in Seq(Cells) /\ Len(LengthCells(c[2])) = lenSize
           /\ \A j \in 0 .. lenSize - 1 : LengthCells(c[2])[j + 1] = CellOf(c, j + 1)
           /\ DataCells(c) \in Seq(Cells) /\ Len(DataCells(c)) = c[2]
           /\ \A j \in 0 .. c[2] - 1 : DataCells(c)[j + 1] = CellOf(c, lenSize + j + 1)
           /\ LengthCells(c[2]) \o DataCells(c) = [i \in 1 .. RecordSize(c) |-> CellOf(c, i)]
<1>0. /\ c[1] \in Payloads /\ c[2] \in Lengths /\ c[2] \in Nat /\ c[2] > 0 /\ lenSize \in Nat /\ lenSize > 0
      /\ RecordSize(c) = lenSize + c[2]
  BY RecordIs
<1>1. LengthCells(c[2]) \in [1 .. lenSize -> Cells] /\ DataCells(c) \in [1 .. c[2] -> Cells]
  BY <1>0 DEF LengthCells, DataCells, Cell, Cells
<1>2. /\ LengthCells(c[2]) \in Seq(Cells) /\ Len(LengthCells(c[2])) = lenSize
      /\ DataCells(c) \in Seq(Cells) /\ Len(DataCells(c)) = c[2]
  BY <1>0, <1>1
<1>3. \A i \in 1 .. lenSize : LengthCells(c[2])[i] = CellOf(c, i)
  BY <1>0 DEF LengthCells, CellOf
<1>4. \A i \in 1 .. c[2] : DataCells(c)[i] = CellOf(c, lenSize + i)
  <2> TAKE i \in 1 .. c[2]
  <2>1. ~(lenSize + i <= lenSize) /\ lenSize + i - lenSize = i
    BY <1>0
  <2>2. CellOf(c, lenSize + i) = Cell("data", c[1], i)
    <3> DEFINE k == lenSize + i
    <3> HIDE DEF k
    <3>1. ~(k <= lenSize) /\ k - lenSize = i
      BY <1>0 DEF k
    <3>2. CellOf(c, k) = Cell("data", c[1], k - lenSize)
      BY <3>1 DEF CellOf
    <3> QED BY <3>1, <3>2 DEF k
  <2>3. DataCells(c)[i] = Cell("data", c[1], i)
    BY DEF DataCells
  <2> QED BY <2>2, <2>3
<1>5. \A j \in 0 .. lenSize - 1 : LengthCells(c[2])[j + 1] = CellOf(c, j + 1)
  BY <1>0, <1>3
<1>6. \A j \in 0 .. c[2] - 1 : DataCells(c)[j + 1] = CellOf(c, lenSize + j + 1)
  <2> TAKE j \in 0 .. c[2] - 1
  <2>1. j + 1 \in 1 .. c[2] /\ lenSize + (j + 1) = lenSize + j + 1
    BY <1>0
  <2> QED BY <2>1, <1>4
<1>7. LengthCells(c[2]) \o DataCells(c) = [i \in 1 .. RecordSize(c) |-> CellOf(c, i)]
  <2> DEFINE a == LengthCells(c[2])
             b == DataCells(c)
             n == c[2]
  <2>1. a \in Seq(Cells) /\ b \in Seq(Cells) /\ Len(a) = lenSize /\ Len(b) = n /\ n \in Nat
    BY <1>0, <1>2
  <2>2. /\ \A i \in 1 .. lenSize : a[i] = CellOf(c, i)
        /\ \A i \in 1 .. n : b[i] = CellOf(c, lenSize + i)
    BY <1>3, <1>4
  <2> HIDE DEF a, b, n
  <2>3. /\ a \o b \in Seq(Cells) /\ Len(a \o b) = lenSize + n
        /\ \A i \in 1 .. lenSize + n : (a \o b)[i] = IF i <= lenSize THEN a[i] ELSE b[i - lenSize]
    <3>1. a \o b \in Seq(Cells) /\ Len(a \o b) = lenSize + n
      BY <2>1
    <3>2. \A i \in 1 .. lenSize + n : (a \o b)[i] = IF i <= lenSize THEN a[i] ELSE b[i - lenSize]
      BY <2>1
    <3> QED BY <3>1, <3>2
  <2>4. ASSUME NEW i \in 1 .. lenSize + n PROVE (a \o b)[i] = CellOf(c, i)
    <3>1. CASE i <= lenSize
      <4>1. i \in 1 .. lenSize
        BY <3>1, <1>0, <2>1
      <4> QED BY <4>1, <3>1, <2>2, <2>3
    <3>2. CASE ~(i <= lenSize)
      <4>1. i - lenSize \in 1 .. n /\ lenSize + (i - lenSize) = i
        BY <3>2, <1>0, <2>1
      <4>2. b[i - lenSize] = CellOf(c, lenSize + (i - lenSize))
        BY <4>1, <2>2
      <4> QED BY <4>1, <4>2, <3>2, <2>3
    <3> QED BY <3>1, <3>2
  <2>5. a \o b = [i \in 1 .. lenSize + n |-> (a \o b)[i]]
    <3> DEFINE d == a \o b
    <3> HIDE DEF d
    <3>1. d \in Seq(Cells) /\ Len(d) = lenSize + n
      BY <2>3 DEF d
    <3>2. d = [i \in 1 .. Len(d) |-> d[i]]
      BY <3>1
    <3> QED BY <3>1, <3>2 DEF d
  <2>6. a \o b = [i \in 1 .. lenSize + n |-> CellOf(c, i)]
    BY <2>4, <2>5
  <2> QED BY <2>6, <1>0 DEF a, b, n
<1> QED BY <1>2, <1>5, <1>6, <1>7

\* The records s lie one behind the other from the begin of r on.
Laid(r, s) ==
    \A n \in 1 .. Len(s) : \A i \in 1 .. RecordSize(s[n]) :
        r.m_buffer[Place(r, Through(s)[n - 1] + i)] = CellOf(s[n], i)

\* The bytes of records are among the places behind the begin.
LEMMA Within ==
    ASSUME Numbers, NEW s \in Seq(Records), NEW n \in 1 .. Len(s), NEW i \in 1 .. RecordSize(s[n])
    PROVE  Through(s)[n - 1] + i \in 1 .. Taken(s) /\ Through(s)[n - 1] \in Nat /\ Taken(s) \in Nat
<1>1. n - 1 \in 0 .. Len(s) /\ Len(s) \in 0 .. Len(s) /\ s[n] \in Records
  OBVIOUS
<1>2. Through(s)[n - 1] \in Nat /\ Through(s)[Len(s)] \in Nat
  BY <1>1, ThroughIs
<1>3. Through(s)[n] = Through(s)[n - 1] + RecordSize(s[n]) /\ Through(s)[n] <= Taken(s)
  BY ThroughIs DEF Counts
<1>4. RecordSize(s[n]) \in Nat
  BY <1>1, RecordIs
<1> QED BY <1>2, <1>3, <1>4 DEF Taken

\* What push_back makes of the cells of the ring.
Written(r, c) == Put(Put(r, r.m_endIndex, LengthCells(c[2])), At(r, r.m_endIndex + lenSize), DataCells(c))

LEMMA WrittenIs ==
    ASSUME Numbers, NEW r, IsRing(r), NEW c \in Records, RecordSize(c) < r.m_bufferSize
    PROVE  LET q == Written(r, c)
           IN  /\ q = [r EXCEPT !.m_buffer = q.m_buffer]
               /\ IsRing(q)
               /\ \A i \in 1 .. RecordSize(c) : q.m_buffer[At(r, r.m_endIndex + (i - 1))] = CellOf(c, i)
               /\ \A x \in 0 .. r.m_bufferSize - 1 :
                      (\A i \in 1 .. RecordSize(c) : At(r, r.m_endIndex + (i - 1)) # x) => q.m_buffer[x] = r.m_buffer[x]
<1> DEFINE m == r.m_bufferSize
           e == r.m_endIndex
           f == At(r, e + lenSize)
           p == Put(r, e, LengthCells(c[2]))
           q == Put(p, f, DataCells(c))
           k == c[2]
<1>1. /\ m \in Int /\ m > 1 /\ e \in 0 .. m - 1 /\ lenSize \in Nat /\ lenSize > 0 /\ k \in Nat /\ k > 0
      /\ RecordSize(c) = lenSize + k /\ lenSize + k < m
  BY RingIs, RecordIs
<1>2. f \in 0 .. m - 1 /\ f = IF e + lenSize < m THEN e + lenSize ELSE e + lenSize - m
  <2>1. lenSize \in 0 .. m - 1
    BY <1>1
  <2>2. (e + lenSize) % m = IF e + lenSize < m THEN e + lenSize ELSE e + lenSize - m
    BY <1>1, <2>1, ModuloSum
  <2>3. f = (e + lenSize) % m
    BY DEF At
  <2> HIDE DEF f, m, e
  <2> QED BY <1>1, <2>2, <2>3
<1>3. /\ p = [r EXCEPT !.m_buffer = p.m_buffer]
      /\ IsRing(p)
      /\ \A j \in 0 .. lenSize - 1 : p.m_buffer[At(r, e + j)] = LengthCells(c[2])[j + 1]
      /\ \A i \in 0 .. m - 1 : (\A j \in 0 .. lenSize - 1 : At(r, e + j) # i) => p.m_buffer[i] = r.m_buffer[i]
  <2>1. Len(LengthCells(c[2])) < m
    BY <1>1, CellsIs
  <2>2. LengthCells(c[2]) \in Seq(Cells) /\ Len(LengthCells(c[2])) = lenSize
    BY CellsIs
  <2>3. IsPut(p, r, e, LengthCells(c[2]))
    BY <1>1, <2>1, <2>2, PutIs
  <2> HIDE DEF p, e, m
  <2> QED BY <2>2, <2>3 DEF IsPut, m
<1>4. p.m_bufferSize = m
  <2>1. r \in Rings
    BY DEF IsRing
  <2> HIDE DEF p
  <2> QED BY <1>3, <2>1 DEF Rings
<1>5. /\ q = [p EXCEPT !.m_buffer = q.m_buffer]
      /\ IsRing(q)
      /\ \A j \in 0 .. k - 1 : q.m_buffer[At(p, f + j)] = DataCells(c)[j + 1]
      /\ \A i \in 0 .. m - 1 : (\A j \in 0 .. k - 1 : At(p, f + j) # i) => q.m_buffer[i] = p.m_buffer[i]
  <2>1. Len(DataCells(c)) < p.m_bufferSize
    BY <1>1, <1>4, CellsIs
  <2>2. DataCells(c) \in Seq(Cells) /\ Len(DataCells(c)) = k
    BY CellsIs
  <2>3. IsPut(q, p, f, DataCells(c))
    <3> HIDE DEF p, f, m
    <3> QED BY <1>2, <1>3, <1>4, <2>1, <2>2, PutIs
  <2> HIDE DEF q, p, f, m, k
  <2> QED BY <1>4, <2>2, <2>3 DEF IsPut
<1>6. \A x : At(p, x) = At(r, x)
  BY <1>4 DEF At
<1>7. \A i \in 0 .. m - 1 : At(r, e + i) = IF e + i < m THEN e + i ELSE e + i - m
  <2> HIDE DEF e
  <2> QED BY <1>1, ModuloSum DEF At
<1>8. \A j \in 0 .. k - 1 : At(r, f + j) = At(r, e + (lenSize + j))
  <2> TAKE j \in 0 .. k - 1
  <2>1. lenSize + j \in 0 .. m - 1 /\ j \in 0 .. m - 1
    BY <1>1
  <2>2. At(r, e + (lenSize + j)) = IF e + (lenSize + j) < m THEN e + (lenSize + j) ELSE e + (lenSize + j) - m
    BY <2>1, <1>7
  <2>3. At(r, f + j) = IF f + j < m THEN f + j ELSE f + j - m
    <3>1. At(r, f + j) = (f + j) % m
      BY DEF At
    <3> HIDE DEF f
    <3>2. (f + j) % m = IF f + j < m THEN f + j ELSE f + j - m
      <4>1. m > 0 /\ m \in Int /\ f \in 0 .. m - 1 /\ j \in 0 .. m - 1
        BY <1>1, <1>2, <2>1
      <4> HIDE DEF m
      <4> QED BY <4>1, ModuloSum
    <3> QED BY <3>1, <3>2
  <2> HIDE DEF f, m, e, k
  <2> QED BY <1>1, <1>2, <2>1, <2>2, <2>3
<1>9. ASSUME NEW i \in 1 .. RecordSize(c) PROVE q.m_buffer[At(r, e + (i - 1))] = CellOf(c, i)
  <2> DEFINE x == At(r, e + (i - 1))
  <2>1. i - 1 \in 0 .. m - 1 /\ x \in 0 .. m - 1
    <3>1. i - 1 \in 0 .. m - 1
      BY <1>1
    <3>2. x = IF e + (i - 1) < m THEN e + (i - 1) ELSE e + (i - 1) - m
      BY <3>1, <1>7
    <3> HIDE DEF x, e, m
    <3> QED BY <3>1, <3>2, <1>1
  <2>2. CASE i <= lenSize
    <3>1. i - 1 \in 0 .. lenSize - 1 /\ i - 1 + 1 = i
      BY <2>2, <1>1
    <3>2. p.m_buffer[x] = CellOf(c, i)
      <4>1. p.m_buffer[At(r, e + (i - 1))] = LengthCells(c[2])[i - 1 + 1] /\ LengthCells(c[2])[i - 1 + 1] = CellOf(c, i - 1 + 1)
        <5> HIDE DEF p, e
        <5> QED BY <3>1, <1>3, CellsIs
      <4> HIDE DEF p, e
      <4> QED BY <3>1, <4>1
    <3>3. \A j \in 0 .. k - 1 : At(p, f + j) # x
      <4> TAKE j \in 0 .. k - 1
      <4>1. lenSize + j \in 0 .. m - 1
        BY <1>1
      <4>2. At(p, f + j) = IF e + (lenSize + j) < m THEN e + (lenSize + j) ELSE e + (lenSize + j) - m
        <5> HIDE DEF f, p, m, e
        <5> QED BY <4>1, <1>6, <1>7, <1>8
      <4>3. x = IF e + (i - 1) < m THEN e + (i - 1) ELSE e + (i - 1) - m
        BY <2>1, <1>7
      <4> DEFINE y == At(p, f + j)
      <4> HIDE DEF x, e, m, y, k
      <4>4. y = IF e + (lenSize + j) < m THEN e + (lenSize + j) ELSE e + (lenSize + j) - m
        BY <4>2 DEF y
      <4>5. y # x
        BY <4>1, <4>4, <4>3, <3>1, <2>1, <1>1
      <4> QED BY <4>5 DEF y
    <3> HIDE DEF x, p, q
    <3> QED BY <3>2, <3>3, <2>1, <1>5 DEF x
  <2>3. CASE ~(i <= lenSize)
    <3> DEFINE j == i - 1 - lenSize
    <3>1. j \in 0 .. k - 1 /\ lenSize + j = i - 1 /\ lenSize + j + 1 = i
      BY <2>3, <1>1
    <3> HIDE DEF j
    <3>2. At(p, f + j) = At(r, e + (i - 1))
      BY <3>1, <1>6, <1>8
    <3>3. q.m_buffer[At(p, f + j)] = DataCells(c)[j + 1] /\ DataCells(c)[j + 1] = CellOf(c, lenSize + j + 1)
      <4> HIDE DEF q, p, f
      <4> QED BY <3>1, <1>5, CellsIs
    <3> HIDE DEF q, p, f, e
    <3> QED BY <3>1, <3>2, <3>3
  <2> QED BY <2>2, <2>3
<1>10. ASSUME NEW x \in 0 .. m - 1, \A i \in 1 .. RecordSize(c) : At(r, e + (i - 1)) # x
       PROVE  q.m_buffer[x] = r.m_buffer[x]
  <2>1. \A j \in 0 .. lenSize - 1 : At(r, e + j) # x
    <3> TAKE j \in 0 .. lenSize - 1
    <3>1. j + 1 \in 1 .. RecordSize(c) /\ j + 1 - 1 = j
      BY <1>1
    <3> HIDE DEF e
    <3> QED BY <3>1, <1>10
  <2>2. \A j \in 0 .. k - 1 : At(p, f + j) # x
    <3> TAKE j \in 0 .. k - 1
    <3> DEFINE i == lenSize + j + 1
    <3>1. i \in 1 .. RecordSize(c) /\ i - 1 = lenSize + j
      BY <1>1
    <3>2. At(p, f + j) = At(r, e + (lenSize + j))
      BY <1>6, <1>8
    <3> HIDE DEF e, p, f, i
    <3>3. At(r, e + (i - 1)) # x
      BY <3>1, <1>10
    <3> QED BY <3>1, <3>2, <3>3
  <2>3. q.m_buffer[x] = p.m_buffer[x]
    <3> HIDE DEF q, p, f
    <3> QED BY <2>2, <1>5
  <2>4. p.m_buffer[x] = r.m_buffer[x]
    <3> HIDE DEF p, e
    <3> QED BY <2>1, <1>3
  <2> QED BY <2>3, <2>4
<1>11. q = [r EXCEPT !.m_buffer = q.m_buffer]
  <2>1. r \in Rings
    BY DEF IsRing
  <2> HIDE DEF p, q
  <2> QED BY <1>3, <1>5, <2>1 DEF Rings
<1>12. q = Written(r, c)
  BY DEF Written
<1> HIDE DEF q
<1> QED BY <1>5, <1>9, <1>10, <1>11, <1>12

-----------------------------------------------------------------------------
(***************************************************************************)
(* The invariant: while records are whole, they lie one behind the other   *)
(* from the begin to the end, and m_leftSpace has a length too much for    *)
(* every buffer that was too small.                                        *)
(***************************************************************************)

Account ==
    /\ Taken(content) <= Capacity(ring) + 1
    /\ ring.m_endIndex = Place(ring, 1 + Taken(content))
    /\ ring.m_size = Len(content)
    /\ ring.m_leftSpace = Capacity(ring) - Taken(content) + lenSize * shorts

Inv ==
    /\ IsRing(ring) /\ ring.m_size < Word /\ ring.m_leftSpace < Word
    /\ content \in Seq(Records)
    /\ shorts \in 0 .. MaxShort
    /\ broken \in BOOLEAN
    /\ ~broken => Account /\ Laid(ring, content) /\ got.data = got.due
    /\ broken => shorts > 0

\* A ring in which there is nothing.
LEMMA NothingInIt ==
    ASSUME Numbers, NEW n \in BufSizes
    PROVE  /\ IsRing(Fresh(n)) /\ Fresh(n).m_size = 0 /\ Fresh(n).m_leftSpace = Capacity(Fresh(n))
           /\ Fresh(n).m_endIndex = Place(Fresh(n), 1) /\ Fresh(n).m_leftSpace < Word
           /\ Taken(<<>>) = 0
           /\ Capacity(Fresh(n)) \in Nat /\ Word > 0
<1> DEFINE r == Fresh(n)
<1>1. n \in Nat /\ n + 1 = (n + 2) - 1
  BY DEF Numbers
<1>2. NoCell \in Cells
  BY DEF NoCell, Cell, Cells
<1>3. r.m_buffer \in [0 .. n + 1 -> Cells]
  BY <1>2 DEF Fresh
<1>4. r.m_buffer \in [0 .. (n + 2) - 1 -> Cells]
  BY <1>1, <1>3
<1>5. r.m_buffer \in UNION {[0 .. k + 1 -> Cells] : k \in BufSizes}
  BY <1>3
<1>6. /\ r = [m_buffer |-> r.m_buffer, m_bufferSize |-> n + 2, m_beginIndex |-> 0, m_endIndex |-> 1,
              m_size |-> 0, m_leftSpace |-> n]
  BY DEF Fresh
<1> HIDE DEF r
<1>7. IsRing(r)
  <2>1. n + 2 \in {k + 2 : k \in BufSizes}
    OBVIOUS
  <2> QED BY <1>1, <1>4, <1>5, <1>6, <2>1 DEF IsRing, Rings
<1>8. r.m_size = 0 /\ r.m_leftSpace = Capacity(r) /\ Capacity(r) \in Nat
  BY <1>1, <1>6 DEF Capacity
<1>9. r.m_leftSpace < Word /\ Word > 0
  BY <1>1, <1>6, <1>7, <1>8, RingIs
<1>10. r.m_endIndex = Place(r, 1)
  BY <1>1, <1>6, <1>7, PlaceIs
<1>11. Taken(<<>>) = 0
  <2>1. <<>> \in Seq(Records) /\ Len(<<>>) = 0
    OBVIOUS
  <2> QED BY <2>1, ThroughIs DEF Counts, Taken
<1> QED BY <1>7, <1>8, <1>9, <1>10, <1>11 DEF r

\* What is left of the account when the records are whole.
LEMMA AccountIs ==
    ASSUME Numbers, Inv, ~broken
    PROVE  /\ Taken(content) \in Nat /\ Len(content) \in Nat /\ Len(content) <= Taken(content)
           /\ Taken(content) < ring.m_bufferSize
           /\ shorts \in Nat /\ lenSize * shorts \in Nat /\ lenSize * shorts <= lenSize * MaxShort
           /\ lenSize * (shorts + 1) = lenSize * shorts + lenSize
           /\ shorts < MaxShort => lenSize * shorts + lenSize <= lenSize * MaxShort
           /\ shorts = 0 => lenSize * shorts = 0
           /\ shorts > 0 \/ lenSize * shorts = 0
           /\ ring.m_leftSpace = Capacity(ring) - Taken(content) + lenSize * shorts
<1>1. content \in Seq(Records) /\ shorts \in 0 .. MaxShort /\ MaxShort \in Nat /\ lenSize \in Nat
  BY DEF Inv, Numbers
<1>2. Taken(content) \in Nat /\ Len(content) \in Nat /\ Len(content) <= Taken(content)
  BY <1>1, ThroughIs DEF Taken
<1>3. Taken(content) <= ring.m_bufferSize - 2 + 1 /\ ring.m_bufferSize \in Int
  BY RingIs DEF Inv, Account
<1>4. /\ lenSize * shorts \in Nat
      /\ lenSize * (shorts + 1) = lenSize * shorts + lenSize
      /\ shorts = 0 => lenSize * shorts = 0
  BY <1>1
<1>5. \A k \in 0 .. MaxShort : lenSize * k <= lenSize * MaxShort
  <2> TAKE k \in 0 .. MaxShort
  <2>1. MaxShort - k \in Nat /\ MaxShort = k + (MaxShort - k)
    BY <1>1
  <2>2. lenSize * MaxShort = lenSize * k + lenSize * (MaxShort - k)
    BY <1>1, <2>1
  <2>3. lenSize * (MaxShort - k) >= 0 /\ lenSize * k \in Int /\ lenSize * (MaxShort - k) \in Int
    BY <1>1, <2>1
  <2> QED BY <2>2, <2>3
<1>6. lenSize * shorts <= lenSize * MaxShort
  BY <1>1, <1>5
<1>7. shorts < MaxShort => lenSize * (shorts + 1) <= lenSize * MaxShort
  <2>1. shorts < MaxShort => shorts + 1 \in 0 .. MaxShort
    BY <1>1
  <2> QED BY <2>1, <1>5
<1>8. ring.m_leftSpace = Capacity(ring) - Taken(content) + lenSize * shorts
  BY DEF Inv, Account
<1> QED BY <1>1, <1>2, <1>3, <1>4, <1>6, <1>7, <1>8

\* What GiveBack makes of a ring.
LEMMA GiveBackIs ==
    ASSUME Numbers, NEW r, IsRing(r), NEW n \in Nat, r.m_leftSpace + n < Word
    PROVE  /\ IsRing(GiveBack(r, n)) /\ IsRing(Emptied(r))
           /\ \/ GiveBack(r, n) = Emptied(r)
              \/ GiveBack(r, n) = [r EXCEPT !.m_leftSpace = r.m_leftSpace + n]
           /\ r.m_leftSpace + n <= Capacity(r) => GiveBack(r, n) = [r EXCEPT !.m_leftSpace = r.m_leftSpace + n]
           /\ Emptied(r).m_size = 0 /\ Emptied(r).m_leftSpace < Word
           /\ Emptied(r).m_bufferSize = r.m_bufferSize
<1> DEFINE a == [r EXCEPT !.m_leftSpace = r.m_leftSpace + n]
           d == Emptied(r)
<1>1. /\ r.m_bufferSize \in Int /\ r.m_bufferSize > 1 /\ Capacity(r) = r.m_bufferSize - 2 /\ Capacity(r) \in Nat
      /\ r.m_bufferSize < Word /\ Word \in Int /\ r.m_leftSpace \in Nat
  BY RingIs
<1>2. r \in Rings /\ r.m_buffer \in [0 .. r.m_bufferSize - 1 -> Cells]
      /\ r.m_beginIndex < r.m_bufferSize /\ r.m_endIndex < r.m_bufferSize
  BY DEF IsRing
<1>3. IsRing(a)
  <2>1. r.m_leftSpace + n \in Nat
    BY <1>1
  <2> QED BY <1>2, <2>1 DEF IsRing, Rings
<1>4. IsRing(d) /\ d.m_size = 0 /\ d.m_leftSpace = r.m_bufferSize - 2 /\ d.m_bufferSize = r.m_bufferSize
  <2>1. r.m_bufferSize - 2 \in Nat /\ 0 < r.m_bufferSize /\ 1 < r.m_bufferSize
    BY <1>1
  <2> QED BY <1>2, <2>1 DEF IsRing, Rings, Emptied
<1>5. Unsigned(r.m_leftSpace + n) = r.m_leftSpace + n
  <2> DEFINE x == r.m_leftSpace + n
  <2>1. x \in Nat /\ x < Word /\ Word > 0
    BY <1>1
  <2> HIDE DEF x
  <2>2. x % Word = x
    BY <1>1, <2>1, ModuloOnce
  <2> QED BY <2>2 DEF x, Unsigned
<1>6. GiveBack(r, n) = IF Unsigned(Capacity(r) - r.m_leftSpace) < n THEN d ELSE a
  BY <1>2, <1>5 DEF GiveBack, Rings
<1>7. ASSUME r.m_leftSpace + n <= Capacity(r) PROVE ~(Unsigned(Capacity(r) - r.m_leftSpace) < n)
  <2> DEFINE x == Capacity(r) - r.m_leftSpace
  <2>1. x \in Nat /\ x < Word /\ Word > 0 /\ n <= x
    BY <1>1, <1>7
  <2> HIDE DEF x
  <2>2. x % Word = x
    BY <1>1, <2>1, ModuloOnce
  <2>3. ~(x % Word < n)
    BY <2>1, <2>2
  <2> QED BY <2>3 DEF x, Unsigned
<1> HIDE DEF a, d
<1>8. IsRing(GiveBack(r, n)) /\ (GiveBack(r, n) = d \/ GiveBack(r, n) = a)
      /\ (r.m_leftSpace + n <= Capacity(r) => GiveBack(r, n) = a)
  BY <1>3, <1>4, <1>6, <1>7
<1>9. d.m_leftSpace < Word
  BY <1>1, <1>4
<1> QED BY <1>4, <1>8, <1>9 DEF a, d

-----------------------------------------------------------------------------
(* One lemma for each branch of each method.                               *)

LEMMA StartInv ==
    ASSUME Numbers, ring \in {Fresh(n) : n \in BufSizes}, content = <<>>, shorts = 0, broken = FALSE,
           got.data = got.due
    PROVE  Inv
<1>1. PICK n \in BufSizes : ring = Fresh(n)
  OBVIOUS
<1>2. /\ IsRing(ring) /\ ring.m_size = 0 /\ ring.m_leftSpace = Capacity(ring) /\ ring.m_endIndex = Place(ring, 1)
      /\ ring.m_leftSpace < Word /\ Taken(content) = 0 /\ Capacity(ring) \in Nat /\ Word > 0
  BY <1>1, NothingInIt
<1>3. lenSize * shorts = 0 /\ shorts \in 0 .. MaxShort
  BY DEF Numbers
<1>4. Len(content) = 0 /\ content \in Seq(Records)
  OBVIOUS
<1>5. Account
  BY <1>2, <1>3, <1>4 DEF Account
<1>6. Laid(ring, content)
  BY <1>4 DEF Laid
<1> QED BY <1>2, <1>3, <1>4, <1>5, <1>6 DEF Inv

LEMMA InitInv == Numbers /\ Init => Inv
<1> SUFFICES ASSUME Numbers, Init PROVE Inv
  OBVIOUS
<1>1. got.data = got.due
  BY DEF Init
<1> QED BY <1>1, StartInv DEF Init

LEMMA InitAgainInv ==
    ASSUME Numbers, Inv, ~broken, InitAgain
    PROVE  Inv'
<1>1. ring' \in {Fresh(n) : n \in BufSizes} /\ content' = <<>> /\ shorts' = 0 /\ broken' = broken /\ got' = got
  BY DEF InitAgain
<1>2. PICK n \in BufSizes : ring' = Fresh(n)
  BY <1>1
<1>3. /\ IsRing(ring') /\ ring'.m_size = 0 /\ ring'.m_leftSpace = Capacity(ring') /\ ring'.m_endIndex = Place(ring', 1)
      /\ ring'.m_leftSpace < Word /\ Taken(content') = 0 /\ Capacity(ring') \in Nat /\ Word > 0
  BY <1>1, <1>2, NothingInIt
<1>4. lenSize * shorts' = 0 /\ shorts' \in 0 .. MaxShort
  BY <1>1 DEF Numbers
<1>5. Len(content') = 0 /\ content' \in Seq(Records)
  BY <1>1
<1>6. Account'
  BY <1>3, <1>4, <1>5 DEF Account
<1>7. Laid(ring', content')
  BY <1>5 DEF Laid
<1>8. got'.data = got'.due /\ broken' \in BOOLEAN /\ ~broken'
  BY <1>1 DEF Inv
<1> QED BY <1>3, <1>4, <1>5, <1>6, <1>7, <1>8 DEF Inv

\* A record behind the others leaves them as they are.
LEMMA LaidAppend ==
    ASSUME Numbers, NEW r, IsRing(r), NEW s \in Seq(Records), NEW c \in Records, Laid(r, s),
           r.m_endIndex = Place(r, 1 + Taken(s)), Taken(s) + RecordSize(c) < r.m_bufferSize,
           NEW q, q.m_buffer = Written(r, c).m_buffer, q.m_bufferSize = r.m_bufferSize,
           q.m_beginIndex = r.m_beginIndex
    PROVE  Laid(q, Append(s, c))
<1> DEFINE T == Taken(s)
           t == Append(s, c)
           w == Written(r, c)
<1>1. /\ T \in Nat /\ Len(s) \in Nat /\ RecordSize(c) \in Nat /\ r.m_bufferSize \in Int
      /\ T + RecordSize(c) < r.m_bufferSize
  BY ThroughIs, RecordIs, RingIs DEF Taken
<1>2. \A i \in 1 .. RecordSize(c) : At(r, r.m_endIndex + (i - 1)) = Place(r, T + i)
  <2> TAKE i \in 1 .. RecordSize(c)
  <2>1. 1 + T \in 0 .. r.m_bufferSize /\ i - 1 \in Nat /\ (1 + T) + (i - 1) <= r.m_bufferSize /\ (1 + T) + (i - 1) = T + i
    BY <1>1
  <2> DEFINE j == i - 1
  <2>2. At(r, Place(r, 1 + T) + j) = Place(r, (1 + T) + j)
    <3> HIDE DEF T, j
    <3> QED BY <2>1, PlaceOn DEF j
  <2> QED BY <2>1, <2>2
<1>3. RecordSize(c) < r.m_bufferSize
  BY <1>1
<1>4. /\ \A i \in 1 .. RecordSize(c) : w.m_buffer[At(r, r.m_endIndex + (i - 1))] = CellOf(c, i)
      /\ \A x \in 0 .. r.m_bufferSize - 1 :
            (\A i \in 1 .. RecordSize(c) : At(r, r.m_endIndex + (i - 1)) # x) => w.m_buffer[x] = r.m_buffer[x]
  BY <1>3, WrittenIs
<1>5. \A k : Place(q, k) = Place(r, k)
  BY DEF Place, At
<1>6. t \in Seq(Records) /\ Len(t) = Len(s) + 1 /\ t[Len(s) + 1] = c /\ \A n \in 1 .. Len(s) : t[n] = s[n]
  OBVIOUS
<1>7. (\A n \in 0 .. Len(s) : Through(t)[n] = Through(s)[n]) /\ Through(s)[Len(s)] = T
  BY ThroughAppend DEF Taken
<1> HIDE DEF T, w, t
<1>8. ASSUME NEW n \in 1 .. Len(s), NEW i \in 1 .. RecordSize(s[n])
      PROVE  q.m_buffer[Place(q, Through(t)[n - 1] + i)] = CellOf(t[n], i)
  <2> DEFINE k == Through(s)[n - 1] + i
  <2>1. k \in 1 .. T /\ n - 1 \in 0 .. Len(s)
    BY Within, <1>1 DEF T
  <2>2. r.m_buffer[Place(r, k)] = CellOf(s[n], i)
    BY DEF Laid
  <2> HIDE DEF k
  <2>3. k \in 0 .. r.m_bufferSize /\ k \in 1 .. r.m_bufferSize
    BY <2>1, <1>1
  <2>4. Place(r, k) \in 0 .. r.m_bufferSize - 1
    BY <2>3, PlaceIs
  <2>5. \A j \in 1 .. RecordSize(c) : At(r, r.m_endIndex + (j - 1)) # Place(r, k)
    <3> TAKE j \in 1 .. RecordSize(c)
    <3>1. T + j \in 1 .. r.m_bufferSize /\ T + j # k
      BY <1>1, <2>1
    <3>2. Place(r, T + j) # Place(r, k)
      BY <3>1, <2>3, PlacesDiffer
    <3> QED BY <3>2, <1>2
  <2>6. w.m_buffer[Place(r, k)] = CellOf(s[n], i)
    BY <2>2, <2>4, <2>5, <1>4
  <2>7. Through(t)[n - 1] + i = k /\ t[n] = s[n]
    BY <2>1, <1>6, <1>7 DEF k
  <2> QED BY <2>6, <2>7, <1>5 DEF w
<1>9. ASSUME NEW i \in 1 .. RecordSize(c)
      PROVE  q.m_buffer[Place(q, Through(t)[Len(s)] + i)] = CellOf(c, i)
  <2>1. Through(t)[Len(s)] = T
    BY <1>1, <1>7
  <2>2. w.m_buffer[Place(r, T + i)] = CellOf(c, i)
    BY <1>2, <1>4
  <2> QED BY <2>1, <2>2, <1>5 DEF w
<1>10. ASSUME NEW n \in 1 .. Len(t), NEW i \in 1 .. RecordSize(t[n])
       PROVE  q.m_buffer[Place(q, Through(t)[n - 1] + i)] = CellOf(t[n], i)
  <2>1. CASE n <= Len(s)
    <3>1. n \in 1 .. Len(s) /\ t[n] = s[n]
      BY <2>1, <1>1, <1>6
    <3> QED BY <3>1, <1>8
  <2>2. CASE ~(n <= Len(s))
    <3>1. n - 1 = Len(s) /\ n = Len(s) + 1
      BY <2>2, <1>1, <1>6
    <3>2. t[n] = c
      BY <3>1, <1>6
    <3> QED BY <3>1, <3>2, <1>9
  <2> QED BY <2>1, <2>2
<1> QED BY <1>10 DEF Laid, t

LEMMA PushInv ==
    ASSUME Numbers, Inv, ~broken, NEW c \in Records, push_back(c)
    PROVE  Inv'
<1> DEFINE T == Taken(content)
           m == ring.m_bufferSize
           size == RecordSize(c)
           w == Written(ring, c)
           P == lenSize * shorts
<1>0. /\ IsRing(ring) /\ content \in Seq(Records) /\ shorts \in 0 .. MaxShort /\ Account /\ Laid(ring, content)
      /\ got.data = got.due
  BY DEF Inv
<1>1. CASE ~Fits(ring, c[2])
  <2>1. ring' = ring /\ content' = content /\ broken' = broken /\ got' = got /\ shorts' = shorts
    BY <1>1 DEF push_back
  <2> QED BY <2>1 DEF Inv, Account, Laid, Place, At, Capacity
<1>2. CASE Fits(ring, c[2])
  <2>0. /\ T \in Nat /\ Len(content) \in Nat /\ Len(content) <= T /\ T < m
        /\ ring.m_leftSpace = Capacity(ring) - T + P
        /\ P \in Nat /\ (shorts > 0 \/ P = 0)
    BY AccountIs
  <2>1. /\ size \in Nat /\ size > 1 /\ size = lenSize + c[2] /\ c[2] \in Nat /\ lenSize \in Nat
        /\ m \in Int /\ m > 1 /\ m < Word /\ Word \in Int /\ Capacity(ring) = m - 2
        /\ ring.m_leftSpace \in Nat /\ ring.m_leftSpace < Word /\ ring.m_size = Len(content)
        /\ ring.m_endIndex \in 0 .. m - 1 /\ ring.m_endIndex = Place(ring, 1 + T)
    BY RecordIs, RingIs, <1>0 DEF Inv, Account
  <2>2. size < m /\ size <= m - 2 /\ ring.m_leftSpace > size
    <3>1. c[2] <= Capacity(ring) - lenSize /\ ring.m_leftSpace > c[2] + lenSize
      BY <1>2 DEF Fits
    <3> HIDE DEF m, size
    <3> QED BY <2>1, <3>1
  <2>3. /\ w = [ring EXCEPT !.m_buffer = w.m_buffer] /\ IsRing(w)
    BY <1>0, <2>2, WrittenIs
  <2> HIDE DEF T, m, size, P
  <2>a. /\ T \in Int /\ size \in Int /\ m \in Int /\ P \in Int /\ Word \in Int /\ lenSize \in Int /\ c[2] \in Int
        /\ ring.m_leftSpace \in Int /\ Len(content) \in Int
    BY <2>0, <2>1
  <2>b. 0 <= T /\ T < m /\ 0 <= P /\ 1 < size /\ 1 < m /\ m < Word /\ size <= m - 2
    BY <2>0, <2>1, <2>2
  <2>c. ring.m_leftSpace = (m - 2) - T + P /\ Capacity(ring) = m - 2 /\ size = lenSize + c[2]
    BY <2>0, <2>1
  <2>d. size < ring.m_leftSpace /\ ring.m_leftSpace < Word
    BY <2>1, <2>2
  <2>e. 0 <= Len(content) /\ Len(content) <= T
    BY <2>0
  <2>4. /\ ring' = [w EXCEPT !.m_leftSpace = Unsigned(@ - c[2] - lenSize), !.m_size = @ + 1,
                              !.m_endIndex = At(ring, @ + c[2] + lenSize)]
        /\ content' = Append(content, c)
        /\ broken' = (Taken(content') > Capacity(ring) + 1)
        /\ got' = got /\ shorts' = shorts
    BY <1>2 DEF push_back, Written
  <2>5. Unsigned(ring.m_leftSpace - c[2] - lenSize) = ring.m_leftSpace - size
    <3> DEFINE x == ring.m_leftSpace - c[2] - lenSize
    <3>1. x \in Int /\ 0 <= x /\ x < Word /\ Word > 0 /\ x < 2 * Word /\ x = ring.m_leftSpace - size
      <4>1. x \in Int
        BY <2>a
      <4>2. x = ring.m_leftSpace - size
        BY <2>a, <2>c
      <4>3. 0 <= x
        BY <2>a, <2>d, <4>2
      <4>4. x < Word
        BY <2>a, <2>b, <2>d, <4>2
      <4>5. Word > 0
        BY <2>a, <2>b
      <4>6. x < 2 * Word
        BY <2>a, <4>1, <4>4, <4>5
      <4> QED BY <4>1, <4>2, <4>3, <4>4, <4>5, <4>6
    <3> HIDE DEF x
    <3>2. x % Word = x
      BY <2>a, <3>1, ModuloOnce
    <3>3. Unsigned(x) = x
      BY <3>2 DEF Unsigned
    <3> QED BY <3>1, <3>3 DEF x
  <2>6. /\ At(ring, ring.m_endIndex + c[2] + lenSize) \in 0 .. m - 1
        /\ T + size < m => At(ring, ring.m_endIndex + c[2] + lenSize) = Place(ring, 1 + (T + size))
    <3>1. ring.m_endIndex + c[2] + lenSize = ring.m_endIndex + size
      <4>1. ring.m_endIndex \in Int
        BY <2>1
      <4> QED BY <2>a, <2>c, <4>1
    <3>2. size \in 0 .. m - 1
      BY <2>a, <2>b
    <3>4. At(ring, ring.m_endIndex + size) \in 0 .. m - 1
      <4>1. m > 0 /\ m \in Int /\ ring.m_endIndex \in 0 .. m - 1
        BY <2>1
      <4>2. (ring.m_endIndex + size) % m \in 0 .. m - 1
        BY <4>1, <3>2, ModuloSum
      <4> QED BY <4>2 DEF At, m
    <3>5. ASSUME T + size < m PROVE At(ring, ring.m_endIndex + size) = Place(ring, 1 + (T + size))
      <4>1. 1 + T \in 0 .. m /\ (1 + T) + size <= m /\ (1 + T) + size = 1 + (T + size)
        <5>1. 1 + T \in 0 .. m
          BY <2>a, <2>b
        <5>2. (1 + T) + size <= m
          BY <2>a, <3>5
        <5>3. (1 + T) + size = 1 + (T + size)
          BY <2>a
        <5> QED BY <5>1, <5>2, <5>3
      <4>2. At(ring, Place(ring, 1 + T) + size) = Place(ring, (1 + T) + size)
        BY <1>0, <2>1, <4>1, PlaceOn DEF m
      <4> QED BY <2>1, <4>1, <4>2
    <3> QED BY <3>1, <3>4, <3>5
  <2>7. /\ ring' = [m_buffer |-> w.m_buffer, m_bufferSize |-> m, m_beginIndex |-> ring.m_beginIndex,
                    m_endIndex |-> At(ring, ring.m_endIndex + c[2] + lenSize),
                    m_size |-> Len(content) + 1, m_leftSpace |-> ring.m_leftSpace - size]
    <3> HIDE DEF w
    <3>1. ring \in Rings
      BY <1>0 DEF IsRing
    <3> QED BY <2>1, <2>3, <2>4, <2>5, <3>1 DEF Rings, m
  <2>8. IsRing(ring') /\ ring'.m_size < Word /\ ring'.m_leftSpace < Word
    <3>1. ring.m_leftSpace - size \in Nat /\ Len(content) + 1 \in Nat /\ Len(content) + 1 < Word /\ ring.m_leftSpace - size < Word
      <4>1. ring.m_leftSpace - size \in Nat
        BY <2>a, <2>d
      <4>2. Len(content) + 1 \in Nat
        BY <2>a, <2>e
      <4>3. Len(content) + 1 < Word
        BY <2>a, <2>b, <2>e
      <4>4. ring.m_leftSpace - size < Word
        BY <2>a, <2>b, <2>d
      <4> QED BY <4>1, <4>2, <4>3, <4>4
    <3>2. /\ w.m_buffer \in UNION {[0 .. n + 1 -> Cells] : n \in BufSizes}
          /\ w.m_buffer \in [0 .. m - 1 -> Cells]
          /\ m \in {n + 2 : n \in BufSizes} /\ ring.m_beginIndex \in Nat /\ ring.m_beginIndex < m
          /\ w.m_bufferSize = m
      <4>1. ring \in Rings
        BY <1>0 DEF IsRing
      <4> HIDE DEF w
      <4> QED BY <1>0, <2>3, <4>1 DEF IsRing, Rings, m
    <3> DEFINE end == At(ring, ring.m_endIndex + c[2] + lenSize)
               left == ring.m_leftSpace - size
    <3>3. end \in Nat /\ end < m
      <4> HIDE DEF end
      <4>1. end \in 0 .. m - 1
        BY <2>6 DEF end
      <4> QED BY <2>1, <4>1
    <3> HIDE DEF w, end, left
    <3>4. ring' = [m_buffer |-> w.m_buffer, m_bufferSize |-> m, m_beginIndex |-> ring.m_beginIndex, m_endIndex |-> end,
                   m_size |-> Len(content) + 1, m_leftSpace |-> left]
      BY <2>7 DEF end, left
    <3>5. left \in Nat /\ left < Word
      BY <3>1 DEF left
    <3> QED BY <3>1, <3>2, <3>3, <3>4, <3>5 DEF IsRing, Rings
  <2>9. content' \in Seq(Records) /\ Len(content') = Len(content) + 1 /\ Taken(content') = T + size
    BY <1>0, <2>4, ThroughAppend DEF T, size
  <2>10. CASE T + size > Capacity(ring) + 1
    <3>1. broken' = TRUE
      BY <2>4, <2>9, <2>10
    <3>2. shorts > 0
      <4>1. P # 0
        BY <2>a, <2>c, <2>d, <2>10
      <4> QED BY <2>0, <4>1
    <3> QED BY <1>0, <2>4, <2>8, <2>9, <3>1, <3>2 DEF Inv
  <2>11. CASE ~(T + size > Capacity(ring) + 1)
    <3>1. ~broken' /\ broken' \in BOOLEAN
      <4>1. ~(Taken(content') > Capacity(ring) + 1)
        BY <2>9, <2>11
      <4>2. ~broken'
        BY <4>1, <2>4
      <4>3. broken' \in BOOLEAN
        BY <2>4
      <4> QED BY <4>2, <4>3
    <3>2. T + size < m
      BY <2>a, <2>c, <2>11
    <3>3. Laid(ring', content')
      <4> HIDE DEF w
      <4>1. ring'.m_buffer = w.m_buffer /\ ring'.m_bufferSize = ring.m_bufferSize /\ ring'.m_beginIndex = ring.m_beginIndex
        BY <2>7 DEF m
      <4>2. Laid(ring', Append(content, c))
        BY <1>0, <2>1, <3>2, <4>1, LaidAppend DEF w, T, m, size
      <4> QED BY <2>4, <4>2
    <3>4. Account'
      <4>1. \A k : Place(ring', k) = Place(ring, k)
        BY <2>7 DEF Place, At, m
      <4>2. Capacity(ring') = Capacity(ring)
        BY <2>7 DEF Capacity, m
      <4>3. ring'.m_endIndex = Place(ring', 1 + (T + size))
        BY <2>6, <2>7, <3>2, <4>1
      <4>4. ring'.m_leftSpace = Capacity(ring') - (T + size) + lenSize * shorts'
        <5>1. ring'.m_leftSpace = ring.m_leftSpace - size
          BY <2>7
        <5>2. ring.m_leftSpace - size = Capacity(ring) - (T + size) + P
          BY <2>a, <2>c
        <5> QED BY <2>4, <4>2, <5>1, <5>2 DEF P
      <4>5. Taken(content') <= Capacity(ring') + 1
        <5>1. T + size <= (m - 2) + 1
          BY <2>a, <2>c, <2>11
        <5> QED BY <2>9, <2>c, <4>2, <5>1
      <4>6. ring'.m_size = Len(content')
        BY <2>7, <2>9
      <4> QED BY <2>9, <4>3, <4>4, <4>5, <4>6 DEF Account
    <3> QED BY <1>0, <2>4, <2>8, <2>9, <3>1, <3>3, <3>4 DEF Inv
  <2> QED BY <2>10, <2>11
<1> QED BY <1>1, <1>2

\* The first record and its length, in a ring that has records.
LEMMA FirstIs ==
    ASSUME Numbers, Inv, ~broken, ring.m_size # 0
    PROVE  /\ content # <<>> /\ Head(content) \in Records /\ Head(content) = content[1]
           /\ 1 \in 1 .. Len(content) /\ Through(content)[0] = 0
           /\ At(ring, ring.m_beginIndex + 1) = Place(ring, 1)
           /\ Place(ring, 1) # ring.m_endIndex
           /\ ring.m_buffer[Place(ring, 1)].what = Head(content)[2]
           /\ Taken(content) >= RecordSize(Head(content))
<1> DEFINE c == Head(content)
           T == Taken(content)
<1>0. content \in Seq(Records) /\ Account /\ Laid(ring, content) /\ IsRing(ring)
  BY DEF Inv
<1>1. content # <<>> /\ c \in Records /\ c = content[1] /\ 1 \in 1 .. Len(content)
  <2>1. Len(content) # 0
    BY <1>0 DEF Account
  <2> QED BY <1>0, <2>1
<1>2. Through(content)[0] = 0
  BY <1>0, ThroughIs DEF Counts
<1>3. At(ring, ring.m_beginIndex + 1) = Place(ring, 1)
  BY DEF Place
<1>4. T >= RecordSize(c) /\ T \in Nat /\ T < ring.m_bufferSize
  BY <1>0, <1>1, ThroughTail, AccountIs
<1>5. RecordSize(c) \in Nat /\ RecordSize(c) > 1 /\ lenSize \in Nat /\ lenSize > 0 /\ ring.m_bufferSize \in Int
  BY <1>0, <1>1, RecordIs, RingIs
<1>6. Place(ring, 1) # ring.m_endIndex
  <2> HIDE DEF c, T
  <2>1. 1 \in 1 .. ring.m_bufferSize
    BY <1>4, <1>5
  <2>2. 1 + T \in 1 .. ring.m_bufferSize
    BY <1>4, <1>5
  <2>3. 1 # 1 + T
    BY <1>4, <1>5
  <2>4. Place(ring, 1) # Place(ring, 1 + T)
    BY <1>0, <2>1, <2>2, <2>3, PlacesDiffer
  <2> QED BY <1>0, <2>4 DEF Account, T
<1>7. ring.m_buffer[Place(ring, 1)].what = c[2]
  <2>1. 1 \in 1 .. RecordSize(content[1])
    BY <1>1, <1>5
  <2>2. ring.m_buffer[Place(ring, Through(content)[1 - 1] + 1)] = CellOf(content[1], 1)
    BY <1>0, <1>1, <2>1 DEF Laid
  <2>3. Through(content)[1 - 1] + 1 = 1
    BY <1>2
  <2>4. CellOf(c, 1).what = c[2]
    BY <1>5 DEF CellOf, Cell
  <2> QED BY <1>1, <2>2, <2>3, <2>4
<1> QED BY <1>1, <1>2, <1>3, <1>4, <1>6, <1>7

\* The caller's buffer is too small: the length's space is given back for nothing.
LEMMA PopShortInv ==
    ASSUME Numbers, Inv, ~broken, shorts < MaxShort, shorts' = shorts + 1, ring' = GiveBack(ring, lenSize),
           broken' = (ring' = Emptied(ring)), UNCHANGED <<content, got>>
    PROVE  Inv'
<1> DEFINE P == lenSize * shorts
           Q == lenSize * MaxShort
           T == Taken(content)
           left == ring.m_leftSpace + lenSize
<1>0. /\ IsRing(ring) /\ content \in Seq(Records) /\ shorts \in 0 .. MaxShort /\ Account /\ Laid(ring, content)
      /\ got.data = got.due /\ ring.m_size < Word
  BY DEF Inv
<1>1. /\ T \in Nat /\ P \in Nat /\ P + lenSize <= Q /\ Q \in Nat /\ lenSize \in Nat /\ MaxShort \in Nat /\ shorts \in Nat
      /\ lenSize * (shorts + 1) = P + lenSize
  BY <1>0, AccountIs, RingIs DEF Numbers
<1>2. /\ ring.m_leftSpace = Capacity(ring) - T + P /\ Capacity(ring) = ring.m_bufferSize - 2
      /\ ring.m_bufferSize \in Int /\ ring.m_bufferSize + Q < Word /\ ring.m_leftSpace \in Nat /\ Word \in Int
  BY <1>0, AccountIs, RingIs
<1> DEFINE m == ring.m_bufferSize
<1> HIDE DEF P, Q, T, m
<1>t. /\ T \in Int /\ P \in Int /\ Q \in Int /\ m \in Int /\ lenSize \in Int /\ Word \in Int /\ ring.m_leftSpace \in Int
  BY <1>1, <1>2 DEF m
<1>u. ring.m_leftSpace = (m - 2) - T + P /\ P + lenSize <= Q /\ m + Q < Word /\ 0 <= T
  BY <1>1, <1>2 DEF m
<1>3. left \in Nat
  BY <1>1, <1>2
<1>4. left < Word
  BY <1>t, <1>u
<1>5. /\ IsRing(ring') /\ IsRing(Emptied(ring)) /\ Emptied(ring).m_size = 0 /\ Emptied(ring).m_leftSpace < Word
      /\ ring' = Emptied(ring) \/ ring' = [ring EXCEPT !.m_leftSpace = left]
  BY <1>0, <1>1, <1>4, GiveBackIs
<1>6. shorts' \in 0 .. MaxShort /\ shorts' > 0
  BY <1>1
<1>7. CASE ring' = Emptied(ring)
  <2>1. broken' = TRUE
    BY <1>7
  <2>2. ring'.m_size < Word /\ ring'.m_leftSpace < Word
    BY <1>1, <1>2, <1>5, <1>7
  <2> QED BY <1>0, <1>5, <1>6, <2>1, <2>2 DEF Inv
<1>8. CASE ring' # Emptied(ring)
  <2>1. broken' \in BOOLEAN
    OBVIOUS
  <2>2. /\ ring'.m_buffer = ring.m_buffer /\ ring'.m_bufferSize = ring.m_bufferSize /\ ring'.m_beginIndex = ring.m_beginIndex
        /\ ring'.m_endIndex = ring.m_endIndex /\ ring'.m_size = ring.m_size /\ ring'.m_leftSpace = left
    <3>1. ring \in Rings
      BY <1>0 DEF IsRing
    <3> HIDE DEF left
    <3> QED BY <1>5, <1>8, <3>1 DEF Rings
  <2>3. (\A k : Place(ring', k) = Place(ring, k)) /\ Capacity(ring') = Capacity(ring)
    BY <2>2 DEF Place, At, Capacity
  <2>4. Laid(ring', content')
    BY <1>0, <2>2, <2>3 DEF Laid
  <2>5. Account'
    <3>1. ring'.m_leftSpace = Capacity(ring) - T + (P + lenSize)
      BY <1>1, <1>2, <2>2
    <3>2. P + lenSize = lenSize * shorts'
      BY <1>1
    <3>3. ring'.m_leftSpace = Capacity(ring') - T + lenSize * shorts'
      BY <2>3, <3>1, <3>2
    <3> QED BY <1>0, <2>2, <2>3, <3>3 DEF Account, T
  <2>6. ring'.m_size < Word /\ ring'.m_leftSpace < Word
    BY <1>0, <1>4, <2>2
  <2> QED BY <1>0, <1>5, <1>6, <2>1, <2>4, <2>5, <2>6 DEF Inv
<1> QED BY <1>7, <1>8

\* The record is delivered.
LEMMA PopInv ==
    ASSUME Numbers, Inv, ~broken, ring.m_size # 0, NEW first, first = GiveBack(ring, lenSize),
           NEW both, both = GiveBack(first, Head(content)[2]),
           ring' = [both EXCEPT !.m_size = Unsigned(@ - 1), !.m_beginIndex = Begin(both, Head(content)[2])],
           content' = Tail(content), shorts' = shorts,
           broken' = (first = Emptied(ring) \/ both = Emptied(first)),
           got' = [data |-> Got(ring, Place(ring, 1) + lenSize, Head(content)[2]), due |-> DataCells(Head(content))]
    PROVE  Inv'
<1> DEFINE P == lenSize * shorts
           Q == lenSize * MaxShort
           T == Taken(content)
           c == Head(content)
           n == c[2]
           m == ring.m_bufferSize
<1>0. /\ IsRing(ring) /\ content \in Seq(Records) /\ shorts \in 0 .. MaxShort /\ Account /\ Laid(ring, content)
      /\ ring.m_size < Word /\ content # <<>> /\ c \in Records /\ T >= RecordSize(c) /\ ring \in Rings
  BY FirstIs DEF Inv, IsRing
<1>1. /\ T \in Nat /\ T < m /\ P \in Nat /\ P <= Q /\ Q \in Nat /\ (shorts > 0 \/ P = 0)
      /\ lenSize \in Nat /\ lenSize > 0 /\ n \in Nat /\ n > 0 /\ RecordSize(c) = lenSize + n
      /\ Len(content) \in Nat /\ Len(content) <= T
  BY <1>0, AccountIs, RingIs, RecordIs
<1>2. /\ ring.m_leftSpace = Capacity(ring) - T + P /\ Capacity(ring) = m - 2 /\ m > 1
      /\ m \in Int /\ m + Q < Word /\ ring.m_leftSpace \in Nat /\ Word \in Int
      /\ ring.m_size = Len(content) /\ ring.m_endIndex = Place(ring, 1 + T)
  BY <1>0, AccountIs, RingIs DEF Account
<1> HIDE DEF P, Q, T, c, n, m
<1>t. /\ T \in Int /\ P \in Int /\ Q \in Int /\ m \in Int /\ n \in Int /\ lenSize \in Int /\ Word \in Int
      /\ ring.m_leftSpace \in Int
  BY <1>1, <1>2
<1>a. T >= lenSize + n /\ T < m
  <2>1. T >= lenSize + n
    BY <1>0, <1>1
  <2> QED BY <1>1, <2>1
<1>b. 0 < lenSize /\ 0 < n /\ 1 < m /\ 0 <= P
  BY <1>1, <1>2
<1>c. m - 2 + P < Word /\ m < Word
  <2>1. P <= Q /\ m + Q < Word
    BY <1>1, <1>2
  <2> QED BY <1>t, <1>b, <2>1
<1>d. ring.m_leftSpace = (m - 2) - T + P
  BY <1>2
<1>e. ring.m_leftSpace + lenSize + n <= m - 2 + P
  BY <1>t, <1>a, <1>d
<1>3. /\ IsRing(first) /\ first.m_bufferSize = m
      /\ \/ first = Emptied(ring) /\ first.m_leftSpace = m - 2 /\ first.m_size = 0
         \/ first = [ring EXCEPT !.m_leftSpace = ring.m_leftSpace + lenSize]
      /\ P = 0 => first = [ring EXCEPT !.m_leftSpace = ring.m_leftSpace + lenSize]
  <2>1. ring.m_leftSpace + lenSize < Word
    BY <1>t, <1>b, <1>c, <1>e
  <2>2. P = 0 => ring.m_leftSpace + lenSize <= Capacity(ring)
    <3>1. Capacity(ring) = m - 2
      BY <1>2
    <3>2. P = 0 => ring.m_leftSpace + lenSize <= m - 2
      BY <1>t, <1>b, <1>e
    <3> QED BY <3>1, <3>2
  <2>3. /\ IsRing(first) /\ (first = Emptied(ring) \/ first = [ring EXCEPT !.m_leftSpace = ring.m_leftSpace + lenSize])
        /\ P = 0 => first = [ring EXCEPT !.m_leftSpace = ring.m_leftSpace + lenSize]
        /\ Emptied(ring).m_size = 0
    BY <1>0, <1>1, <2>1, <2>2, GiveBackIs
  <2>4. Emptied(ring).m_leftSpace = m - 2 /\ Emptied(ring).m_bufferSize = m
    BY <1>0 DEF Emptied, Rings, m
  <2>5. first = [ring EXCEPT !.m_leftSpace = ring.m_leftSpace + lenSize] => first.m_bufferSize = m
    BY <1>0 DEF Rings, m
  <2> QED BY <2>3, <2>4, <2>5
<1>4. /\ IsRing(Emptied(first)) /\ Emptied(first).m_leftSpace = m - 2 /\ Emptied(first).m_bufferSize = m
      /\ first \in Rings /\ Capacity(first) = m - 2 /\ first.m_leftSpace \in Nat
  <2>1. first \in Rings /\ first.m_leftSpace \in Nat
    BY <1>3 DEF IsRing, Rings
  <2>2. Emptied(first).m_leftSpace = m - 2 /\ Emptied(first).m_bufferSize = m
    BY <1>3, <2>1 DEF Emptied, Rings
  <2>3. first.m_leftSpace < Word
    <3>1. CASE first.m_leftSpace = m - 2
      BY <1>t, <1>c, <3>1
    <3>2. CASE first = [ring EXCEPT !.m_leftSpace = ring.m_leftSpace + lenSize]
      <4>1. first.m_leftSpace = ring.m_leftSpace + lenSize
        BY <1>0, <3>2 DEF Rings
      <4>2. first.m_leftSpace <= m - 2 + P
        BY <1>t, <1>b, <1>e, <4>1
      <4>3. first.m_leftSpace \in Int
        BY <2>1
      <4> QED BY <1>t, <1>c, <4>2, <4>3
    <3> QED BY <1>3, <3>1, <3>2
  <2>4. 0 \in Nat /\ first.m_leftSpace + 0 < Word
    BY <2>1, <2>3
  <2>5. IsRing(Emptied(first))
    BY <1>3, <2>4, GiveBackIs
  <2> QED BY <1>3, <2>1, <2>2, <2>5 DEF Capacity
<1>5. /\ IsRing(both) /\ both.m_bufferSize = m /\ both.m_leftSpace < Word
      /\ both = Emptied(first) \/ both = [first EXCEPT !.m_leftSpace = first.m_leftSpace + n]
      /\ P = 0 => both = [first EXCEPT !.m_leftSpace = first.m_leftSpace + n]
  <2>1. CASE first.m_leftSpace = m - 2 /\ P # 0
    <3>1. Unsigned(Capacity(first) - first.m_leftSpace) = 0
      <4>1. Capacity(first) - first.m_leftSpace = 0
        BY <1>t, <1>4, <2>1
      <4>2. Word > 0 /\ 0 < 2 * Word
        BY <1>t, <1>b, <1>c
      <4>3. 0 % Word = 0
        BY <1>t, <4>2, ModuloOnce
      <4> QED BY <4>1, <4>3 DEF Unsigned
    <3>2. both = Emptied(first)
      BY <1>b, <3>1 DEF GiveBack, n, c
    <3>3. both.m_leftSpace < Word
      <4>1. both.m_leftSpace = m - 2
        BY <1>4, <3>2
      <4> QED BY <1>t, <1>c, <4>1
    <3> QED BY <1>4, <2>1, <3>2, <3>3
  <2>2. CASE first = [ring EXCEPT !.m_leftSpace = ring.m_leftSpace + lenSize]
    <3>1. first.m_leftSpace = ring.m_leftSpace + lenSize
      BY <1>0, <2>2 DEF Rings
    <3>3. first.m_leftSpace + n <= m - 2 + P
      BY <1>e, <3>1
    <3>4. first.m_leftSpace + n < Word
      <4>1. first.m_leftSpace \in Int
        BY <1>4
      <4> QED BY <1>t, <1>c, <3>3, <4>1
    <3>5. P = 0 => first.m_leftSpace + n <= Capacity(first)
      <4>1. Capacity(first) = m - 2 /\ first.m_leftSpace \in Int
        BY <1>4
      <4> QED BY <1>t, <3>3, <4>1
    <3>6. /\ IsRing(both) /\ (both = Emptied(first) \/ both = [first EXCEPT !.m_leftSpace = first.m_leftSpace + n])
          /\ P = 0 => both = [first EXCEPT !.m_leftSpace = first.m_leftSpace + n]
      BY <1>1, <1>3, <3>4, <3>5, GiveBackIs DEF n, c
    <3>7. [first EXCEPT !.m_leftSpace = first.m_leftSpace + n].m_bufferSize = m
          /\ [first EXCEPT !.m_leftSpace = first.m_leftSpace + n].m_leftSpace = first.m_leftSpace + n
      BY <1>3, <1>4 DEF Rings
    <3>8. both.m_bufferSize = m
      BY <1>4, <3>6, <3>7
    <3>9. both.m_leftSpace < Word
      <4>1. m - 2 < Word
        BY <1>t, <1>c
      <4> QED BY <1>4, <3>4, <3>6, <3>7, <4>1
    <3> QED BY <3>6, <3>8, <3>9
  <2> QED BY <1>3, <2>1, <2>2
<1>6. /\ ring'.m_buffer = both.m_buffer /\ ring'.m_bufferSize = m /\ ring'.m_endIndex = both.m_endIndex
      /\ ring'.m_leftSpace = both.m_leftSpace /\ ring'.m_size = Unsigned(both.m_size - 1)
      /\ ring'.m_beginIndex = (both.m_beginIndex + lenSize + n) % m
      /\ ring' = [both EXCEPT !.m_size = ring'.m_size, !.m_beginIndex = ring'.m_beginIndex]
  <2>1. both \in Rings
    BY <1>5 DEF IsRing
  <2>2. Begin(both, n) = (both.m_beginIndex + lenSize + n) % m
    BY <1>5 DEF Begin, At
  <2> QED BY <1>5, <2>1, <2>2 DEF Rings, n, c
<1>7. IsRing(ring') /\ ring'.m_size < Word /\ ring'.m_leftSpace < Word
  <2>1. both \in Rings /\ both.m_beginIndex \in 0 .. m - 1
    BY <1>5, RingIs DEF IsRing
  <2>2. ring'.m_beginIndex \in 0 .. m - 1
    <3>1. lenSize + n \in 0 .. m - 1
      BY <1>t, <1>a, <1>b
    <3> DEFINE k == lenSize + n
    <3>2. (both.m_beginIndex + k) % m \in 0 .. m - 1
      <4> HIDE DEF k
      <4>1. m > 0
        BY <1>2
      <4> QED BY <1>2, <2>1, <3>1, <4>1, ModuloSum DEF k
    <3>3. both.m_beginIndex + k = both.m_beginIndex + lenSize + n
      BY <1>1, <2>1
    <3> QED BY <1>6, <3>2, <3>3
  <2>3. ring'.m_size \in 0 .. Word - 1
    <3>1. both.m_size \in Nat
      BY <2>1 DEF Rings
    <3>2. \A x \in Int : x % Word \in 0 .. Word - 1
      <4>1. Word \in Int /\ Word > 0
        BY <1>t, <1>b, <1>c
      <4> QED BY <4>1
    <3> QED BY <1>6, <3>1, <3>2 DEF Unsigned
  <2>4. ring'.m_size \in Nat /\ ring'.m_beginIndex \in Nat /\ ring'.m_beginIndex < m /\ ring'.m_size < Word
    BY <1>2, <2>2, <2>3
  <2>5. ring' \in Rings
    <3> DEFINE x == ring'.m_size
               y == ring'.m_beginIndex
    <3>1. x \in Nat /\ y \in Nat /\ ring' = [both EXCEPT !.m_size = x, !.m_beginIndex = y]
      BY <1>6, <2>4
    <3> HIDE DEF x, y
    <3> QED BY <2>1, <3>1 DEF Rings
  <2> QED BY <1>5, <1>6, <2>4, <2>5 DEF IsRing
<1>8. content' \in Seq(Records) /\ broken' \in BOOLEAN
  BY <1>0
<1>9. CASE broken'
  <2>1. shorts > 0
    <3> SUFFICES ASSUME P = 0 PROVE FALSE
      BY <1>1
    <3>1. first = [ring EXCEPT !.m_leftSpace = ring.m_leftSpace + lenSize]
          /\ both = [first EXCEPT !.m_leftSpace = first.m_leftSpace + n]
      BY <1>3, <1>5
    <3>2. first.m_size = ring.m_size /\ both.m_size = ring.m_size
      BY <1>0, <1>4, <3>1 DEF Rings
    <3>3. Emptied(ring).m_size = 0 /\ Emptied(first).m_size = 0
      BY <1>0, <1>4 DEF Emptied, Rings
    <3> QED BY <1>9, <3>2, <3>3
  <2> QED BY <1>0, <1>7, <1>8, <1>9, <2>1 DEF Inv
<1>10. CASE ~broken'
  <2>1. first = [ring EXCEPT !.m_leftSpace = ring.m_leftSpace + lenSize]
        /\ both = [first EXCEPT !.m_leftSpace = first.m_leftSpace + n]
    BY <1>3, <1>5, <1>10
  <2>2. /\ both.m_buffer = ring.m_buffer /\ both.m_endIndex = ring.m_endIndex /\ both.m_size = ring.m_size
        /\ both.m_beginIndex = ring.m_beginIndex /\ both.m_leftSpace = ring.m_leftSpace + lenSize + n
    BY <1>0, <1>4, <2>1 DEF Rings
  <2> DEFINE size == RecordSize(c)
  <2>3. size = lenSize + n /\ size \in 1 .. T /\ size \in Nat
    <3>1. size = lenSize + n
      BY <1>1
    <3> HIDE DEF size
    <3> QED BY <1>t, <1>a, <1>b, <3>1
  <2> HIDE DEF size
  <2>4. ring'.m_beginIndex = Place(ring, size)
    <3>1. ring'.m_beginIndex = (ring.m_beginIndex + lenSize + n) % m
      BY <1>6, <2>2
    <3>2. ring.m_beginIndex + lenSize + n = ring.m_beginIndex + size
      BY <2>3, <1>0, <1>1 DEF Rings
    <3> QED BY <3>1, <3>2 DEF Place, At, m
  <2>5. \A k \in Nat : size + k <= m => Place(ring', k) = Place(ring, size + k)
    <3> SUFFICES ASSUME NEW k \in Nat, size + k <= m PROVE Place(ring', k) = Place(ring, size + k)
      OBVIOUS
    <3>1. size \in 0 .. m
      <4>1. size \in Int /\ 1 <= size /\ size <= T
        BY <1>t, <2>3
      <4> QED BY <1>t, <1>a, <4>1
    <3>2. At(ring, Place(ring, size) + k) = Place(ring, size + k)
      BY <1>0, <3>1, PlaceOn DEF m
    <3> QED BY <1>6, <2>4, <3>2 DEF Place, At, m
  <2>6. /\ Taken(content') = T - size /\ Len(content') = Len(content) - 1
        /\ \A k \in 0 .. Len(content) - 1 : Through(content')[k] = Through(content)[k + 1] - size
        /\ \A k \in 1 .. Len(content) - 1 : content'[k] = content[k + 1]
    BY <1>0, ThroughTail DEF T, size, c
  <2>7. Laid(ring', content')
    <3> SUFFICES ASSUME NEW k \in 1 .. Len(content'), NEW i \in 1 .. RecordSize(content'[k])
                 PROVE  ring'.m_buffer[Place(ring', Through(content')[k - 1] + i)] = CellOf(content'[k], i)
      BY DEF Laid
    <3> DEFINE x == Through(content)[k]
               y == Through(content')[k - 1]
    <3>1. k + 1 \in 1 .. Len(content) /\ k + 1 - 1 = k /\ k - 1 \in 0 .. Len(content) - 1 /\ k - 1 + 1 = k
          /\ k \in 1 .. Len(content) - 1
      <4> DEFINE l == Len(content)
      <4>1. l \in Nat /\ k \in 1 .. l - 1
        BY <1>1, <2>6
      <4> HIDE DEF l
      <4>2. k + 1 \in 1 .. l
        BY <4>1
      <4>3. k + 1 - 1 = k /\ k - 1 + 1 = k
        OBVIOUS
      <4>4. k - 1 \in 0 .. l - 1
        BY <4>1
      <4> QED BY <4>1, <4>2, <4>3, <4>4 DEF l
    <3>2. content'[k] = content[k + 1] /\ i \in 1 .. RecordSize(content[k + 1])
      BY <2>6, <3>1
    <3>3. y = x - size
      BY <2>6, <3>1
    <3>4. x + i \in 1 .. T /\ x \in Nat
      <4>1. Through(content)[k + 1 - 1] + i \in 1 .. Taken(content) /\ Through(content)[k + 1 - 1] \in Nat
        <5> DEFINE j == k + 1
        <5>1. j \in 1 .. Len(content) /\ i \in 1 .. RecordSize(content[j]) /\ content \in Seq(Records)
          BY <1>0, <3>1, <3>2
        <5> HIDE DEF j
        <5>2. Through(content)[j - 1] + i \in 1 .. Taken(content) /\ Through(content)[j - 1] \in Nat
          BY <5>1, Within
        <5> QED BY <5>2 DEF j
      <4> QED BY <3>1, <4>1 DEF T
    <3>5. ring.m_buffer[Place(ring, x + i)] = CellOf(content[k + 1], i)
      <4> DEFINE j == k + 1
      <4>1. j \in 1 .. Len(content) /\ i \in 1 .. RecordSize(content[j])
        BY <3>1, <3>2
      <4> HIDE DEF j
      <4>2. ring.m_buffer[Place(ring, Through(content)[j - 1] + i)] = CellOf(content[j], i)
        BY <1>0, <4>1 DEF Laid
      <4> QED BY <3>1, <4>2 DEF j
    <3>6. y \in Nat
      <4>1. 1 \in 1 .. Len(content') /\ content' \in Seq(Records) /\ k - 1 \in 0 .. Len(content')
        BY <1>8, <2>6, <3>1
      <4> QED BY <4>1, ThroughIs
    <3> HIDE DEF x, y
    <3>7. y + i \in Nat /\ size + (y + i) <= m /\ size + (y + i) = x + i
      <4>1. i \in Nat
        OBVIOUS
      <4>2. y + i \in Nat
        BY <4>1, <3>6
      <4>3. size + (y + i) = x + i
        BY <4>1, <3>3, <3>4, <3>6, <2>3
      <4>4. x + i <= m
        <5>1. x + i <= T /\ x + i \in Int
          BY <3>4
        <5> QED BY <1>t, <1>a, <5>1
      <4> QED BY <4>2, <4>3, <4>4
    <3>8. Place(ring', y + i) = Place(ring, x + i)
      BY <2>5, <3>7
    <3> QED BY <1>6, <2>2, <3>2, <3>5, <3>8 DEF y
  <2>8. Account'
    <3>1. Capacity(ring') = m - 2
      BY <1>6 DEF Capacity
    <3>2. Taken(content') <= Capacity(ring') + 1
      <4>1. T - size <= (m - 2) + 1
        <5>1. size > 0 /\ size \in Int
          BY <2>3
        <5> QED BY <1>t, <1>a, <5>1
      <4> QED BY <2>6, <3>1, <4>1
    <3>3. ring'.m_endIndex = Place(ring', 1 + Taken(content'))
      <4>1. 1 + (T - size) \in Nat /\ size + (1 + (T - size)) <= m /\ size + (1 + (T - size)) = 1 + T
        <5>1. 1 + (T - size) \in Nat
          BY <1>1, <2>3
        <5>2. size + (1 + (T - size)) = 1 + T
          <6>1. T \in Int /\ size \in Int
            BY <1>1, <2>3
          <6> QED BY <6>1
        <5>3. 1 + T <= m
          BY <1>1, <1>2
        <5> QED BY <5>1, <5>2, <5>3
      <4>2. Place(ring', 1 + (T - size)) = Place(ring, 1 + T)
        BY <4>1, <2>5
      <4> QED BY <1>2, <1>6, <2>2, <2>6, <4>2
    <3>4. ring'.m_size = Len(content')
      <4> DEFINE k == Len(content) - 1
      <4>1. k \in Nat /\ k < Word /\ Word > 0 /\ Len(content) = ring.m_size
        <5>1. Len(content) > 0
          BY <1>0
        <5>2. k \in Nat
          BY <1>1, <5>1
        <5>3. k < Word
          BY <1>0, <1>1, <1>2
        <5>4. Word > 0
          BY <1>1, <1>2
        <5> QED BY <1>2, <5>2, <5>3, <5>4
      <4>2. both.m_size - 1 = k
        BY <2>2, <4>1
      <4> HIDE DEF k
      <4>3. k % Word = k
        BY <1>2, <4>1, ModuloOnce
      <4> QED BY <1>6, <2>6, <4>2, <4>3 DEF Unsigned, k
    <3>5. ring'.m_leftSpace = Capacity(ring') - Taken(content') + lenSize * shorts'
      <4>1. ring'.m_leftSpace = ring.m_leftSpace + lenSize + n
        BY <1>6, <2>2
      <4>2. ring.m_leftSpace + lenSize + n = (m - 2) - (T - size) + P
        <5>1. size = lenSize + n
          BY <2>3
        <5>2. (m - 2) - (T - size) + P = ((m - 2) - T + P) + size
          <6>1. size \in Int
            BY <2>3
          <6> QED BY <1>t, <6>1
        <5>3. ring.m_leftSpace + lenSize + n = ring.m_leftSpace + size
          BY <1>t, <5>1
        <5> QED BY <1>d, <5>2, <5>3
      <4> QED BY <2>6, <3>1, <4>1, <4>2 DEF P
    <3> QED BY <3>2, <3>3, <3>4, <3>5 DEF Account
  <2>9. got'.data = got'.due
    <3>1. n \in Nat /\ DataCells(c) = [i \in 1 .. n |-> DataCells(c)[i]]
      <4>1. DataCells(c) \in Seq(Cells) /\ Len(DataCells(c)) = n
        BY <1>0, CellsIs DEF n
      <4> DEFINE d == DataCells(c)
      <4> HIDE DEF d
      <4> QED BY <1>1, <4>1 DEF d
    <3>2. \A i \in 1 .. n : ring.m_buffer[At(ring, Place(ring, 1) + lenSize + i - 1)] = DataCells(c)[i]
      <4> TAKE i \in 1 .. n
      <4>1. lenSize + i \in 1 .. size /\ i - 1 \in 0 .. n - 1 /\ i - 1 + 1 = i
        BY <1>1, <2>3
      <4>2. ring.m_buffer[Place(ring, lenSize + i)] = CellOf(c, lenSize + i)
        <5>1. 1 \in 1 .. Len(content) /\ Through(content)[1 - 1] = 0 /\ content[1] = c
          BY FirstIs DEF c
        <5>2. ring.m_buffer[Place(ring, Through(content)[1 - 1] + (lenSize + i))] = CellOf(content[1], lenSize + i)
          BY <1>0, <4>1, <5>1 DEF Laid, size
        <5>3. 0 + (lenSize + i) = lenSize + i
          BY <1>1
        <5> QED BY <5>1, <5>2, <5>3
      <4>3. DataCells(c)[i] = CellOf(c, lenSize + i)
        <5>1. \A j \in 0 .. n - 1 : DataCells(c)[j + 1] = CellOf(c, lenSize + j + 1)
          BY <1>0, CellsIs DEF n
        <5>2. DataCells(c)[i - 1 + 1] = CellOf(c, lenSize + (i - 1) + 1)
          BY <4>1, <5>1
        <5>3. lenSize + (i - 1) + 1 = lenSize + i
          BY <1>1
        <5> QED BY <4>1, <5>2, <5>3
      <4>4. At(ring, Place(ring, 1) + lenSize + i - 1) = Place(ring, lenSize + i)
        <5> DEFINE j == lenSize + i - 1
        <5>1. j \in Nat /\ 1 \in 0 .. m /\ 1 + j <= m /\ 1 + j = lenSize + i
          <6>1. 1 + j = lenSize + i /\ j \in Nat
            BY <1>1
          <6>2. lenSize + i <= size /\ size <= T
            BY <2>3, <4>1
          <6>3. lenSize + i <= m
            <7>1. size \in Int /\ i \in Int
              BY <2>3
            <7> QED BY <1>t, <1>a, <6>2, <7>1
          <6>4. 1 \in 0 .. m
            BY <1>t, <1>b
          <6> QED BY <6>1, <6>3, <6>4
        <5>2. Place(ring, 1) \in Int
          <6>1. Place(ring, 1) \in 0 .. ring.m_bufferSize - 1
            BY <1>0, <5>1, PlaceIs DEF m
          <6> QED BY <6>1
        <5>3. Place(ring, 1) + lenSize + i - 1 = Place(ring, 1) + j
          BY <1>1, <5>2
        <5> HIDE DEF j
        <5>4. At(ring, Place(ring, 1) + j) = Place(ring, 1 + j)
          BY <1>0, <5>1, PlaceOn DEF m
        <5> QED BY <5>1, <5>3, <5>4
      <4> QED BY <4>2, <4>3, <4>4
    <3>3. got'.data = [i \in 1 .. n |-> ring.m_buffer[At(ring, Place(ring, 1) + lenSize + i - 1)]]
      BY DEF Got, n, c
    <3>4. got'.due = DataCells(c)
      BY DEF c
    <3> QED BY <3>1, <3>2, <3>3, <3>4
  <2> QED BY <1>0, <1>7, <1>8, <1>10, <2>7, <2>8, <2>9 DEF Inv
<1> QED BY <1>9, <1>10

\* Nothing is popped from a ring without records.
LEMMA PopEmptyInv ==
    ASSUME Numbers, Inv, ~broken, ring.m_size = 0, UNCHANGED <<ring, content, shorts, broken>>,
           got' = [data |-> <<>>, due |-> IF content = <<>> THEN <<>> ELSE DataCells(Head(content))]
    PROVE  Inv'
<1>1. content \in Seq(Records) /\ Account /\ Laid(ring, content)
  BY DEF Inv
<1>2. content = <<>>
  BY <1>1 DEF Account
<1>3. got'.data = got'.due
  BY <1>2
<1>4. Account' /\ Laid(ring', content')
  BY <1>1 DEF Account, Laid, Place, At, Capacity
<1> QED BY <1>3, <1>4 DEF Inv

LEMMA PopFrontInv ==
    ASSUME Numbers, Inv, ~broken, NEW size, pop_front(size)
    PROVE  Inv'
<1> DEFINE next == At(ring, ring.m_beginIndex + 1)
           len == ring.m_buffer[next].what
           first == GiveBack(ring, lenSize)
           both == GiveBack(first, len)
<1>1. CASE ring.m_size = 0
  <2>1. /\ got' = [data |-> <<>>, due |-> IF content = <<>> THEN <<>> ELSE DataCells(Head(content))]
        /\ UNCHANGED <<ring, content, shorts, broken>>
    BY <1>1 DEF pop_front
  <2> QED BY <1>1, <2>1, PopEmptyInv
<1>2. CASE ring.m_size # 0
  <2>1. /\ next = Place(ring, 1) /\ next # ring.m_endIndex /\ len = Head(content)[2] /\ len # 0
    <3>1. /\ Head(content) \in Records /\ next = Place(ring, 1) /\ Place(ring, 1) # ring.m_endIndex
          /\ ring.m_buffer[Place(ring, 1)].what = Head(content)[2]
      BY <1>2, FirstIs
    <3>2. Head(content)[2] # 0
      BY <3>1, RecordIs
    <3> QED BY <3>1, <3>2
  <2>2. CASE size # 0 /\ size < len
    <3>1. /\ shorts < MaxShort /\ shorts' = shorts + 1 /\ ring' = first
          /\ broken' = (first = Emptied(ring)) /\ UNCHANGED <<content, got>>
      BY <1>2, <2>1, <2>2 DEF pop_front
    <3> QED BY <3>1, PopShortInv
  <2>3. CASE ~(size # 0 /\ size < len)
    <3>1. /\ got' = [data |-> Got(ring, next + lenSize, len), due |-> DataCells(Head(content))]
          /\ ring' = [both EXCEPT !.m_size = Unsigned(@ - 1), !.m_beginIndex = Begin(both, len)]
          /\ content' = Tail(content) /\ shorts' = shorts
          /\ broken' = (first = Emptied(ring) \/ both = Emptied(first))
      BY <1>2, <2>1, <2>3 DEF pop_front
    <3>2. both = GiveBack(first, Head(content)[2])
      BY <2>1
    <3> HIDE DEF next, len, both, first
    <3>3. first = GiveBack(ring, lenSize)
      BY DEF first
    <3> QED BY <1>2, <2>1, <3>1, <3>2, <3>3, PopInv
  <2> QED BY <2>2, <2>3
<1> QED BY <1>1, <1>2

LEMMA NextInv == Numbers /\ Inv /\ [Next]_vars => Inv'
<1> SUFFICES ASSUME Numbers, Inv, [Next]_vars PROVE Inv'
  OBVIOUS
<1>1. CASE UNCHANGED vars
  BY <1>1 DEF vars, Inv, Account, Laid, Place, At, Capacity
<1>2. ASSUME ~broken, InitAgain PROVE Inv'
  BY <1>2, InitAgainInv
<1>3. ASSUME ~broken, NEW p \in Payloads, NEW n \in Lengths, push_back(<<p, n>>) PROVE Inv'
  <2>1. <<p, n>> \in Records
    BY DEF Records
  <2> QED BY <1>3, <2>1, PushInv
<1>4. ASSUME ~broken, NEW size, pop_front(size) PROVE Inv'
  BY <1>4, PopFrontInv
<1> QED BY <1>1, <1>2, <1>3, <1>4 DEF Next

-----------------------------------------------------------------------------
(* What follows from the invariant.                                        *)

\* The fields of the ring are in range.
LEMMA InvTypes == Numbers /\ Inv => TypeOK
<1> SUFFICES ASSUME Numbers, Inv PROVE TypeOK
  OBVIOUS
<1>1. IsRing(ring) /\ ring.m_size < Word /\ ring.m_leftSpace < Word /\ shorts \in 0 .. MaxShort
  BY DEF Inv
<1>2. /\ ring.m_size \in Nat /\ ring.m_leftSpace \in Nat /\ Word \in Int
      /\ ring.m_beginIndex \in 0 .. ring.m_bufferSize - 1 /\ ring.m_endIndex \in 0 .. ring.m_bufferSize - 1
  BY <1>1, RingIs
<1>3. ring.m_bufferSize \in {n + 2 : n \in BufSizes} /\ DOMAIN ring.m_buffer = 0 .. ring.m_bufferSize - 1
  BY <1>1 DEF IsRing, Rings
<1>4. ring.m_size \in 0 .. Word - 1 /\ ring.m_leftSpace \in 0 .. Word - 1
  BY <1>1, <1>2
<1> QED BY <1>1, <1>2, <1>3, <1>4 DEF TypeOK

\* The records that were pushed and not popped are in the ring, whole and in order.
LEMMA InvRecords == Numbers /\ Inv => RecordsWhole
<1> SUFFICES ASSUME Numbers, Inv, ~broken PROVE RecordsWhole
  BY DEF RecordsWhole
<1> DEFINE T == Taken(content)
           m == ring.m_bufferSize
<1>1. IsRing(ring) /\ content \in Seq(Records) /\ Account /\ Laid(ring, content) /\ got.data = got.due
  BY DEF Inv
<1>2. T \in Nat /\ T < m /\ m \in Int /\ Len(content) \in Nat /\ Len(content) <= T
      /\ ring.m_beginIndex \in Int /\ lenSize \in Nat
  <2>1. ring.m_bufferSize \in Int /\ ring.m_beginIndex \in 0 .. ring.m_bufferSize - 1
    BY <1>1, RingIs
  <2>2. T \in Nat /\ T < m /\ Len(content) \in Nat /\ Len(content) <= T
    BY AccountIs
  <2>3. lenSize \in Nat
    BY DEF Numbers
  <2> QED BY <2>1, <2>2, <2>3
<1>3. \A k \in Int : At(ring, ring.m_beginIndex + 1 + k) = Place(ring, 1 + k)
  <2> SUFFICES ASSUME NEW k \in Int PROVE At(ring, ring.m_beginIndex + 1 + k) = Place(ring, 1 + k)
    OBVIOUS
  <2>1. ring.m_beginIndex + 1 + k = ring.m_beginIndex + (1 + k)
    BY <1>2
  <2> QED BY <2>1 DEF Place
<1>4. ASSUME NEW n \in 1 .. Len(content)
      PROVE  Got(ring, StartOf(n), RecordSize(content[n])) = LengthCells(content[n][2]) \o DataCells(content[n])
  <2> DEFINE c == content[n]
             size == RecordSize(c)
             x == Through(content)[n - 1]
  <2>1. c \in Records /\ size \in Nat /\ size > 0
    BY <1>1, RecordIs
  <2>2. \A i \in 1 .. size : x + i \in 1 .. T /\ x \in Nat /\ ring.m_buffer[Place(ring, x + i)] = CellOf(c, i)
    BY <1>1, Within DEF Laid
  <2>3. LengthCells(c[2]) \o DataCells(c) = [i \in 1 .. size |-> CellOf(c, i)]
    BY <2>1, CellsIs
  <2>4. Got(ring, StartOf(n), size) = [i \in 1 .. size |-> ring.m_buffer[At(ring, StartOf(n) + i - 1)]]
    BY DEF Got
  <2>5. StartOf(n) = At(ring, ring.m_beginIndex + 1 + x)
    BY DEF StartOf
  <2> HIDE DEF c, size, x, T, m
  <2>6. ASSUME NEW i \in 1 .. size PROVE At(ring, StartOf(n) + i - 1) = Place(ring, x + i)
    <3>1. i \in Nat /\ i > 0 /\ i - 1 \in Nat /\ x \in Nat /\ x + i <= T /\ 1 \in 1 .. size /\ x + 1 <= T
      <4>1. i \in Nat /\ i > 0 /\ i - 1 \in Nat /\ 1 \in 1 .. size
        BY <2>1
      <4>2. x + i \in 1 .. T /\ x \in Nat /\ x + 1 \in 1 .. T
        BY <2>2, <4>1
      <4> QED BY <1>2, <4>1, <4>2
    <3>2. StartOf(n) = Place(ring, 1 + x)
      <4>1. x \in Int
        BY <3>1
      <4>2. At(ring, ring.m_beginIndex + 1 + x) = Place(ring, 1 + x)
        BY <1>3, <4>1
      <4> QED BY <2>5, <4>2
    <3> DEFINE j == i - 1
    <3>3. j \in Nat /\ 1 + x \in 0 .. m /\ (1 + x) + j <= m /\ (1 + x) + j = x + i
      <4>1. (1 + x) + j = x + i /\ j \in Nat
        BY <3>1
      <4>2. x + i <= m
        BY <1>2, <3>1
      <4>3. 1 + x \in 0 .. m
        BY <1>2, <3>1
      <4> QED BY <4>1, <4>2, <4>3
    <3>4. StartOf(n) + i - 1 = StartOf(n) + j
      <4>1. Place(ring, 1 + x) \in 0 .. m - 1
        BY <1>1, <3>3, PlaceIs DEF m
      <4>2. StartOf(n) \in Int
        BY <3>2, <4>1
      <4> QED BY <3>1, <4>2
    <3> HIDE DEF j
    <3>5. At(ring, Place(ring, 1 + x) + j) = Place(ring, (1 + x) + j)
      BY <1>1, <3>3, PlaceOn DEF m
    <3> QED BY <3>2, <3>3, <3>4, <3>5
  <2>7. [i \in 1 .. size |-> ring.m_buffer[At(ring, StartOf(n) + i - 1)]] = [i \in 1 .. size |-> CellOf(c, i)]
    BY <2>2, <2>6
  <2> QED BY <2>3, <2>4, <2>7 DEF c, size
<1>5. StartOf(Len(content) + 1) = ring.m_endIndex
  <2>1. Len(content) + 1 - 1 = Len(content)
    BY <1>2
  <2>2. StartOf(Len(content) + 1) = At(ring, ring.m_beginIndex + 1 + T)
    BY <2>1 DEF StartOf, Taken
  <2>3. ring.m_endIndex = Place(ring, 1 + T)
    BY <1>1 DEF Account
  <2>4. T \in Int
    BY <1>2
  <2> HIDE DEF T
  <2> QED BY <1>3, <2>2, <2>3, <2>4
<1>6. ring.m_size = Len(content)
  BY <1>1 DEF Account
<1>7. empty <=> content = <<>>
  <2>1. ASSUME content = <<>> PROVE empty
    <3>1. ring.m_size = 0
      BY <1>6, <2>1
    <3>2. T = 0
      BY <1>1, <1>2, <2>1, ThroughIs DEF Counts, Taken
    <3>3. ring.m_endIndex = Place(ring, 1)
      BY <1>1, <3>2 DEF Account
    <3> QED BY <3>1, <3>3 DEF empty, Place
  <2>2. ASSUME empty PROVE content = <<>>
    <3>1. Len(content) = 0
      BY <1>6, <2>2 DEF empty
    <3> QED BY <1>1, <3>1
  <2> QED BY <2>1, <2>2
<1>8. DOMAIN content = 1 .. Len(content)
  BY <1>1
<1> QED BY <1>1, <1>4, <1>5, <1>6, <1>7, <1>8 DEF RecordsWhole

\* The space on record is the space there is, but for the buffers that were too small.
LEMMA InvSpace == Numbers /\ Inv => SpaceAgrees
  BY DEF Inv, Account, SpaceAgrees

\* However records are pushed and popped, whatever the sizes: the records stay
\* whole and in order, and the account of the space is right, as stated above.
THEOREM BufferListSafe ==
  ASSUME Numbers PROVE Spec => [](TypeOK /\ RecordsWhole /\ SpaceAgrees)
<1>1. Init => Inv
  BY InitInv
<1>2. Inv /\ [Next]_vars => Inv'
  BY NextInv
<1>3. Inv => TypeOK /\ RecordsWhole /\ SpaceAgrees
  BY InvTypes, InvRecords, InvSpace
<1> QED BY <1>1, <1>2, <1>3, PTL DEF Spec
=============================================================================
