------------------------- MODULE ThreadMsgQueueProofs ------------------------
(***************************************************************************)
(* Proofs about the ring and the threads that share one, for every size    *)
(* and any items, threads and calls.  First what the methods of ArrayList  *)
(* do to the waiting items, on a ring that is Fit, and on one that a       *)
(* pop_all left with beginIndex = -1.  Then the ring under the clients of  *)
(* ArrayListClient: its types and indices, that the undefined copy of      *)
(* push_all is out of reach, and that it implements a bounded FIFO queue.  *)
(* Then ThreadMsgQueueHistory: its types, that receivers get the items in  *)
(* the order in which they were stored and none twice, and that none is    *)
(* missing until a pop_all has left beginIndex at -1 or has run over a     *)
(* buffer for one item.                                                    *)
(***************************************************************************)
EXTENDS ThreadMsgQueueHistory, ArrayListClient, SequenceTheorems, FiniteSetTheorems, TLAPS


\* The remainder of an index that ran at most once round the ring.
LEMMA RingIndex ==
    ASSUME NEW x \in Int, 0 <= x, x < 2 * m_ArraySize
    PROVE  x % m_ArraySize = IF x < m_ArraySize THEN x ELSE x - m_ArraySize
<1> DEFINE M == m_ArraySize
<1>1. M \in Int /\ M > 1
  BY ArrayListAssumption DEF m_ArraySize
<1>2. \A m \in Int : m > 1 /\ x < m => x % m = x
  OBVIOUS
<1>3. \A m \in Int : m > 1 /\ m <= x /\ x < 2 * m => x % m = x - m
  OBVIOUS
<1> QED
  BY <1>1, <1>2, <1>3

-----------------------------------------------------------------------------
(* The ring on its own.  Fit: the indices are apart and at most ArraySize  *)
(* of the ArraySize + 2 slots are in use.                                  *)

Fit(l) == l \in Lists /\ l.beginIndex # l.endIndex /\ size(l) <= ArraySize

\* Fit in integers: what size() computes, and the ranges it needs.
Shape(l) ==
    /\ ArraySize \in Int /\ 0 <= ArraySize /\ m_ArraySize \in Int /\ m_ArraySize = ArraySize + 2
    /\ l.endIndex \in Int /\ 0 <= l.endIndex /\ l.endIndex < m_ArraySize
    /\ l.beginIndex \in Int /\ -1 <= l.beginIndex /\ l.beginIndex < m_ArraySize
    /\ l.beginIndex # l.endIndex
    /\ size(l) \in Int /\ 0 <= size(l) /\ size(l) <= ArraySize
    /\ size(l) = IF l.endIndex - l.beginIndex - 1 < 0
                 THEN l.endIndex - l.beginIndex - 1 + m_ArraySize
                 ELSE l.endIndex - l.beginIndex - 1

LEMMA FitShape == ASSUME NEW l, Fit(l) PROVE Shape(l)
<1>1. /\ ArraySize \in Nat /\ m_ArraySize = ArraySize + 2
      /\ l.endIndex \in 0 .. m_ArraySize - 1 /\ l.beginIndex \in -1 .. m_ArraySize - 1
  BY ArrayListAssumption DEF Fit, Lists, Slots, m_ArraySize
<1>2. size(l) = IF l.endIndex - l.beginIndex - 1 < 0
                THEN l.endIndex - l.beginIndex - 1 + m_ArraySize
                ELSE l.endIndex - l.beginIndex - 1
  BY <1>1 DEF size
<1> QED
  BY <1>1, <1>2 DEF Fit, Shape

\* The slot the i-th waiting item is in, the one after the last being endIndex.
LEMMA SlotOf ==
    ASSUME NEW l, Fit(l), NEW i \in 1 .. size(l) + 1
    PROVE  /\ (l.beginIndex + i) % m_ArraySize =
                  IF l.beginIndex + i < m_ArraySize THEN l.beginIndex + i
                                                    ELSE l.beginIndex + i - m_ArraySize
           /\ (l.beginIndex + i) % m_ArraySize \in Slots
           /\ (l.beginIndex + i) % m_ArraySize = l.endIndex <=> i = size(l) + 1
<1> DEFINE e == l.endIndex
           b == l.beginIndex
           M == m_ArraySize
<1>0. Shape(l)
  BY FitShape
<1>1. (b + i) % M = IF b + i < M THEN b + i ELSE b + i - M
  <2>1. /\ b \in Int /\ i \in Int /\ M \in Int /\ M > 1
        /\ 0 <= b + i /\ b + i < 2 * M
    BY <1>0 DEF Shape
  <2> QED
    BY <2>1, RingIndex
<1>2. (IF b + i < M THEN b + i ELSE b + i - M) \in 0 .. M - 1
  BY <1>0 DEF Shape
<1>3. (IF b + i < M THEN b + i ELSE b + i - M) = e <=> i = size(l) + 1
  BY <1>0 DEF Shape
<1> QED
  BY <1>1, <1>2, <1>3 DEF Slots

LEMMA WaitingType ==
    ASSUME NEW l, Fit(l)
    PROVE  /\ Waiting(l) \in Seq(Item \cup {Junk})
           /\ Len(Waiting(l)) = size(l)
           /\ \A i \in 1 .. size(l) : Waiting(l)[i] = l.m_DataArray[(l.beginIndex + i) % m_ArraySize]
<1>0. Shape(l)
  BY FitShape
<1>1. size(l) \in Nat
  BY <1>0 DEF Shape
<1>2. ASSUME NEW i \in 1 .. size(l)
      PROVE  l.m_DataArray[(l.beginIndex + i) % m_ArraySize] \in Item \cup {Junk}
  <2>1. (l.beginIndex + i) % m_ArraySize \in Slots
    BY <1>1, SlotOf
  <2> QED
    BY <2>1 DEF Fit, Lists
<1>3. Waiting(l) \in [1 .. size(l) -> Item \cup {Junk}]
  BY <1>2 DEF Waiting
<1> QED
  BY <1>1, <1>3 DEF Waiting

\* full() and empty() are tests of size(), except that full() never holds
\* while beginIndex is -1.
LEMMA FullEmpty ==
    ASSUME NEW l, Fit(l)
    PROVE  /\ full(l) <=> size(l) = ArraySize /\ l.beginIndex # -1
           /\ empty(l) <=> size(l) = 0
<1> DEFINE e == l.endIndex
           b == l.beginIndex
           M == m_ArraySize
<1>0. Shape(l)
  BY FitShape
<1>1. (e + 1) % M = IF e + 1 < M THEN e + 1 ELSE 0
  <2>1. e + 1 \in Int /\ 0 <= e + 1 /\ e + 1 <= M /\ M \in Int /\ M > 1
    BY <1>0 DEF Shape
  <2> QED
    BY <2>1, RingIndex
<1>2. (IF e + 1 < M THEN e + 1 ELSE 0) = b <=> size(l) = ArraySize /\ b # -1
  BY <1>0 DEF Shape
<1>3. empty(l) <=> 1 = size(l) + 1
  <2>1. 1 \in 1 .. size(l) + 1
    BY <1>0 DEF Shape
  <2> QED
    BY <2>1, SlotOf DEF empty
<1>4. 1 = size(l) + 1 <=> size(l) = 0
  BY <1>0 DEF Shape
<1> QED
  BY <1>1, <1>2, <1>3, <1>4 DEF full

LEMMA NewListOK == /\ Fit(NewList) /\ size(NewList) = 0
                   /\ NewList.beginIndex = 0 /\ NewList.endIndex = 1
                   /\ Waiting(NewList) = <<>>
<1>1. /\ NewList \in Lists /\ NewList.beginIndex = 0 /\ NewList.endIndex = 1
  BY ArrayListAssumption DEF NewList, Lists, Slots, m_ArraySize
<1>2. size(NewList) = 0
  BY <1>1 DEF size
<1>3. Fit(NewList)
  BY <1>1, <1>2, ArrayListAssumption DEF Fit
<1>4. Len(Waiting(NewList)) = 0 /\ Waiting(NewList) \in Seq(Item \cup {Junk})
  BY <1>2, <1>3, WaitingType
<1> QED
  BY <1>1, <1>2, <1>3, <1>4

-----------------------------------------------------------------------------
(* What each method does to a ring that is Fit.                            *)

\* push_back (lines 97-111).
LEMMA PushBackOK ==
    ASSUME NEW l, Fit(l), NEW d \in Item, l.beginIndex = -1 => size(l) < ArraySize
    PROVE  LET r == push_back(l, d) IN
           /\ Fit(r.list) /\ r.list.beginIndex = l.beginIndex
           /\ size(l) = ArraySize => r.ret = 0 /\ r.list = l
           /\ size(l) < ArraySize => r.ret = 1 /\ Waiting(r.list) = Append(Waiting(l), d)
<1> DEFINE r == push_back(l, d)
           e == l.endIndex
           b == l.beginIndex
           M == m_ArraySize
<1>0. Shape(l)
  BY FitShape
<1>1. CASE full(l)
  <2>1. r.list = l /\ r.ret = 0
    BY <1>1 DEF push_back
  <2>2. size(l) = ArraySize
    BY <1>1, FullEmpty
  <2>3. ~(size(l) < ArraySize)
    BY <2>2, <1>0 DEF Shape
  <2> QED
    BY <2>1, <2>2, <2>3
<1>2. CASE ~full(l)
  <2>1. size(l) < ArraySize
    BY <1>2, FullEmpty, <1>0 DEF Shape
  <2>2. r.ret = 1 /\ r.list = [l EXCEPT !.m_DataArray[e] = d, !.endIndex = (e + 1) % M]
    BY <1>2 DEF push_back
  <2>3. (e + 1) % M = IF e + 1 < M THEN e + 1 ELSE 0
    <3>1. e + 1 \in Int /\ 0 <= e + 1 /\ e + 1 <= M /\ M \in Int /\ M > 1
      BY <1>0 DEF Shape
    <3> QED
      BY <3>1, RingIndex
  <2>4. (IF e + 1 < M THEN e + 1 ELSE 0) \in 0 .. M - 1
    BY <1>0 DEF Shape
  <2>5. /\ r.list \in Lists /\ r.list.beginIndex = b /\ r.list.endIndex = (e + 1) % M
        /\ r.list.m_DataArray = [l.m_DataArray EXCEPT ![e] = d]
    <3>1. (e + 1) % M \in Slots /\ e \in Slots
      BY <2>3, <2>4, <1>0 DEF Slots, Shape
    <3> QED
      BY <2>2, <3>1 DEF Fit, Lists
  <2>6. size(r.list) = size(l) + 1
    <3>1. size(r.list) = LET n == (IF e + 1 < M THEN e + 1 ELSE 0) - b - 1
                         IN  IF n < 0 THEN n + M ELSE n
      BY <2>3, <2>5 DEF size
    <3> QED
      BY <2>1, <3>1, <1>0 DEF Shape
  <2>7. Fit(r.list)
    <3>1. (IF e + 1 < M THEN e + 1 ELSE 0) # b
      BY <2>1, <1>0 DEF Shape
    <3> QED
      BY <2>1, <2>3, <2>5, <2>6, <3>1, <1>0 DEF Fit, Shape
  <2>8. Waiting(r.list) = Append(Waiting(l), d)
    <3> DEFINE s == Waiting(r.list)
               t == Append(Waiting(l), d)
               I == Item \cup {Junk}
    <3>1. s \in Seq(I) /\ Len(s) = size(l) + 1
      BY <2>6, <2>7, WaitingType
    <3>2. /\ t \in Seq(I) /\ Len(t) = size(l) + 1 /\ t[size(l) + 1] = d
          /\ \A i \in 1 .. size(l) : t[i] = Waiting(l)[i]
      BY WaitingType, AppendProperties
    <3>3. ASSUME NEW i \in 1 .. size(l) + 1 PROVE s[i] = t[i]
      <4>1. /\ s[i] = [l.m_DataArray EXCEPT ![e] = d][(b + i) % M]
            /\ (b + i) % M \in Slots /\ ((b + i) % M = e <=> i = size(l) + 1)
        <5>1. i \in 1 .. size(r.list) /\ i \in 1 .. size(l) + 1
          BY <2>6
        <5>2. s[i] = r.list.m_DataArray[(r.list.beginIndex + i) % M]
          BY <2>7, <5>1, WaitingType
        <5>3. /\ (b + i) % M \in Slots
              /\ (b + i) % M = e <=> i = size(l) + 1
          BY <5>1, SlotOf
        <5> QED
          BY <2>5, <5>2, <5>3
      <4>2. l.m_DataArray \in [Slots -> I]
        BY DEF Fit, Lists
      <4>3. CASE i = size(l) + 1
        BY <4>1, <4>2, <4>3, <3>2
      <4>4. CASE i # size(l) + 1
        <5>1. i \in 1 .. size(l)
          BY <4>4, <1>0 DEF Shape
        <5> QED
          BY <4>1, <4>2, <4>4, <5>1, <3>2, WaitingType
      <4> QED
        BY <4>3, <4>4
    <3> QED
      BY <3>1, <3>2, <3>3, SeqEqual
  <2> QED
    BY <2>1, <2>2, <2>5, <2>7, <2>8, <1>0 DEF Shape
<1> QED
  BY <1>1, <1>2

\* pop_front (lines 113-126); it also brings beginIndex back from -1.
LEMMA PopFrontOK ==
    ASSUME NEW l, Fit(l)
    PROVE  LET r == pop_front(l) IN
           /\ Fit(r.list)
           /\ size(l) = 0 => r.ret = 0 /\ r.list = l /\ r.out = <<>>
           /\ size(l) > 0 => /\ r.ret = 1 /\ r.list.beginIndex >= 0
                             /\ r.out = <<Head(Waiting(l))>>
                             /\ Waiting(r.list) = Tail(Waiting(l))
<1> DEFINE r == pop_front(l)
           e == l.endIndex
           b == l.beginIndex
           M == m_ArraySize
<1>0. Shape(l)
  BY FitShape
<1>1. CASE empty(l)
  <2>1. r.list = l /\ r.ret = 0 /\ r.out = <<>>
    BY <1>1 DEF pop_front
  <2>2. size(l) = 0
    BY <1>1, FullEmpty
  <2> QED
    BY <2>1, <2>2
<1>2. CASE ~empty(l)
  <2>1. size(l) > 0 /\ 1 \in 1 .. size(l)
    BY <1>2, FullEmpty, <1>0 DEF Shape
  <2>2. r.ret = 1 /\ r.list = [l EXCEPT !.beginIndex = (b + 1) % M]
        /\ r.out = <<l.m_DataArray[(b + 1) % M]>>
    BY <1>2 DEF pop_front
  <2>3. (b + 1) % M = IF b + 1 < M THEN b + 1 ELSE b + 1 - M
    BY <2>1, SlotOf, <1>0 DEF Shape
  <2>4. /\ r.list \in Lists /\ r.list.beginIndex = (b + 1) % M
        /\ r.list.endIndex = e /\ r.list.m_DataArray = l.m_DataArray
    <3>1. (b + 1) % M \in -1 .. M - 1
      BY <2>3, <1>0 DEF Shape
    <3> QED
      BY <2>2, <3>1 DEF Fit, Lists
  <2>5. size(r.list) = size(l) - 1
    <3>1. size(r.list) = LET n == e - (IF b + 1 < M THEN b + 1 ELSE b + 1 - M) - 1
                         IN  IF n < 0 THEN n + M ELSE n
      BY <2>3, <2>4 DEF size
    <3> QED
      BY <2>1, <3>1, <1>0 DEF Shape
  <2>6. Fit(r.list) /\ r.list.beginIndex >= 0
    <3>1. (IF b + 1 < M THEN b + 1 ELSE b + 1 - M) # e
          /\ (IF b + 1 < M THEN b + 1 ELSE b + 1 - M) >= 0
      BY <2>1, <1>0 DEF Shape
    <3> QED
      BY <2>3, <2>4, <2>5, <3>1, <1>0 DEF Fit, Shape
  <2>7. r.out = <<Head(Waiting(l))>>
    BY <2>1, <2>2, WaitingType
  <2>8. Waiting(r.list) = Tail(Waiting(l))
    <3> DEFINE s == Waiting(r.list)
               t == Tail(Waiting(l))
               I == Item \cup {Junk}
    <3>1. s \in Seq(I) /\ Len(s) = size(l) - 1
      BY <2>5, <2>6, WaitingType
    <3>2. /\ t \in Seq(I) /\ Len(t) = size(l) - 1
          /\ \A i \in 1 .. size(l) - 1 : t[i] = Waiting(l)[i + 1]
      BY <2>1, WaitingType, <1>0 DEF Shape
    <3>3. ASSUME NEW i \in 1 .. size(l) - 1 PROVE s[i] = t[i]
      <4>1. i \in 1 .. size(r.list) /\ i \in 1 .. size(r.list) + 1
            /\ i + 1 \in 1 .. size(l) /\ i + 1 \in 1 .. size(l) + 1
        BY <2>5, <1>0 DEF Shape
      <4>2. s[i] = l.m_DataArray[(((b + 1) % M) + i) % M]
        BY <2>4, <2>6, <4>1, WaitingType
      <4>3. t[i] = l.m_DataArray[(b + (i + 1)) % M]
        BY <3>2, <4>1, WaitingType
      <4>4. (((b + 1) % M) + i) % M = IF ((b + 1) % M) + i < M THEN ((b + 1) % M) + i
                                                          ELSE ((b + 1) % M) + i - M
        BY <2>4, <2>6, <4>1, SlotOf
      <4>5. (b + (i + 1)) % M = IF b + (i + 1) < M THEN b + (i + 1) ELSE b + (i + 1) - M
        BY <4>1, SlotOf
      <4>6. (IF ((b + 1) % M) + i < M THEN ((b + 1) % M) + i ELSE ((b + 1) % M) + i - M)
            = (IF b + (i + 1) < M THEN b + (i + 1) ELSE b + (i + 1) - M)
        <5>1. \A c \in Int : c = (IF b + 1 < M THEN b + 1 ELSE b + 1 - M) =>
                (IF c + i < M THEN c + i ELSE c + i - M)
                = (IF b + (i + 1) < M THEN b + (i + 1) ELSE b + (i + 1) - M)
          BY <4>1, <1>0 DEF Shape
        <5>2. (b + 1) % M \in Int
          BY <2>4 DEF Lists
        <5> QED
          BY <2>3, <5>1, <5>2
      <4> QED
        BY <4>2, <4>3, <4>4, <4>5, <4>6
    <3> QED
      BY <3>1, <3>2, <3>3, SeqEqual
  <2>9. size(l) # 0
    BY <2>1, <1>0 DEF Shape
  <2> HIDE DEF r
  <2> QED
    BY <2>1, <2>2, <2>6, <2>7, <2>8, <2>9 DEF r
<1> QED
  BY <1>1, <1>2

\* pop_all (lines 185-204): everything leaves, and beginIndex may become -1.
LEMMA PopAllOK ==
    ASSUME NEW l, Fit(l)
    PROVE  LET r == pop_all(l) IN
           /\ Fit(r.list) /\ Waiting(r.list) = <<>>
           /\ r.ret = size(l) /\ r.out = Waiting(l)
<1> DEFINE r == pop_all(l)
           e == l.endIndex
           b == l.beginIndex
           M == m_ArraySize
<1>0. Shape(l)
  BY FitShape
<1>1. (IF e > b THEN e - b - 1 ELSE M - b - 1 + e) = size(l)
  BY <1>0 DEF Shape
<1>2. /\ r.ret = size(l) /\ r.out = Waiting(l)
      /\ r.list = [l EXCEPT !.beginIndex = e - 1]
  BY <1>1 DEF pop_all, Waiting
<1>3. /\ r.list \in Lists /\ r.list.beginIndex = e - 1 /\ r.list.endIndex = e
  <2>1. e - 1 \in -1 .. M - 1
    BY <1>0 DEF Shape
  <2> QED
    BY <1>2, <2>1 DEF Fit, Lists
<1>4. size(r.list) = 0
  BY <1>3, <1>0 DEF size, Shape
<1>5. Fit(r.list)
  BY <1>3, <1>4, <1>0 DEF Fit, Shape
<1>6. Waiting(r.list) = <<>>
  BY <1>4, <1>5, WaitingType, EmptySeq
<1> QED
  BY <1>2, <1>5, <1>6

LEMMA BatchLength ==
    ASSUME NEW offer \in Batches
    PROVE  offer \in Seq(Item) /\ Len(offer) \in Nat /\ Len(offer) <= MaxBatch
BY ArrayListAssumption DEF Batches

\* push_all (lines 128-183) in one piece: n items are accepted, and item j goes
\* to the slot j - 1 places after endIndex, round the end of the memory.
LEMMA PushAllShape ==
    ASSUME NEW l, Fit(l), NEW offer \in Batches,
           l.beginIndex = -1 => size(l) + Len(offer) <= ArraySize
    PROVE  LET r == push_all(l, offer)
               n == Lesser(ArraySize - size(l), Len(offer))
               e == l.endIndex
               M == m_ArraySize IN
           /\ n \in Nat /\ n <= Len(offer) /\ size(l) + n <= ArraySize
           /\ ~push_all_crashes(l, offer)
           /\ r.ret = Len(offer) - n
           /\ r.list = [m_DataArray |->
                           [s \in Slots |->
                              IF e <= s /\ s < e + n THEN offer[1 + s - e]
                              ELSE IF s + M < e + n THEN offer[1 + s + M - e]
                              ELSE l.m_DataArray[s]],
                        beginIndex |-> l.beginIndex,
                        endIndex |-> IF e + n < M THEN e + n ELSE e + n - M]
<1> DEFINE r == push_all(l, offer)
           n == Lesser(ArraySize - size(l), Len(offer))
           e == l.endIndex
           b == l.beginIndex
           M == m_ArraySize
           L == Len(offer)
           first == IF e < b THEN b - e - 1 ELSE M - e - 1
           tail == WrapLength(l, offer)
<1>0. Shape(l)
  BY FitShape
<1>1. L \in Nat
  BY BatchLength
<1>2. n = (IF ArraySize - size(l) < L THEN ArraySize - size(l) ELSE L)
  BY DEF Lesser
<1>a. size(l) \in Int /\ 0 <= size(l) /\ size(l) <= ArraySize /\ ArraySize \in Int
  BY <1>0 DEF Shape
<1>b. /\ M \in Int /\ M = ArraySize + 2 /\ e \in Int /\ 0 <= e /\ e < M /\ b \in Int /\ -1 <= b /\ b < M /\ b # e
      /\ size(l) = IF e - b - 1 < 0 THEN e - b - 1 + M ELSE e - b - 1
  BY <1>0 DEF Shape
<1>c. b = -1 => size(l) + L <= ArraySize
  OBVIOUS
<1>3. n \in Nat /\ n <= L /\ size(l) + n <= ArraySize
  <2> HIDE DEF n, L
  <2> QED
    BY <1>1, <1>2, <1>a
<1>4. CASE FitsWithoutWrap(l, offer)
  <2>1. /\ r.ret = L - Lesser(first, L)
        /\ r.list = [l EXCEPT !.m_DataArray = memcpy(@, e, offer, 0, Lesser(first, L)),
                              !.endIndex = @ + Lesser(first, L)]
    BY <1>4 DEF push_all
  <2>2. Lesser(first, L) = n /\ e + n < M
    <3>1. (IF first < L THEN first ELSE L) = n /\ e + n < M
      <4>1. CASE e < b
        <5> HIDE DEF n, e, b, M, L
        <5>1. size(l) = e - b - 1 + M
          BY <1>b, <4>1
        <5> QED
          BY <1>1, <1>2, <4>1, <5>1, <1>a, <1>b
      <4>2. CASE ~(e < b) /\ b = 0
        <5> HIDE DEF n, e, b, M, L
        <5>1. size(l) = e - b - 1
          BY <1>b, <4>2
        <5> QED
          BY <1>1, <1>2, <4>2, <5>1, <1>a, <1>b
      <4>3. CASE ~(e < b) /\ b # 0 /\ M - e - 1 >= L
        <5> HIDE DEF n, e, b, M, L
        <5>1. size(l) = e - b - 1
          BY <1>b, <4>3
        <5>2. ArraySize - size(l) >= L
          BY <1>1, <4>3, <5>1, <1>a, <1>b, <1>c
        <5>3. n = L
          BY <1>1, <1>2, <5>2, <1>a
        <5> QED
          BY <1>1, <4>3, <5>3, <1>b
      <4> QED
        BY <1>4, <4>1, <4>2, <4>3, SMTT(60) DEF FitsWithoutWrap
    <3> QED
      BY <3>1 DEF Lesser
  <2>3. e + n < M
    BY <2>2
  <2>4. memcpy(l.m_DataArray, e, offer, 0, n) =
            [s \in Slots |-> IF e <= s /\ s < e + n THEN offer[1 + s - e]
                             ELSE IF s + M < e + n THEN offer[1 + s + M - e]
                             ELSE l.m_DataArray[s]]
    <3>1. ASSUME NEW s \in Slots
          PROVE  /\ s \in e .. e + n - 1 <=> e <= s /\ s < e + n
                 /\ ~(s + M < e + n)
                 /\ 0 + 1 + s - e = 1 + s - e
      <4>1. s \in Int /\ 0 <= s /\ e \in Int /\ n \in Int /\ M \in Int
        BY <1>3, <1>0 DEF Slots, Shape
      <4> QED
        BY <4>1, <2>3
    <3> QED
      BY <3>1, SMTT(60) DEF memcpy
  <2>5. l = [m_DataArray |-> l.m_DataArray, beginIndex |-> b, endIndex |-> e]
    BY DEF Fit, Lists
  <2>6. r.list = [m_DataArray |-> memcpy(l.m_DataArray, e, offer, 0, n),
                  beginIndex |-> b, endIndex |-> e + n]
    BY <2>1, <2>2, <2>5
  <2>7. ~push_all_crashes(l, offer)
    BY <1>4 DEF push_all_crashes
  <2> QED
    BY <1>3, <2>1, <2>2, <2>3, <2>4, <2>6, <2>7
<1>5. CASE ~FitsWithoutWrap(l, offer)
  <2>1. ~(e < b) /\ b # 0 /\ M - e - 1 < L
    BY <1>1, <1>5, <1>0 DEF FitsWithoutWrap, Shape
  <2>2. /\ r.ret = L - (M - e) - tail
        /\ r.list = [l EXCEPT !.m_DataArray =
                                  memcpy(memcpy(@, e, offer, 0, M - e), 0, offer, M - e, tail),
                              !.endIndex = tail]
    BY <1>5 DEF push_all
  <2>3. tail = IF b - 1 < L - (M - e) THEN b - 1 ELSE L - (M - e)
    BY DEF WrapLength, Lesser
  <2>4. tail \in Int /\ tail = e + n - M /\ tail >= 0 /\ tail < e
    <3> DEFINE z == size(l)
    <3>1. /\ b = -1 => z + L <= ArraySize
          /\ n = (IF ArraySize - z < L THEN ArraySize - z ELSE L)
      BY <1>2
    <3>2. L \in Int /\ n \in Int
      BY <1>1, <1>3
    <3>3. /\ ArraySize \in Int /\ M \in Int /\ e \in Int /\ b \in Int /\ z \in Int
          /\ M = ArraySize + 2 /\ 0 <= e /\ e < M /\ -1 <= b /\ b < M /\ b # e
          /\ z = IF e - b - 1 < 0 THEN e - b - 1 + M ELSE e - b - 1
      BY <1>0 DEF Shape
    <3> HIDE DEF n, L, tail, M, e, b, z
    <3>4. tail \in Int
      BY <2>3, <3>2, <3>3
    <3> QED
      BY <2>1, <2>3, <3>1, <3>2, <3>3, <3>4
  <2>5. memcpy(memcpy(l.m_DataArray, e, offer, 0, M - e), 0, offer, M - e, tail) =
            [s \in Slots |-> IF e <= s /\ s < e + n THEN offer[1 + s - e]
                             ELSE IF s + M < e + n THEN offer[1 + s + M - e]
                             ELSE l.m_DataArray[s]]
    <3>1. ASSUME NEW s \in Slots
          PROVE  /\ s \in e .. e + (M - e) - 1 <=> e <= s /\ s < e + n
                 /\ s \in 0 .. 0 + tail - 1 <=> s + M < e + n
                 /\ 0 + 1 + s - e = 1 + s - e
                 /\ (M - e) + 1 + s - 0 = 1 + s + M - e
                 /\ ~(e <= s /\ s + M < e + n)
      <4>1. /\ M \in Int /\ e \in Int /\ s \in Int /\ n \in Int
            /\ 0 <= e /\ e < M /\ 0 <= s /\ s < M
        BY <1>0, <1>3 DEF Slots, Shape
      <4>2. n <= L /\ L \in Int
        BY <1>1, <1>3
      <4> HIDE DEF n, L, tail, M, e
      <4> QED
        BY <2>4, <4>1, <4>2
    <3> QED
      BY <3>1 DEF memcpy
  <2>6. l = [m_DataArray |-> l.m_DataArray, beginIndex |-> b, endIndex |-> e]
    BY DEF Fit, Lists
  <2>7. r.list = [m_DataArray |->
                     memcpy(memcpy(l.m_DataArray, e, offer, 0, M - e), 0, offer, M - e, tail),
                  beginIndex |-> b, endIndex |-> tail]
    BY <2>2, <2>6
  <2>8. ~push_all_crashes(l, offer)
    BY <2>4, <1>0, <1>3 DEF push_all_crashes, Shape
  <2>9. L - (M - e) - tail = L - n /\ ~(e + n < M)
    <3>1. M \in Int /\ e \in Int
      BY <1>0 DEF Shape
    <3>2. L \in Int /\ n \in Int
      BY <1>1, <1>3
    <3> HIDE DEF n, L, tail, M, e
    <3> QED
      BY <2>4, <3>1, <3>2
  <2> QED
    BY <1>3, <2>2, <2>4, <2>5, <2>7, <2>8, <2>9
<1> QED
  BY <1>4, <1>5

\* push_all appends the longest prefix of the offer there is room for.
LEMMA PushAllOK ==
    ASSUME NEW l, Fit(l), NEW offer \in Batches,
           l.beginIndex = -1 => size(l) + Len(offer) <= ArraySize
    PROVE  LET r == push_all(l, offer)
               n == Lesser(ArraySize - size(l), Len(offer)) IN
           /\ ~push_all_crashes(l, offer)
           /\ Fit(r.list) /\ r.list.beginIndex = l.beginIndex
           /\ n \in Nat /\ n <= Len(offer) /\ r.ret = Len(offer) - n
           /\ Waiting(r.list) = Waiting(l) \o SubSeq(offer, 1, n)
<1> DEFINE r == push_all(l, offer)
           n == Lesser(ArraySize - size(l), Len(offer))
           e == l.endIndex
           b == l.beginIndex
           M == m_ArraySize
           z == size(l)
           I == Item \cup {Junk}
           arr == [s \in Slots |-> IF e <= s /\ s < e + n THEN offer[1 + s - e]
                                   ELSE IF s + M < e + n THEN offer[1 + s + M - e]
                                   ELSE l.m_DataArray[s]]
           end == IF e + n < M THEN e + n ELSE e + n - M
<1>1. /\ n \in Nat /\ n <= Len(offer) /\ z + n <= ArraySize
      /\ ~push_all_crashes(l, offer) /\ r.ret = Len(offer) - n
      /\ r.list = [m_DataArray |-> arr, beginIndex |-> b, endIndex |-> end]
  BY PushAllShape
<1>2. /\ ArraySize \in Int /\ M \in Int /\ e \in Int /\ b \in Int /\ z \in Int
      /\ M = ArraySize + 2 /\ 0 <= e /\ e < M /\ -1 <= b /\ b < M /\ b # e /\ 0 <= z
      /\ z = IF e - b - 1 < 0 THEN e - b - 1 + M ELSE e - b - 1
  BY FitShape DEF Shape
<1>3. offer \in Seq(Item) /\ Len(offer) \in Nat
  BY BatchLength
<1>4. /\ end \in 0 .. M - 1 /\ end # b
      /\ (IF end - b - 1 < 0 THEN end - b - 1 + M ELSE end - b - 1) = z + n
  <2>1. n \in Int /\ 0 <= n /\ z + n <= ArraySize
    BY <1>1
  <2> HIDE DEF n, e, b, M, z
  <2> QED
    BY <1>2, <2>1
<1>5. r.list \in Lists
  <2>1. ASSUME NEW s \in Slots
        PROVE  arr[s] \in I
    <3>1. s \in Int /\ n \in Int /\ n <= Len(offer) /\ 0 <= s /\ s < M
      BY <1>1, <1>2 DEF Slots
    <3>2. CASE e <= s /\ s < e + n
      <4>1. 1 + s - e \in 1 .. Len(offer)
        <5> HIDE DEF n, e, M
        <5> QED
          BY <1>2, <1>3, <3>1, <3>2
      <4> QED
        BY <1>3, <3>2, <4>1, ElementOfSeq
    <3>3. CASE ~(e <= s /\ s < e + n) /\ s + M < e + n
      <4>1. 1 + s + M - e \in 1 .. Len(offer)
        <5> HIDE DEF n, e, M
        <5> QED
          BY <1>2, <1>3, <3>1, <3>3
      <4> QED
        BY <1>3, <3>3, <4>1, ElementOfSeq
    <3>4. CASE ~(e <= s /\ s < e + n) /\ ~(s + M < e + n)
      BY <3>4 DEF Fit, Lists
    <3> QED
      BY <3>2, <3>3, <3>4
  <2>2. arr \in [Slots -> I]
    BY <2>1
  <2>3. b \in -1 .. M - 1 /\ end \in Slots
    BY <1>2, <1>4 DEF Slots
  <2> HIDE DEF arr, end, b
  <2> QED
    BY <1>1, <2>2, <2>3 DEF Lists
<1>6. size(r.list) = z + n
  <2>1. r.list.beginIndex = b /\ r.list.endIndex = end
    BY <1>1
  <2> HIDE DEF end, b, r, n, z
  <2> QED
    BY <1>4, <2>1 DEF size
<1>7. Fit(r.list) /\ r.list.beginIndex = b /\ r.list.m_DataArray = arr
  <2>1. r.list.beginIndex = b /\ r.list.endIndex = end /\ r.list.m_DataArray = arr
    BY <1>1
  <2> HIDE DEF end, b, r, n, z, arr
  <2> QED
    BY <1>1, <1>4, <1>5, <1>6, <2>1 DEF Fit
<1>8. Waiting(r.list) = Waiting(l) \o SubSeq(offer, 1, n)
  <2> DEFINE s == Waiting(r.list)
             w == Waiting(l)
             u == SubSeq(offer, 1, n)
             t == w \o u
  <2>1. s \in Seq(I) /\ Len(s) = z + n
    BY <1>6, <1>7, WaitingType
  <2>2. w \in Seq(I) /\ Len(w) = z
    BY WaitingType
  <2>3. /\ u \in Seq(I) /\ Len(u) = n
        /\ \A i \in 1 .. n : u[i] = offer[i]
    <3>1. 1 \in Int /\ n \in Int /\ \A i \in 1 .. n : offer[i] \in I
      <4>1. \A i \in 1 .. n : i \in 1 .. Len(offer)
        BY <1>1, <1>3
      <4> QED
        BY <1>1, <1>3, <4>1, ElementOfSeq
    <3> HIDE DEF n, I
    <3>2. /\ u \in Seq(I) /\ Len(u) = IF 1 <= n THEN n - 1 + 1 ELSE 0
          /\ \A i \in 1 .. n - 1 + 1 : u[i] = offer[1 + i - 1]
      BY <3>1, SubSeqProperties
    <3> QED
      BY <1>1, <3>1, <3>2
  <2>4. /\ t \in Seq(I) /\ Len(t) = z + n
        /\ \A i \in 1 .. z + n : t[i] = IF i <= z THEN w[i] ELSE u[i - z]
    BY <2>2, <2>3, ConcatProperties, SMTT(60)
  <2>5. ASSUME NEW i \in 1 .. z + n
        PROVE  s[i] = t[i]
    <3> DEFINE at == (b + i) % M
    <3>1. i \in 1 .. size(r.list) /\ i \in 1 .. size(r.list) + 1
      BY <1>1, <1>2, <1>6
    <3>2. s[i] = arr[at] /\ at \in Slots
      BY <1>7, <3>1, WaitingType, SlotOf
    <3>3. at = IF b + i < M THEN b + i ELSE b + i - M
      BY <1>7, <3>1, SlotOf
    <3>4. /\ at \in Int /\ i \in Int /\ n \in Int /\ 0 <= n /\ z + n <= ArraySize
          /\ 1 <= i /\ i <= z + n /\ 0 <= at /\ at < M
      BY <1>1, <1>2, <3>2 DEF Slots
    <3>5. CASE i <= z
      <4>1. ~(e <= at /\ at < e + n) /\ ~(at + M < e + n)
        <5> HIDE DEF n, e, b, M, z, at
        <5> QED
          BY <1>2, <3>3, <3>4, <3>5
      <4>2. arr[at] = l.m_DataArray[at]
        <5> HIDE DEF n, e, b, M, z, at
        <5> QED
          BY <3>2, <4>1
      <4>3. w[i] = l.m_DataArray[at]
        <5>1. i \in 1 .. size(l)
          BY <1>2, <3>4, <3>5
        <5> QED
          BY <5>1, WaitingType
      <4> QED
        BY <2>4, <3>2, <3>5, <4>2, <4>3
    <3>6. CASE ~(i <= z)
      <4>1. /\ i - z \in 1 .. n
            /\ \/ (e <= at /\ at < e + n) /\ 1 + at - e = i - z
               \/ ~(e <= at /\ at < e + n) /\ at + M < e + n /\ 1 + at + M - e = i - z
        <5> HIDE DEF n, e, b, M, z, at
        <5> QED
          BY <1>2, <3>3, <3>4, <3>6
      <4>2. arr[at] = offer[i - z]
        <5> HIDE DEF n, e, b, M, z, at
        <5> QED
          BY <3>2, <4>1
      <4> QED
        BY <2>3, <2>4, <3>2, <3>6, <4>1, <4>2
    <3> QED
      BY <3>5, <3>6
  <2> HIDE DEF s, t, z, n, I
  <2>6. s = t
    BY <2>1, <2>4, <2>5, SeqEqual
  <2> QED
    BY <2>6 DEF s, t
<1> QED
  BY <1>1, <1>7, <1>8

-----------------------------------------------------------------------------
(* A ring that pop_all left with beginIndex = -1: it takes one item more   *)
(* than it is made for, and the next one empties it.                       *)

Behind(l) == l \in Lists /\ l.beginIndex = -1

\* Every ring its methods lead to.
Loose(l) == Fit(l) \/ Behind(l)

\* The waiting items of such a ring are those in front of endIndex.
LEMMA BehindWaiting ==
    ASSUME NEW l, Behind(l)
    PROVE  /\ l.endIndex \in Int /\ 0 <= l.endIndex /\ l.endIndex < m_ArraySize
           /\ m_ArraySize = ArraySize + 2 /\ ArraySize \in Nat
           /\ size(l) = l.endIndex
           /\ Waiting(l) \in Seq(Item \cup {Junk}) /\ Len(Waiting(l)) = l.endIndex
           /\ \A i \in 1 .. l.endIndex : Waiting(l)[i] = l.m_DataArray[i - 1]
<1> DEFINE e == l.endIndex
           M == m_ArraySize
<1>1. /\ ArraySize \in Nat /\ M \in Int /\ M = ArraySize + 2
      /\ e \in 0 .. M - 1 /\ e \in Int /\ 0 <= e /\ e < M /\ l.beginIndex = -1
      /\ l.m_DataArray \in [0 .. M - 1 -> Item \cup {Junk}]
  BY ArrayListAssumption DEF Behind, Lists, Slots, m_ArraySize
<1>2. size(l) = e
  BY <1>1 DEF size
<1>3. ASSUME NEW i \in 1 .. e
      PROVE  (l.beginIndex + i) % M = i - 1 /\ i - 1 \in 0 .. M - 1
  <2>1. l.beginIndex + i = i - 1 /\ i - 1 \in Int /\ 0 <= i - 1 /\ i - 1 < M
    BY <1>1
  <2>2. i - 1 < 2 * M /\ i - 1 \in 0 .. M - 1
    BY <1>1, <2>1
  <2>3. (i - 1) % M = i - 1
    BY <2>1, <2>2, RingIndex
  <2> HIDE DEF M
  <2> QED
    BY <2>1, <2>2, <2>3
<1>4. Waiting(l) = [i \in 1 .. e |-> l.m_DataArray[(l.beginIndex + i) % M]]
  BY <1>2 DEF Waiting
<1>5. \A i \in 1 .. e : /\ Waiting(l)[i] = l.m_DataArray[i - 1]
                        /\ Waiting(l)[i] \in Item \cup {Junk}
  BY <1>1, <1>3, <1>4
<1>6. Waiting(l) \in Seq(Item \cup {Junk}) /\ Len(Waiting(l)) = e
  <2>1. Waiting(l) \in [1 .. e -> Item \cup {Junk}] /\ e \in Nat
    BY <1>1, <1>4, <1>5
  <2> QED
    BY <2>1
<1> QED
  BY <1>1, <1>2, <1>5, <1>6

LEMMA LooseWaiting ==
    ASSUME NEW l, Loose(l)
    PROVE  Waiting(l) \in Seq(Item \cup {Junk}) /\ l \in Lists
  BY WaitingType, BehindWaiting DEF Loose, Fit, Behind

\* push_back stores the item, finds the ring full, or runs endIndex round to
\* zero, which makes a ring with beginIndex = -1 look empty.
LEMMA PushBackLoose ==
    ASSUME NEW l, Loose(l), NEW d \in Item
    PROVE  LET r == push_back(l, d) IN
           /\ Loose(r.list) /\ r.list.beginIndex = l.beginIndex
           /\ \/ r.ret = 0 /\ Waiting(r.list) = Waiting(l)
              \/ r.ret = 1 /\ Waiting(r.list) = Append(Waiting(l), d)
              \/ r.ret = 1 /\ l.beginIndex = -1 /\ Waiting(r.list) = <<>>
<1> DEFINE r == push_back(l, d)
           e == l.endIndex
           M == m_ArraySize
           I == Item \cup {Junk}
<1>1. CASE l.beginIndex # -1
  <2>1. Fit(l) /\ size(l) <= ArraySize /\ size(l) \in Int /\ ArraySize \in Int
    BY <1>1, FitShape DEF Loose, Behind, Shape
  <2>2. size(l) = ArraySize \/ size(l) < ArraySize
    BY <2>1
  <2>3. Fit(r.list) /\ r.list.beginIndex = l.beginIndex
    BY <1>1, <2>1, PushBackOK
  <2>4. size(l) = ArraySize => r.ret = 0 /\ r.list = l
    BY <1>1, <2>1, PushBackOK
  <2>5. size(l) < ArraySize => r.ret = 1 /\ Waiting(r.list) = Append(Waiting(l), d)
    BY <1>1, <2>1, PushBackOK
  <2> QED
    BY <2>2, <2>3, <2>4, <2>5 DEF Loose
<1>2. CASE l.beginIndex = -1
  <2>0. Behind(l)
    BY <1>2 DEF Loose, Fit, Behind
  <2>1. /\ e \in Int /\ 0 <= e /\ e < M /\ M = ArraySize + 2 /\ ArraySize \in Nat
        /\ Waiting(l) \in Seq(I) /\ Len(Waiting(l)) = e
        /\ \A i \in 1 .. e : Waiting(l)[i] = l.m_DataArray[i - 1]
    BY <2>0, BehindWaiting
  <2>2. /\ e + 1 \in Int /\ 0 <= e + 1 /\ e + 1 <= M /\ M \in Int /\ M > 1
        /\ (IF e + 1 < M THEN e + 1 ELSE 0) >= 0
        /\ (IF e + 1 < M THEN e + 1 ELSE 0) \in 0 .. M - 1
    BY <2>1
  <2>3. (e + 1) % M = IF e + 1 < M THEN e + 1 ELSE 0
    <3>1. e + 1 \in Int /\ 0 <= e + 1 /\ e + 1 <= M /\ M \in Int /\ M > 1
      BY <2>2
    <3> QED
      BY <3>1, RingIndex
  <2>4. ~full(l)
    BY <1>2, <2>2, <2>3 DEF full
  <2>5. /\ r.ret = 1
        /\ r.list = [l EXCEPT !.m_DataArray[e] = d, !.endIndex = (e + 1) % M]
    BY <2>4 DEF push_back
  <2>6. /\ r.list = [m_DataArray |-> [l.m_DataArray EXCEPT ![e] = d],
                     beginIndex |-> -1, endIndex |-> (e + 1) % M]
    BY <1>2, <2>0, <2>5 DEF Behind, Lists
  <2>7. Behind(r.list) /\ r.list.endIndex = (e + 1) % M /\ r.list.m_DataArray = [l.m_DataArray EXCEPT ![e] = d]
    <3>1. (e + 1) % M \in Slots /\ e \in Slots
      BY <2>1, <2>2, <2>3 DEF Slots
    <3>2. l.m_DataArray \in [Slots -> I]
      BY <2>0 DEF Behind, Lists
    <3>3. [l.m_DataArray EXCEPT ![e] = d] \in [Slots -> I]
      BY <3>1, <3>2
    <3>4. -1 \in -1 .. M - 1
      BY <2>1
    <3> QED
      BY <2>6, <3>1, <3>3, <3>4 DEF Behind, Lists
  <2>8. CASE e + 1 < M
    <3>1. r.list.endIndex = e + 1
      BY <2>3, <2>7, <2>8
    <3>2. /\ Waiting(r.list) \in Seq(I) /\ Len(Waiting(r.list)) = e + 1
          /\ \A i \in 1 .. e + 1 : Waiting(r.list)[i] = r.list.m_DataArray[i - 1]
      BY <2>7, <3>1, BehindWaiting
    <3>3. /\ Append(Waiting(l), d) \in Seq(I) /\ Len(Append(Waiting(l), d)) = e + 1
          /\ \A i \in 1 .. e : Append(Waiting(l), d)[i] = Waiting(l)[i]
          /\ Append(Waiting(l), d)[e + 1] = d
      BY <2>1, AppendProperties
    <3>4. ASSUME NEW i \in 1 .. e + 1
          PROVE  Waiting(r.list)[i] = Append(Waiting(l), d)[i]
      <4>1. l.m_DataArray \in [Slots -> I] /\ i - 1 \in Slots
        BY <2>0, <2>1 DEF Behind, Lists, Slots
      <4>2. CASE i = e + 1
        BY <2>7, <3>2, <3>3, <4>1, <4>2, <2>1
      <4>3. CASE i # e + 1
        <5>1. i \in 1 .. e /\ i - 1 # e
          BY <4>3, <2>1
        <5>2. r.list.m_DataArray[i - 1] = l.m_DataArray[i - 1]
          BY <2>7, <4>1, <5>1
        <5> QED
          BY <2>1, <3>2, <3>3, <5>1, <5>2
      <4> QED
        BY <4>2, <4>3
    <3>5. Waiting(r.list) = Append(Waiting(l), d)
      BY <3>2, <3>3, <3>4, SeqEqual
    <3> QED
      BY <2>5, <2>6, <2>7, <3>5, <1>2 DEF Loose
  <2>9. CASE ~(e + 1 < M)
    <3>1. r.list.endIndex = 0
      BY <2>1, <2>3, <2>7, <2>9
    <3>2. Waiting(r.list) \in Seq(I) /\ Len(Waiting(r.list)) = 0
      BY <2>7, <3>1, BehindWaiting
    <3>3. Waiting(r.list) = <<>>
      BY <3>2, EmptySeq
    <3> QED
      BY <2>5, <2>6, <2>7, <3>3, <1>2 DEF Loose
  <2> QED
    BY <2>8, <2>9
<1> QED
  BY <1>1, <1>2

\* push_all, where it does not crash, appends what it says it has stored.
LEMMA PushAllLoose ==
    ASSUME NEW l, Loose(l), NEW offer \in Batches, ~push_all_crashes(l, offer)
    PROVE  LET r == push_all(l, offer) IN
           /\ Loose(r.list) /\ r.list.beginIndex = l.beginIndex
           /\ \E n \in 0 .. Len(offer) :
                 /\ r.ret = Len(offer) - n
                 /\ Waiting(r.list) = Waiting(l) \o SubSeq(offer, 1, n)
<1> DEFINE r == push_all(l, offer)
           e == l.endIndex
           M == m_ArraySize
           L == Len(offer)
           I == Item \cup {Junk}
<1>0. offer \in Seq(Item) /\ L \in Nat
  BY BatchLength
<1>1. CASE l.beginIndex # -1
  <2> DEFINE n == Lesser(ArraySize - size(l), L)
  <2>1. Fit(l)
    BY <1>1 DEF Loose, Behind
  <2>2. /\ Fit(r.list) /\ r.list.beginIndex = l.beginIndex
        /\ n \in Nat /\ n <= L /\ r.ret = L - n
        /\ Waiting(r.list) = Waiting(l) \o SubSeq(offer, 1, n)
    BY <1>1, <2>1, PushAllOK
  <2>3. n \in 0 .. L
    BY <1>0, <2>2
  <2> QED
    BY <2>2, <2>3 DEF Loose
<1>2. CASE l.beginIndex = -1
  <2>0. Behind(l)
    BY <1>2 DEF Loose, Fit, Behind
  <2>1. /\ e \in Int /\ 0 <= e /\ e < M /\ M = ArraySize + 2 /\ ArraySize \in Nat
        /\ Waiting(l) \in Seq(I) /\ Len(Waiting(l)) = e
        /\ \A i \in 1 .. e : Waiting(l)[i] = l.m_DataArray[i - 1]
    BY <2>0, BehindWaiting
  <2>2. WrapLength(l, offer) < 0
    <3>1. WrapLength(l, offer) = IF -1 - 1 < L - (M - e) THEN -1 - 1 ELSE L - (M - e)
      BY <1>2 DEF WrapLength, Lesser
    <3> QED
      BY <1>0, <2>1, <3>1
  <2>3. FitsWithoutWrap(l, offer)
    BY <2>2 DEF push_all_crashes
  <2>4. M - e - 1 >= L /\ ~(e < l.beginIndex)
    BY <1>2, <2>1, <2>3 DEF FitsWithoutWrap
  <2>5. Lesser(M - e - 1, L) = L
    BY <1>0, <2>1, <2>4 DEF Lesser
  <2>6. /\ r.ret = L - L
        /\ r.list = [l EXCEPT !.m_DataArray = memcpy(@, e, offer, 0, L), !.endIndex = @ + L]
    BY <2>3, <2>4, <2>5 DEF push_all
  <2>7. r.list = [m_DataArray |-> memcpy(l.m_DataArray, e, offer, 0, L),
                  beginIndex |-> -1, endIndex |-> e + L]
    BY <1>2, <2>0, <2>6 DEF Behind, Lists
  <2>8. ASSUME NEW s \in Slots
        PROVE  memcpy(l.m_DataArray, e, offer, 0, L)[s]
                  = IF e <= s /\ s < e + L THEN offer[1 + s - e] ELSE l.m_DataArray[s]
    <3>1. s \in e .. e + L - 1 <=> e <= s /\ s < e + L
      BY <1>0, <2>1 DEF Slots
    <3>2. 0 + 1 + s - e = 1 + s - e
      BY <2>1 DEF Slots
    <3> QED
      BY <3>1, <3>2 DEF memcpy
  <2>9. Behind(r.list) /\ r.list.endIndex = e + L
    <3>1. ASSUME NEW s \in Slots PROVE memcpy(l.m_DataArray, e, offer, 0, L)[s] \in I
      <4>1. CASE e <= s /\ s < e + L
        <5>1. 1 + s - e \in 1 .. L
          BY <1>0, <2>1, <4>1 DEF Slots
        <5> QED
          BY <1>0, <2>8, <4>1, <5>1, ElementOfSeq
      <4>2. CASE ~(e <= s /\ s < e + L)
        BY <2>0, <2>8, <4>2 DEF Behind, Lists
      <4> QED
        BY <4>1, <4>2
    <3>2. memcpy(l.m_DataArray, e, offer, 0, L) \in [Slots -> I]
      BY <3>1 DEF memcpy
    <3>3. e + L \in Slots /\ -1 \in -1 .. M - 1
      BY <1>0, <2>1, <2>4 DEF Slots
    <3> QED
      BY <2>7, <3>2, <3>3 DEF Behind, Lists
  <2>10. /\ Waiting(r.list) \in Seq(I) /\ Len(Waiting(r.list)) = e + L
         /\ \A i \in 1 .. e + L : Waiting(r.list)[i] = r.list.m_DataArray[i - 1]
    BY <2>9, BehindWaiting
  <2>11. offer \in Seq(I)
    BY <1>0, SeqMonotonic
  <2>12. /\ Waiting(l) \o offer \in Seq(I) /\ Len(Waiting(l) \o offer) = e + L
         /\ \A i \in 1 .. e + L : (Waiting(l) \o offer)[i] =
                IF i <= e THEN Waiting(l)[i] ELSE offer[i - e]
    <3>1. /\ Waiting(l) \o offer \in Seq(I)
          /\ Len(Waiting(l) \o offer) = Len(Waiting(l)) + L
          /\ \A i \in 1 .. Len(Waiting(l)) + L : (Waiting(l) \o offer)[i] =
                 IF i <= Len(Waiting(l)) THEN Waiting(l)[i] ELSE offer[i - Len(Waiting(l))]
      BY <2>1, <2>11, ConcatProperties
    <3>2. Len(Waiting(l)) = e
      BY <2>1
    <3> HIDE DEF e, L
    <3> QED
      BY <3>1, <3>2
  <2>13. ASSUME NEW i \in 1 .. e + L
         PROVE  Waiting(r.list)[i] = (Waiting(l) \o offer)[i]
    <3>1. i - 1 \in Slots /\ i \in Int
      BY <1>0, <2>1, <2>4 DEF Slots
    <3>2. Waiting(r.list)[i] = IF e <= i - 1 /\ i - 1 < e + L THEN offer[1 + (i - 1) - e]
                               ELSE l.m_DataArray[i - 1]
      BY <2>7, <2>8, <2>10, <3>1
    <3>3. CASE i <= e
      <4>1. ~(e <= i - 1) /\ i \in 1 .. e
        BY <2>1, <3>1, <3>3
      <4> QED
        BY <2>1, <2>12, <3>2, <3>3, <4>1
    <3>4. CASE ~(i <= e)
      <4>1. e <= i - 1 /\ i - 1 < e + L /\ 1 + (i - 1) - e = i - e
        BY <1>0, <2>1, <3>1, <3>4
      <4> QED
        BY <2>12, <3>2, <3>4, <4>1
    <3> QED
      BY <3>3, <3>4
  <2>14. Waiting(r.list) = Waiting(l) \o offer
    BY <2>10, <2>12, <2>13, SeqEqual
  <2>15. SubSeq(offer, 1, L) = offer
    BY <1>0, SubSeqFull
  <2>16. L \in 0 .. L
    BY <1>0
  <2> QED
    BY <1>2, <2>6, <2>7, <2>9, <2>14, <2>15, <2>16 DEF Loose
<1> QED
  BY <1>1, <1>2

\* What pop_front hands out was the first of what was waiting.
LEMMA PopFrontLoose ==
    ASSUME NEW l, Loose(l)
    PROVE  LET r == pop_front(l) IN
           /\ Loose(r.list) /\ r.ret \in Int /\ r.out \in Seq(Item \cup {Junk})
           /\ Waiting(l) = r.out \o Waiting(r.list)
<1> DEFINE r == pop_front(l)
           e == l.endIndex
           M == m_ArraySize
           I == Item \cup {Junk}
<1>0. Waiting(l) \in Seq(I)
  BY LooseWaiting
<1>1. r.ret \in Int
  BY DEF pop_front
<1>2. CASE Fit(l)
  <2>1. Fit(r.list) /\ size(l) \in Nat /\ Len(Waiting(l)) = size(l)
    BY <1>2, PopFrontOK, FitShape, WaitingType DEF Shape
  <2>2. CASE size(l) = 0
    <3>1. r.list = l /\ r.out = <<>>
      BY <1>2, <2>2, PopFrontOK
    <3> QED
      BY <1>0, <1>1, <2>1, <3>1, EmptySeq, ConcatEmptySeq DEF Loose
  <2>3. CASE size(l) > 0
    <3>1. r.out = <<Head(Waiting(l))>> /\ Waiting(r.list) = Tail(Waiting(l))
      BY <1>2, <2>3, PopFrontOK
    <3>2. Waiting(l) # <<>>
      BY <2>1, <2>3
    <3>3. Head(Waiting(l)) \in I /\ Waiting(l) = <<Head(Waiting(l))>> \o Tail(Waiting(l))
      BY <1>0, <3>2
    <3> QED
      BY <1>1, <2>1, <3>1, <3>3 DEF Loose
  <2>4. size(l) = 0 \/ size(l) > 0
    BY <2>1
  <2> QED
    BY <2>2, <2>3, <2>4
<1>3. CASE Behind(l)
  <2>1. /\ e \in Int /\ 0 <= e /\ e < M /\ M = ArraySize + 2 /\ ArraySize \in Nat
        /\ Waiting(l) \in Seq(I) /\ Len(Waiting(l)) = e /\ l.beginIndex = -1
        /\ \A i \in 1 .. e : Waiting(l)[i] = l.m_DataArray[i - 1]
    BY <1>3, BehindWaiting DEF Behind
  <2>2. (l.beginIndex + 1) % M = 0
    <3>1. l.beginIndex + 1 = 0 /\ 0 < M /\ M \in Int /\ 0 <= 0 /\ 0 < 2 * M
      BY <2>1
    <3>2. 0 % M = 0
      BY <3>1, RingIndex
    <3> QED
      BY <3>1, <3>2
  <2>3. CASE e = 0
    <3>1. r.list = l /\ r.out = <<>>
      BY <2>2, <2>3 DEF pop_front, empty
    <3> QED
      BY <1>0, <1>1, <3>1, <1>3, EmptySeq, ConcatEmptySeq DEF Loose
  <2>4. CASE e # 0
    <3>1. r.list = [l EXCEPT !.beginIndex = 0] /\ r.out = <<l.m_DataArray[0]>>
      BY <2>2, <2>4 DEF pop_front, empty
    <3>2. /\ r.list \in Lists /\ r.list.beginIndex = 0 /\ r.list.endIndex = e
          /\ r.list.m_DataArray = l.m_DataArray
      <4>1. 0 \in -1 .. M - 1
        BY <2>1
      <4> QED
        BY <1>3, <3>1, <4>1 DEF Behind, Lists
    <3>3. size(r.list) = e - 1
      <4>1. ~(e - 0 - 1 < 0) /\ e - 0 - 1 = e - 1
        BY <2>1, <2>4
      <4> QED
        BY <3>2, <4>1 DEF size
    <3>4. Fit(r.list) /\ Waiting(r.list) \in Seq(I) /\ Len(Waiting(r.list)) = e - 1
      <4>1. e - 1 <= ArraySize
        BY <2>1
      <4>2. Fit(r.list)
        BY <2>4, <3>2, <3>3, <4>1 DEF Fit
      <4> QED
        BY <3>3, <4>2, WaitingType
    <3>5. \A i \in 1 .. e - 1 : Waiting(r.list)[i] = l.m_DataArray[(0 + i) % M]
      BY <3>2, <3>3, <3>4, WaitingType
    <3>6. ASSUME NEW i \in 1 .. e - 1
          PROVE  Waiting(r.list)[i] = Waiting(l)[i + 1]
      <4>1. 0 + i = i /\ i \in Int /\ 0 <= i /\ i < M /\ i < 2 * M /\ i + 1 \in 1 .. e /\ i + 1 - 1 = i
        BY <2>1
      <4>2. i % M = i
        BY <4>1, RingIndex
      <4>3. Waiting(r.list)[i] = l.m_DataArray[i]
        BY <3>5, <4>1, <4>2
      <4> QED
        BY <2>1, <4>1, <4>3
    <3>7. /\ Head(Waiting(l)) = l.m_DataArray[0] /\ Head(Waiting(l)) \in I
          /\ Waiting(l) = <<Head(Waiting(l))>> \o Tail(Waiting(l))
          /\ Tail(Waiting(l)) \in Seq(I) /\ Len(Tail(Waiting(l))) = e - 1
          /\ \A i \in 1 .. e - 1 : Tail(Waiting(l))[i] = Waiting(l)[i + 1]
      <4>1. Waiting(l) # <<>> /\ 1 \in 1 .. e /\ 1 - 1 = 0
        BY <2>1, <2>4
      <4>2. Head(Waiting(l)) = Waiting(l)[1]
        BY <2>1, <4>1
      <4>3. /\ Head(Waiting(l)) \in I /\ Tail(Waiting(l)) \in Seq(I)
            /\ Len(Tail(Waiting(l))) = e - 1
            /\ \A i \in 1 .. e - 1 : Tail(Waiting(l))[i] = Waiting(l)[i + 1]
        BY <2>1, <4>1, HeadTailProperties
      <4>4. Waiting(l) = <<Head(Waiting(l))>> \o Tail(Waiting(l))
        BY <2>1, <4>1
      <4> QED
        BY <2>1, <4>1, <4>2, <4>3, <4>4
    <3>8. Waiting(r.list) = Tail(Waiting(l))
      BY <3>4, <3>6, <3>7, SeqEqual
    <3>9. r.out \in Seq(I)
      BY <3>1, <3>7
    <3> QED
      BY <1>1, <3>1, <3>4, <3>7, <3>8, <3>9 DEF Loose
  <2> QED
    BY <2>3, <2>4
<1> QED
  BY <1>2, <1>3 DEF Loose

\* pop_all hands out everything that was waiting.
LEMMA PopAllLoose ==
    ASSUME NEW l, Loose(l)
    PROVE  LET r == pop_all(l) IN
           /\ Loose(r.list) /\ r.ret \in Int /\ r.out \in Seq(Item \cup {Junk})
           /\ Waiting(l) = r.out \o Waiting(r.list)
<1> DEFINE r == pop_all(l)
           e == l.endIndex
           M == m_ArraySize
           I == Item \cup {Junk}
<1>0. Waiting(l) \in Seq(I)
  BY LooseWaiting
<1>1. Fit(r.list) /\ Waiting(r.list) = <<>> /\ r.out = Waiting(l)
  <2>1. CASE Fit(l)
    BY <2>1, PopAllOK
  <2>2. CASE Behind(l)
    <3>1. /\ e \in Int /\ 0 <= e /\ e < M /\ M = ArraySize + 2 /\ ArraySize \in Nat
          /\ l.beginIndex = -1 /\ size(l) = e
      BY <2>2, BehindWaiting DEF Behind
    <3>2. e > -1 /\ e - -1 - 1 = e
      BY <3>1
    <3>3. /\ r.list = [l EXCEPT !.beginIndex = e - 1]
          /\ r.out = [i \in 1 .. e |-> l.m_DataArray[(l.beginIndex + i) % M]]
      BY <3>1, <3>2 DEF pop_all
    <3>4. r.out = Waiting(l)
      BY <3>1, <3>3 DEF Waiting
    <3>5. r.list \in Lists /\ r.list.beginIndex = e - 1 /\ r.list.endIndex = e
      <4>1. e - 1 \in -1 .. M - 1
        BY <3>1
      <4> QED
        BY <2>2, <3>3, <4>1 DEF Behind, Lists
    <3>6. size(r.list) = 0
      <4>1. ~(e - (e - 1) - 1 < 0) /\ e - (e - 1) - 1 = 0
        BY <3>1
      <4> QED
        BY <3>5, <4>1 DEF size
    <3>7. Fit(r.list)
      <4>1. e - 1 # e /\ 0 <= ArraySize
        BY <3>1
      <4> QED
        BY <3>5, <3>6, <4>1 DEF Fit
    <3>8. Waiting(r.list) = <<>>
      BY <3>6, <3>7, WaitingType, EmptySeq
    <3> QED
      BY <3>4, <3>7, <3>8
  <2> QED
    BY <2>1, <2>2 DEF Loose
<1>2. r.ret \in Int
  <2>1. e \in Int /\ l.beginIndex \in Int /\ M \in Int
    BY ArrayListAssumption, LooseWaiting DEF Lists, Slots, m_ArraySize
  <2> QED
    BY <2>1 DEF pop_all
<1> QED
  BY <1>0, <1>1, <1>2, ConcatEmptySeq DEF Loose

\* Both pops return how many items they copied out.
LEMMA PopsCount ==
    ASSUME NEW l, Loose(l)
    PROVE  /\ pop_front(l).ret = Len(pop_front(l).out)
           /\ pop_all(l).ret = Len(pop_all(l).out)
<1> DEFINE e == l.endIndex
           b == l.beginIndex
           M == m_ArraySize
           num == IF e > b THEN e - b - 1 ELSE M - b - 1 + e
           copied_ == [i \in 1 .. num |-> l.m_DataArray[(b + i) % M]]
<1>1. pop_front(l).ret = Len(pop_front(l).out)
  <2>1. Len(<<>>) = 0 /\ \A x : Len(<<x>>) = 1
    OBVIOUS
  <2> QED
    BY <2>1 DEF pop_front
<1>2. num \in Nat
  <2>1. CASE Fit(l)
    <3>1. Shape(l)
      BY <2>1, FitShape
    <3> QED
      BY <3>1 DEF Shape
  <2>2. CASE Behind(l)
    BY <2>2, BehindWaiting DEF Behind
  <2> QED
    BY <2>1, <2>2 DEF Loose
<1>3. pop_all(l).ret = num /\ pop_all(l).out = copied_
  BY DEF pop_all
<1>4. Len(copied_) = num
  <2> DEFINE n == num
  <2>1. n \in Nat
    BY <1>2
  <2> HIDE DEF n
  <2>2. Len([i \in 1 .. n |-> l.m_DataArray[(b + i) % M]]) = n
    BY <2>1
  <2> QED
    BY <2>2 DEF n
<1> QED
  BY <1>1, <1>3, <1>4


-----------------------------------------------------------------------------
(* The object under its client.  ClientTypeOK alone is not inductive: the  *)
(* indices stay apart only because at most ArraySize of the ArraySize + 2  *)
(* slots are in use (Fit), and beginIndex = -1 is harmless only because    *)
(* pop_all leaves it to a client that asks size() before it offers.        *)

PacedBehind == ring.beginIndex = -1 => client = "paced"

ClientInv == ClientTypeOK /\ Fit(ring) /\ PacedBehind

\* What the client's discipline gives the lemmas above.
LEMMA OffersFit ==
    ASSUME ClientInv, NEW n, Offers(n)
    PROVE  ring.beginIndex = -1 => size(ring) + n <= ArraySize
BY DEF ClientInv, PacedBehind, Offers

LEMMA ClientInitOK == ClientInit => ClientInv
<1> SUFFICES ASSUME ClientInit PROVE ClientInv
  OBVIOUS
<1>1. ring = NewList /\ Fit(ring) /\ ring.beginIndex = 0
  BY NewListOK DEF ClientInit
<1>2. ClientTypeOK
  BY <1>1, EmptySeq DEF ClientInit, ClientTypeOK, Fit
<1> QED
  BY <1>1, <1>2 DEF ClientInv, PacedBehind

\* The steps of the client, as steps of the queue they implement.
LEMMA PushBackStep ==
    ASSUME ClientInv, NEW d \in Item, PushBack(d)
    PROVE  ClientInv' /\ Queue!Put(d)
<1> DEFINE r == push_back(ring, d)
<1>1. ring.beginIndex = -1 => size(ring) < ArraySize
  <2>1. size(ring) \in Int /\ ArraySize \in Int
    BY FitShape DEF ClientInv, Shape
  <2> QED
    BY <2>1, OffersFit DEF PushBack
<1>2. Fit(ring)
  BY DEF ClientInv
<1>3. /\ Fit(r.list) /\ r.list.beginIndex = ring.beginIndex
      /\ size(ring) = ArraySize => r.ret = 0 /\ r.list = ring
      /\ size(ring) < ArraySize => r.ret = 1 /\ Waiting(r.list) = Append(Waiting(ring), d)
  BY <1>1, <1>2, PushBackOK
<1>4. size(ring) = ArraySize \/ size(ring) < ArraySize
  BY <1>2, FitShape DEF Shape
<1>5. ring' = r.list /\ answer' = r.ret /\ copied' = <<>> /\ client' = client
  BY DEF PushBack
<1> HIDE DEF r
<1>6. ClientInv'
  <2>1. ClientTypeOK'
    BY <1>3, <1>4, <1>5, EmptySeq DEF ClientInv, ClientTypeOK, Fit
  <2> QED
    BY <1>3, <1>5, <2>1 DEF ClientInv, PacedBehind
<1>7. Queue!Put(d)
  <2>1. Len(Waiting(ring)) = size(ring) /\ size(ring) \in Int /\ ArraySize \in Int
    BY <1>2, WaitingType, FitShape DEF Shape
  <2>2. CASE size(ring) = ArraySize
    BY <1>3, <1>5, <2>1, <2>2 DEF Queue!Put, Queue!Room
  <2>3. CASE size(ring) < ArraySize
    BY <1>3, <1>5, <2>1, <2>3 DEF Queue!Put, Queue!Room
  <2> QED
    BY <1>4, <2>2, <2>3
<1> QED
  BY <1>6, <1>7

LEMMA PopFrontStep ==
    ASSUME ClientInv, PopFront
    PROVE  ClientInv' /\ Queue!Take
<1> DEFINE r == pop_front(ring)
           I == Item \cup {Junk}
<1>1. Fit(ring)
  BY DEF ClientInv
<1>2. /\ Fit(r.list)
      /\ size(ring) = 0 => r.ret = 0 /\ r.list = ring /\ r.out = <<>>
      /\ size(ring) > 0 => /\ r.ret = 1 /\ r.list.beginIndex >= 0
                           /\ r.out = <<Head(Waiting(ring))>>
                           /\ Waiting(r.list) = Tail(Waiting(ring))
  BY <1>1, PopFrontOK
<1>3. ring' = r.list /\ answer' = r.ret /\ copied' = r.out /\ client' = client
  BY DEF PopFront
<1>4. /\ Waiting(ring) \in Seq(I) /\ Len(Waiting(ring)) = size(ring)
      /\ size(ring) \in Int /\ 0 <= size(ring)
  BY <1>1, WaitingType, FitShape DEF Shape
<1> HIDE DEF r
<1>5. CASE size(ring) = 0
  <2>1. Waiting(ring) = <<>>
    BY <1>4, <1>5, EmptySeq
  <2>2. ClientTypeOK' /\ PacedBehind'
    <3>1. ring' = ring /\ answer' = 0 /\ copied' = <<>>
      BY <1>2, <1>3, <1>5
    <3> QED
      BY <3>1, <1>3, EmptySeq DEF ClientInv, ClientTypeOK, PacedBehind
  <2> QED
    BY <1>2, <1>3, <1>5, <2>1, <2>2 DEF ClientInv, Queue!Take
<1>6. CASE size(ring) > 0
  <2>1. Waiting(ring) # <<>> /\ Head(Waiting(ring)) \in I
    BY <1>4, <1>6, EmptySeq, HeadTailProperties
  <2>2. ring'.beginIndex # -1
    BY <1>2, <1>3, <1>6 DEF Fit, Lists
  <2>3. copied' \in Seq(I)
    <3>1. copied' = <<Head(Waiting(ring))>>
      BY <1>2, <1>3, <1>6
    <3>2. \A x \in I : <<x>> \in Seq(I)
      OBVIOUS
    <3> QED
      BY <2>1, <3>1, <3>2
  <2>4. ClientTypeOK' /\ PacedBehind'
    BY <1>2, <1>3, <1>6, <2>2, <2>3 DEF ClientInv, ClientTypeOK, PacedBehind, Fit
  <2> QED
    BY <1>2, <1>3, <1>6, <2>1, <2>4 DEF ClientInv, Queue!Take
<1> QED
  BY <1>4, <1>5, <1>6

LEMMA PushAllStep ==
    ASSUME ClientInv, NEW offer \in Batches, PushAll(offer)
    PROVE  ClientInv' /\ Queue!PutAll(offer)
<1> DEFINE r == push_all(ring, offer)
           n == Lesser(ArraySize - size(ring), Len(offer))
<1>1. Fit(ring) /\ (ring.beginIndex = -1 => size(ring) + Len(offer) <= ArraySize)
  BY OffersFit DEF ClientInv, PushAll
<1>2. /\ Fit(r.list) /\ r.list.beginIndex = ring.beginIndex
      /\ n \in Nat /\ n <= Len(offer) /\ r.ret = Len(offer) - n
      /\ Waiting(r.list) = Waiting(ring) \o SubSeq(offer, 1, n)
  BY <1>1, PushAllOK
<1>3. ring' = r.list /\ answer' = r.ret /\ copied' = <<>> /\ client' = client
  BY DEF PushAll
<1>4. Len(Waiting(ring)) = size(ring) /\ Len(offer) \in Nat
  BY <1>1, WaitingType, BatchLength
<1>5. Len(offer) - n \in Nat
  BY <1>2, <1>4
<1>6. Queue!Lesser(Queue!Room, Len(offer)) = n
  BY <1>4 DEF Queue!Lesser, Queue!Room, Lesser
<1> HIDE DEF r, n
<1>7. ClientTypeOK' /\ PacedBehind'
  BY <1>2, <1>3, <1>5, EmptySeq DEF ClientInv, ClientTypeOK, PacedBehind, Fit
<1> QED
  BY <1>2, <1>3, <1>6, <1>7 DEF ClientInv, Queue!PutAll

LEMMA PopAllStep ==
    ASSUME ClientInv, PopAll
    PROVE  ClientInv' /\ Queue!TakeAll
<1> DEFINE r == pop_all(ring)
<1>1. Fit(ring)
  BY DEF ClientInv
<1>2. /\ Fit(r.list) /\ Waiting(r.list) = <<>>
      /\ r.ret = size(ring) /\ r.out = Waiting(ring)
  BY <1>1, PopAllOK
<1>3. ring' = r.list /\ answer' = r.ret /\ copied' = r.out /\ client = "paced" /\ client' = client
  BY DEF PopAll
<1>4. /\ Waiting(ring) \in Seq(Item \cup {Junk}) /\ Len(Waiting(ring)) = size(ring)
      /\ size(ring) \in Nat
  BY <1>1, WaitingType, FitShape DEF Shape
<1> HIDE DEF r
<1>5. ClientTypeOK' /\ PacedBehind'
  BY <1>2, <1>3, <1>4 DEF ClientInv, ClientTypeOK, PacedBehind, Fit
<1> QED
  BY <1>2, <1>3, <1>4, <1>5 DEF ClientInv, Queue!TakeAll

LEMMA ReInitStep ==
    ASSUME ClientInv, ReInit
    PROVE  ClientInv' /\ Queue!Discard
<1>1. ring' = NewList /\ answer' = 0 /\ copied' = <<>> /\ client' = client
  BY DEF ReInit
<1>2. Fit(NewList) /\ NewList.beginIndex = 0 /\ Waiting(NewList) = <<>>
  BY NewListOK
<1>3. ClientTypeOK' /\ PacedBehind'
  BY <1>1, <1>2, EmptySeq DEF ClientInv, ClientTypeOK, PacedBehind, Fit
<1> QED
  BY <1>1, <1>2, <1>3 DEF ClientInv, Queue!Discard

LEMMA NextStep ==
    ASSUME ClientInv, [ClientNext]_clientVars
    PROVE  ClientInv' /\ [Queue!Next]_(Queue!vars)
<1>1. ASSUME NEW d \in Item, PushBack(d) PROVE ClientInv' /\ Queue!Next
  BY <1>1, PushBackStep DEF Queue!Next
<1>2. ASSUME NEW offer \in Batches, PushAll(offer) PROVE ClientInv' /\ Queue!Next
  BY <1>2, PushAllStep DEF Queue!Next, Queue!Batches, Batches
<1>3. CASE PopFront
  BY <1>3, PopFrontStep DEF Queue!Next
<1>4. CASE PopAll
  BY <1>4, PopAllStep DEF Queue!Next
<1>5. CASE ReInit
  BY <1>5, ReInitStep DEF Queue!Next
<1>6. CASE UNCHANGED clientVars
  <2>1. ClientInv'
    BY <1>6 DEF ClientInv, ClientTypeOK, PacedBehind, Fit, size, clientVars
  <2>2. UNCHANGED Queue!vars
    BY <1>6 DEF clientVars, Queue!vars, Waiting, size
  <2> QED
    BY <2>1, <2>2
<1> QED
  BY <1>1, <1>2, <1>3, <1>4, <1>5, <1>6 DEF ClientNext

\* Every reachable state satisfies the inductive invariant.
THEOREM Invariance == ClientSpec => []ClientInv
<1>1. ClientInv /\ [ClientNext]_clientVars => ClientInv'
  BY NextStep
<1> QED
  BY ClientInitOK, <1>1, PTL DEF ClientSpec

\* All fields keep their types; endIndex never leaves the ring.
THEOREM TypeCorrect == ClientSpec => []ClientTypeOK
<1>1. ClientInv => ClientTypeOK
  BY DEF ClientInv
<1> QED
  BY Invariance, <1>1, PTL

\* For every ArraySize: size() stays within bounds, empty() agrees with it, and
\* full() agrees with it except while beginIndex is -1, when full() never holds.
THEOREM IndexTestsCorrect == ClientSpec => []IndexTestsSound
<1>1. ClientInv => IndexTestsSound
  <2> SUFFICES ASSUME ClientInv PROVE IndexTestsSound
    OBVIOUS
  <2>1. Fit(ring)
    BY DEF ClientInv
  <2>2. size(ring) \in 0 .. ArraySize
    BY <2>1, FitShape DEF Shape
  <2> QED
    BY <2>1, <2>2, FullEmpty DEF IndexTestsSound
<1> QED
  BY Invariance, <1>1, PTL

\* The undefined copy in push_all is out of reach of both disciplines.
THEOREM CopiesCorrect == ClientSpec => []NoWildCopy
<1>1. ClientInv => NoWildCopy
  <2> SUFFICES ASSUME ClientInv, NEW offer \in Batches, Offers(Len(offer))
               PROVE  ~push_all_crashes(ring, offer)
    BY DEF NoWildCopy
  <2>1. Fit(ring) /\ (ring.beginIndex = -1 => size(ring) + Len(offer) <= ArraySize)
    BY OffersFit DEF ClientInv
  <2> QED
    BY <2>1, PushAllOK
<1> QED
  BY Invariance, <1>1, PTL

\* The ring implements the bounded FIFO queue, for every ArraySize and any items.
THEOREM Refinement == ClientSpec => ImplementsBoundedQueue
<1>1. ClientInit => Queue!Init
  BY NewListOK DEF ClientInit, Queue!Init
<1>2. ClientInv /\ [ClientNext]_clientVars => [Queue!Next]_(Queue!vars)
  BY NextStep
<1> QED
  BY Invariance, <1>1, <1>2, PTL DEF ClientSpec, ImplementsBoundedQueue, Queue!Spec

Items == Item \cup {Junk}

\* taken holds items of stored in their order, each at most once (HandedInOrder
\* is InOrder(handed, accepted)).
InOrder(taken, stored) ==
    \E kept \in SUBSET (1 .. Len(stored)) :
        /\ Cardinality(kept) = Len(taken)
        /\ \A i \in kept : taken[Cardinality({j \in kept : j <= i})] = stored[i]

-----------------------------------------------------------------------------
(* Sequences in order.                                                     *)

\* Concatenation associates.
LEMMA Regrouped ==
    ASSUME NEW S, NEW s \in Seq(S), NEW t \in Seq(S), NEW u \in Seq(S)
    PROVE  s \o (t \o u) = (s \o t) \o u
  BY ConcatAssociative, SMTT(60)

\* The items of a set of positions: there are at most as many before one of
\* them as in all.
LEMMA Ranks ==
    ASSUME NEW n \in Nat, NEW kept \in SUBSET (1 .. n), NEW i \in kept
    PROVE  /\ IsFiniteSet(kept) /\ Cardinality(kept) \in Nat
           /\ Cardinality({j \in kept : j <= i}) \in 1 .. Cardinality(kept)
<1> DEFINE upto == {j \in kept : j <= i}
<1>1. IsFiniteSet(kept) /\ Cardinality(kept) \in Nat
  <2>1. 1 \in Int /\ n \in Int
    OBVIOUS
  <2>2. IsFiniteSet(1 .. n)
    BY <2>1, FS_Interval
  <2> QED
    BY <2>2, FS_Subset, FS_CardinalityType
<1>2. /\ IsFiniteSet(upto) /\ Cardinality(upto) \in Nat
      /\ Cardinality(upto) <= Cardinality(kept)
  <2>1. upto \in SUBSET kept
    OBVIOUS
  <2> QED
    BY <1>1, <2>1, FS_Subset, FS_CardinalityType
<1>3. i \in upto
  BY DEF upto
<1>4. Cardinality(upto) # 0
  BY <1>2, <1>3, FS_EmptySet
<1> QED
  BY <1>1, <1>2, <1>4

\* What is stored behind and never handed out disturbs no order.
LEMMA OrderSkips ==
    ASSUME NEW S, NEW h \in Seq(S), NEW x \in Seq(S), NEW y \in Seq(S), InOrder(h, x)
    PROVE  InOrder(h, x \o y)
<1>1. PICK kept \in SUBSET (1 .. Len(x)) :
         /\ Cardinality(kept) = Len(h)
         /\ \A i \in kept : h[Cardinality({j \in kept : j <= i})] = x[i]
  BY DEF InOrder
<1>2. /\ Len(x) \in Nat /\ Len(y) \in Nat /\ Len(x \o y) = Len(x) + Len(y)
      /\ \A i \in 1 .. Len(x) + Len(y) :
            (x \o y)[i] = IF i <= Len(x) THEN x[i] ELSE y[i - Len(x)]
  BY ConcatProperties
<1>3. \A i \in 1 .. Len(x) : i \in 1 .. Len(x) + Len(y) /\ i <= Len(x)
  BY <1>2
<1>4. kept \in SUBSET (1 .. Len(x \o y))
  BY <1>1, <1>2, <1>3
<1>5. \A i \in kept : x[i] = (x \o y)[i]
  BY <1>1, <1>2, <1>3
<1> QED
  BY <1>1, <1>4, <1>5 DEF InOrder

\* What is handed out next was stored behind all that was handed out before.
LEMMA OrderTakes ==
    ASSUME NEW S, NEW h \in Seq(S), NEW x \in Seq(S), NEW y \in Seq(S), InOrder(h, x)
    PROVE  InOrder(h \o y, x \o y)
<1>1. PICK kept \in SUBSET (1 .. Len(x)) :
         /\ Cardinality(kept) = Len(h)
         /\ \A i \in kept : h[Cardinality({j \in kept : j <= i})] = x[i]
  BY DEF InOrder
<1> DEFINE m == Len(h)
           n == Len(x)
           k == Len(y)
           more == n + 1 .. n + k
           all == kept \cup more
           Upto(i) == {j \in all : j <= i}
<1>2. /\ m \in Nat /\ n \in Nat /\ k \in Nat
      /\ Len(h \o y) = m + k /\ Len(x \o y) = n + k
      /\ \A i \in 1 .. n + k : (x \o y)[i] = IF i <= n THEN x[i] ELSE y[i - n]
      /\ \A i \in 1 .. m + k : (h \o y)[i] = IF i <= m THEN h[i] ELSE y[i - m]
  BY ConcatProperties
<1>3. IsFiniteSet(kept) /\ Cardinality(kept) = m
  <2>1. 1 \in Int /\ n \in Int
    BY <1>2
  <2>2. IsFiniteSet(1 .. n)
    BY <2>1, FS_Interval
  <2> QED
    BY <1>1, <2>2, FS_Subset
<1>4. ASSUME NEW i \in n .. n + k
      PROVE  Cardinality(kept \cup (n + 1 .. i)) = m + (i - n)
  <2>1. i \in Int /\ n + 1 \in Int /\ n <= i
    BY <1>2
  <2>2. IsFiniteSet(n + 1 .. i) /\ Cardinality(n + 1 .. i) = i - n
    <3>1. (IF n + 1 > i THEN 0 ELSE i - (n + 1) + 1) = i - n
      BY <1>2, <2>1
    <3> QED
      BY <2>1, <3>1, FS_Interval
  <2>3. kept \cap (n + 1 .. i) = {}
    BY <1>1, <1>2, <2>1
  <2>4. Cardinality({}) = 0
    BY FS_EmptySet
  <2>5. Cardinality(kept \cup (n + 1 .. i)) = m + (i - n) - 0
    <3> DEFINE new == n + 1 .. i
    <3>1. /\ IsFiniteSet(new) /\ Cardinality(new) = i - n
          /\ kept \cap new = {}
      BY <2>2, <2>3
    <3> HIDE DEF new
    <3>2. Cardinality(kept \cup new)
             = Cardinality(kept) + Cardinality(new) - Cardinality(kept \cap new)
      BY <1>3, <3>1, FS_Union
    <3>3. Cardinality(kept \cup new) = m + (i - n) - 0
      BY <1>3, <2>4, <3>1, <3>2
    <3> QED
      BY <3>3 DEF new
  <2> QED
    BY <1>2, <2>1, <2>5
<1>5. all \in SUBSET (1 .. Len(x \o y))
  <2>1. \A i \in all : i \in 1 .. n + k
    BY <1>1, <1>2
  <2> QED
    BY <1>2, <2>1
<1>6. Cardinality(all) = Len(h \o y)
  <2>1. n + k \in n .. n + k /\ m + ((n + k) - n) = m + k
    BY <1>2
  <2>2. Cardinality(all) = m + ((n + k) - n)
    BY <1>4, <2>1
  <2> QED
    BY <1>2, <2>1, <2>2
<1>7. ASSUME NEW i \in all
      PROVE  (h \o y)[Cardinality(Upto(i))] = (x \o y)[i]
  <2>1. CASE i \in kept
    <3>1. i \in 1 .. n /\ i <= n /\ i \in 1 .. n + k
      BY <1>1, <1>2, <2>1
    <3>2. Upto(i) = {j \in kept : j <= i}
      <4>1. \A j \in more : ~(j <= i)
        BY <1>2, <3>1
      <4> QED
        BY <4>1
    <3>3. Cardinality(Upto(i)) \in 1 .. m
      BY <1>1, <1>2, <2>1, <3>2, Ranks
    <3>4. Cardinality(Upto(i)) \in 1 .. m + k /\ Cardinality(Upto(i)) <= m
      <4> DEFINE c == Cardinality(Upto(i))
      <4>1. c \in 1 .. m
        BY <3>3
      <4> HIDE DEF c, m, k
      <4> QED
        BY <1>2, <4>1 DEF c
    <3>5. h[Cardinality(Upto(i))] = x[i]
      BY <1>1, <2>1, <3>2
    <3> HIDE DEF Upto, m, n, k
    <3> QED
      BY <1>2, <3>1, <3>4, <3>5
  <2>2. CASE i \in more
    <3>1. i \in n .. n + k /\ i \in 1 .. n + k /\ ~(i <= n) /\ i \in Int
      BY <1>2, <2>2
    <3>2. Upto(i) = kept \cup (n + 1 .. i)
      <4>1. \A j \in kept : j <= i /\ j \in Int
        BY <1>1, <1>2, <3>1
      <4>2. \A j \in more : j <= i <=> j \in n + 1 .. i
        BY <1>2, <3>1
      <4>3. \A j \in n + 1 .. i : j \in more
        BY <1>2, <3>1
      <4> HIDE DEF more
      <4> QED
        BY <4>1, <4>2, <4>3
    <3>3. Cardinality(Upto(i)) = m + (i - n)
      BY <1>4, <3>1, <3>2
    <3>4. /\ m + (i - n) \in 1 .. m + k /\ ~(m + (i - n) <= m)
          /\ (m + (i - n)) - m = i - n
      BY <1>2, <3>1
    <3>5. (h \o y)[m + (i - n)] = y[i - n]
      BY <1>2, <3>4
    <3>6. (x \o y)[i] = y[i - n]
      BY <1>2, <3>1
    <3> QED
      BY <3>3, <3>5, <3>6
  <2> QED
    BY <2>1, <2>2
<1> QED
  BY <1>5, <1>6, <1>7 DEF InOrder

-----------------------------------------------------------------------------
(* The inductive invariant.                                                *)

\* A sender at the list has items to store.
BatchOK ==
    /\ sent \in [Senders -> Nat]
    /\ batch \in [Senders -> [items : Batches, array : BOOLEAN]]
    /\ \A s \in Senders : pc[s] \in {"lock", "push"} =>
           batch[s].array \/ Len(batch[s].items) = 1

\* The list is one that its methods lead to.
ListOK == Loose(list) /\ (list.beginIndex = -1 => behind)

\* What was accepted is what left the list, in order, and what waits in it; and
\* only a list that was left with beginIndex at -1 drops what it accepted, and
\* only a pop_all into a buffer for one item hands out less than it takes.
HistoryOK ==
    /\ accepted \in Seq(Items) /\ handed \in Seq(Items) /\ behind \in BOOLEAN /\ spilt \in BOOLEAN
    /\ \E left \in Seq(Items) :
          /\ accepted = left \o Waiting(list)
          /\ InOrder(handed, left)
          /\ ~behind /\ ~spilt => left = handed

\* What a call returned and handed out.
AnswersOK == ret \in [Threads -> Int] /\ got \in [Receivers -> Seq(Items)]

HInv == ThreadsOK /\ AnswersOK /\ BatchOK /\ ListOK /\ HistoryOK

\* A send, and what it does to the list.
LEMMA SendStep ==
    ASSUME HInv, NEW s \in Senders, HSend(s)
    PROVE  HInv'
<1>1. PICK n \in 1 .. MaxBatch, array \in BOOLEAN :
         /\ sent[s] + n <= MaxSend
         /\ MsgSend(s, [i \in 1 .. n |-> <<s, sent[s] + i>>], array)
         /\ sent' = [sent EXCEPT ![s] = @ + n]
  BY DEF HSend
<1> DEFINE items == [i \in 1 .. n |-> <<s, sent[s] + i>>]
<1>2. /\ pc[s] = "idle" /\ pc' = [pc EXCEPT ![s] = "lock"]
      /\ array \/ Len(items) = 1
      /\ batch' = [batch EXCEPT ![s] = [items |-> items, array |-> array]]
      /\ UNCHANGED <<list, m_lock, m_cv_lock, m_condition, call, timedOut, ret, got, crashed>>
      /\ UNCHANGED <<accepted, handed, behind, spilt>>
  BY <1>1 DEF MsgSend, Goto, HSend
<1>3. items \in Batches
  <2>1. sent[s] \in Nat /\ MaxSend \in Nat /\ n \in Int /\ MaxBatch \in Nat
    BY ArrayListAssumption, HistoryAssumption DEF HInv, BatchOK
  <2>2. \A i \in 1 .. n : sent[s] + i \in 1 .. MaxSend
    BY <1>1, <2>1
  <2>3. \A i \in 1 .. n : <<s, sent[s] + i>> \in Item
    BY <2>2, HistoryAssumption
  <2>4. items \in [1 .. n -> Item]
    BY <2>3
  <2>5. n \in 0 .. MaxBatch
    BY <2>1
  <2> HIDE DEF items
  <2> QED
    BY <2>4, <2>5 DEF Batches
<1> HIDE DEF items
<1>4. s \in Threads /\ pc \in [Threads -> {"idle", "lock", "push", "notify",
                                           "pop", "cv", "blocked", "lock2", "pop2"}]
  BY DEF HInv, ThreadsOK, Threads
<1>5. ThreadsOK' /\ AnswersOK'
  BY <1>2, <1>4 DEF HInv, ThreadsOK, AnswersOK
<1>6. BatchOK'
  <2>1. sent' \in [Senders -> Nat]
    BY <1>1 DEF HInv, BatchOK
  <2>2. batch' \in [Senders -> [items : Batches, array : BOOLEAN]]
    BY <1>2, <1>3 DEF HInv, BatchOK
  <2>3. ASSUME NEW q \in Senders, pc'[q] \in {"lock", "push"}
        PROVE  batch'[q].array \/ Len(batch'[q].items) = 1
    <3>1. CASE q = s
      BY <1>2, <3>1 DEF HInv, BatchOK
    <3>2. CASE q # s
      BY <1>2, <1>4, <2>3, <3>2 DEF HInv, BatchOK
    <3> QED
      BY <3>1, <3>2
  <2> QED
    BY <2>1, <2>2, <2>3 DEF BatchOK
<1>7. ListOK' /\ HistoryOK'
  BY <1>2 DEF HInv, ListOK, HistoryOK
<1> QED
  BY <1>5, <1>6, <1>7 DEF HInv

\* The items that were stored are on the list, unless a list with beginIndex
\* at -1 ran round.
LEMMA StoredKept ==
    ASSUME HInv, NEW stored \in Seq(Item), Loose(list'), list'.beginIndex = list.beginIndex,
           accepted' = accepted \o stored, handed' = handed, behind' = behind, spilt' = spilt,
           \/ Waiting(list') = Waiting(list) \o stored
           \/ list.beginIndex = -1 /\ Waiting(list') = <<>>
    PROVE  ListOK' /\ HistoryOK'
<1>1. PICK left \in Seq(Items) :
         /\ accepted = left \o Waiting(list)
         /\ InOrder(handed, left)
         /\ ~behind /\ ~spilt => left = handed
  BY DEF HInv, HistoryOK
<1>2. stored \in Seq(Items) /\ Waiting(list) \in Seq(Items) /\ accepted \in Seq(Items)
      /\ handed \in Seq(Items)
  BY SeqMonotonic, LooseWaiting DEF HInv, ListOK, HistoryOK, Items
<1>3. ListOK'
  BY DEF HInv, ListOK
<1>4. accepted' \in Seq(Items)
  BY <1>2, ConcatProperties
<1>5. CASE Waiting(list') = Waiting(list) \o stored
  <2>1. accepted' = left \o Waiting(list')
    <3>1. left \o (Waiting(list) \o stored) = (left \o Waiting(list)) \o stored
      <4> DEFINE waits == Waiting(list)
      <4>1. waits \in Seq(Items)
        BY <1>2
      <4> HIDE DEF waits
      <4>2. left \o (waits \o stored) = (left \o waits) \o stored
        BY <1>2, <4>1, Regrouped, SMTT(60)
      <4> QED
        BY <4>2 DEF waits
    <3> QED
      BY <1>1, <1>5, <3>1
  <2> QED
    BY <1>1, <1>2, <1>3, <1>4, <2>1 DEF HistoryOK, HInv
<1>6. CASE list.beginIndex = -1 /\ Waiting(list') = <<>>
  <2>1. accepted' = accepted' \o Waiting(list')
    BY <1>4, <1>6, ConcatEmptySeq
  <2>2. InOrder(handed, accepted)
    BY <1>1, <1>2, OrderSkips
  <2>3. InOrder(handed, accepted')
    BY <1>2, <2>2, OrderSkips
  <2>4. behind
    BY <1>6 DEF HInv, ListOK
  <2> QED
    BY <1>2, <1>3, <1>4, <2>1, <2>3, <2>4 DEF HistoryOK, HInv
<1> QED
  BY <1>5, <1>6

LEMMA PushStep ==
    ASSUME HInv, NEW s \in Senders, HPush(s)
    PROVE  HInv'
<1> DEFINE b == batch[s]
<1>1. /\ pc[s] = "push" /\ pc' = [pc EXCEPT ![s] = "notify"] /\ m_lock' = None
      /\ UNCHANGED <<m_cv_lock, m_condition, batch, call, timedOut, sent, handed, behind, spilt>>
  BY DEF HPush, Push, Goto
<1>2. s \in Threads /\ pc \in [Threads -> {"idle", "lock", "push", "notify",
                                           "pop", "cv", "blocked", "lock2", "pop2"}]
  BY DEF HInv, ThreadsOK, Threads
<1>3. b.items \in Batches /\ b.array \in BOOLEAN /\ (b.array \/ Len(b.items) = 1)
      /\ b.items \in Seq(Item) /\ Len(b.items) \in Nat
  BY <1>1, BatchLength DEF HInv, BatchOK
<1>4. crashed' \in BOOLEAN
  BY DEF HPush, Push, HInv, ThreadsOK
<1>5. ThreadsOK' /\ BatchOK'
  <2>1. pc' \in [Threads -> {"idle", "lock", "push", "notify",
                             "pop", "cv", "blocked", "lock2", "pop2"}]
    BY <1>1, <1>2
  <2>2. \A q \in Senders : q \in Threads /\ (pc'[q] \in {"lock", "push"} => pc'[q] = pc[q])
    BY <1>1, <1>2 DEF Threads
  <2> QED
    BY <1>1, <1>4, <2>1, <2>2 DEF HInv, ThreadsOK, BatchOK
<1>6. /\ Loose(list) /\ Waiting(list) \in Seq(Items)
      /\ accepted \in Seq(Items) /\ ret \in [Threads -> Int] /\ got' = got
  BY LooseWaiting DEF HInv, ListOK, HistoryOK, AnswersOK, Items, HPush, Push
<1>7. CASE crashed'
  <2>1. accepted' = accepted /\ list' = list /\ ret' = ret
    <3>1. CASE ~b.array /\ Store(s, push_back(list, b.items[1])) /\ UNCHANGED crashed
      BY <1>7, <3>1 DEF HPush, Push, Goto
    <3>2. CASE b.array /\ Store(s, push_all(list, b.items)) /\ UNCHANGED crashed
      BY <1>7, <3>2 DEF HPush, Push, Goto
    <3>3. CASE UNCHANGED <<list, ret>>
      BY <1>7, <3>3 DEF HPush
    <3> QED
      BY <3>1, <3>2, <3>3 DEF HPush, Push
  <2> QED
    BY <1>1, <1>5, <1>6, <2>1 DEF HInv, AnswersOK, ListOK, HistoryOK
<1>8. CASE ~b.array /\ Store(s, push_back(list, b.items[1])) /\ ~crashed'
  <2> DEFINE d == b.items[1]
             r == push_back(list, d)
  <2>1. /\ list' = r.list /\ ret' = [ret EXCEPT ![s] = r.ret] /\ d \in Item
        /\ accepted' = accepted \o SubSeq(b.items, 1, ret'[s])
    <3>1. Len(b.items) = 1 /\ 1 \in 1 .. Len(b.items)
      BY <1>3, <1>8
    <3> QED
      BY <1>3, <1>8, <3>1, ElementOfSeq DEF Store, HPush, Stored
  <2>2. /\ Loose(r.list) /\ r.list.beginIndex = list.beginIndex
        /\ \/ r.ret = 0 /\ Waiting(r.list) = Waiting(list)
           \/ r.ret = 1 /\ Waiting(r.list) = Append(Waiting(list), d)
           \/ r.ret = 1 /\ list.beginIndex = -1 /\ Waiting(r.list) = <<>>
    BY <1>6, <2>1, PushBackLoose
  <2>3. ret'[s] = r.ret /\ r.ret \in Int /\ ret' \in [Threads -> Int]
    <3> HIDE DEF r
    <3>1. r.ret \in Int
      BY <2>2
    <3> QED
      BY <1>2, <1>6, <2>1, <3>1
  <2> DEFINE stored == SubSeq(b.items, 1, r.ret)
  <2>4. /\ stored \in Seq(Item)
        /\ \/ Waiting(r.list) = Waiting(list) \o stored
           \/ list.beginIndex = -1 /\ Waiting(r.list) = <<>>
    <3>1. CASE r.ret = 0 /\ Waiting(r.list) = Waiting(list)
      <4>1. stored = <<>>
        BY <3>1, SubSeqEmpty
      <4> QED
        BY <1>6, <3>1, <4>1, EmptySeq, ConcatEmptySeq
    <3>2. CASE r.ret = 1
      <4>1. stored = b.items
        BY <1>3, <1>8, <3>2, SubSeqFull
      <4>2. b.items = <<d>>
        BY <1>3, <1>8
      <4>3. CASE Waiting(r.list) = Append(Waiting(list), d)
        <5>1. d \in Items
          BY <2>1 DEF Items
        <5> QED
          BY <1>3, <1>6, <4>1, <4>2, <4>3, <5>1, AppendIsConcat
      <4>4. CASE list.beginIndex = -1 /\ Waiting(r.list) = <<>>
        BY <1>3, <4>1, <4>4
      <4> HIDE DEF r
      <4> QED
        BY <2>2, <3>2, <4>3, <4>4
    <3> QED
      BY <2>2, <3>1, <3>2
  <2>5. accepted' = accepted \o stored
    BY <2>1, <2>3
  <2> HIDE DEF stored, r
  <2>6. ListOK' /\ HistoryOK'
    BY <1>1, <2>1, <2>2, <2>4, <2>5, StoredKept
  <2> QED
    BY <1>5, <1>6, <2>3, <2>6 DEF HInv, AnswersOK
<1>9. CASE b.array /\ ~push_all_crashes(list, b.items) /\ Store(s, push_all(list, b.items)) /\ ~crashed'
  <2> DEFINE r == push_all(list, b.items)
  <2>1. /\ list' = r.list /\ ret' = [ret EXCEPT ![s] = r.ret]
        /\ accepted' = accepted \o SubSeq(b.items, 1, Len(b.items) - ret'[s])
    BY <1>9 DEF Store, HPush, Stored
  <2>2. /\ Loose(r.list) /\ r.list.beginIndex = list.beginIndex
        /\ \E n \in 0 .. Len(b.items) :
              /\ r.ret = Len(b.items) - n
              /\ Waiting(r.list) = Waiting(list) \o SubSeq(b.items, 1, n)
    BY <1>3, <1>6, <1>9, PushAllLoose
  <2>3. PICK n \in 0 .. Len(b.items) :
              /\ r.ret = Len(b.items) - n
              /\ Waiting(r.list) = Waiting(list) \o SubSeq(b.items, 1, n)
    BY <2>2
  <2>4. r.ret \in Int /\ Len(b.items) - r.ret = n
    <3>1. n \in Int /\ Len(b.items) \in Int
      BY <1>3
    <3> HIDE DEF r
    <3> QED
      BY <2>3, <3>1
  <2>5. ret'[s] = r.ret /\ ret' \in [Threads -> Int]
    BY <1>2, <1>6, <2>1, <2>4
  <2> DEFINE stored == SubSeq(b.items, 1, n)
  <2>6. stored \in Seq(Item)
    <3>1. 1 \in Int /\ n \in Int /\ \A i \in 1 .. n : i \in 1 .. Len(b.items)
      BY <1>3
    <3>2. \A i \in 1 .. n : b.items[i] \in Item
      BY <1>3, <3>1, ElementOfSeq
    <3> QED
      BY <3>1, <3>2, SubSeqProperties
  <2>7. accepted' = accepted \o stored
    BY <2>1, <2>4, <2>5
  <2> HIDE DEF stored, r
  <2>8. Waiting(list') = Waiting(list) \o stored
    BY <2>1, <2>3 DEF stored
  <2>9. ListOK' /\ HistoryOK'
    BY <1>1, <2>1, <2>2, <2>6, <2>7, <2>8, StoredKept
  <2> QED
    BY <1>5, <1>6, <2>5, <2>9 DEF HInv, AnswersOK
<1> QED
  BY <1>7, <1>8, <1>9 DEF HPush, Push

\* A receive, and what it takes from the list.
LEMMA RecvStep ==
    ASSUME HInv, NEW r \in Receivers, HRecv(r)
    PROVE  HInv'
<1>1. PICK c \in AllowedCalls : MsgRecv(r, c)
  BY DEF HRecv
<1>2. /\ pc[r] = "idle" /\ pc' = [pc EXCEPT ![r] = "lock"]
      /\ call' = [call EXCEPT ![r] = c] /\ c \in Calls
      /\ timedOut' = [timedOut EXCEPT ![r] = FALSE]
      /\ got' = [got EXCEPT ![r] = <<>>]
      /\ UNCHANGED <<list, m_lock, m_cv_lock, m_condition, batch, ret, crashed>>
      /\ UNCHANGED <<sent, accepted, handed, behind, spilt>>
  BY <1>1, HistoryAssumption DEF MsgRecv, Goto, HRecv
<1>3. ThreadsOK' /\ AnswersOK'
  <2>1. <<>> \in Seq(Items)
    BY EmptySeq
  <2> QED
    BY <1>2, <2>1 DEF HInv, ThreadsOK, AnswersOK
<1>4. BatchOK'
  <2>1. \A s \in Senders : s # r /\ s \in Threads
    BY ThreadAssumption DEF Threads
  <2>2. \A s \in Senders : pc'[s] = pc[s]
    BY <1>2, <2>1 DEF HInv, ThreadsOK
  <2> QED
    BY <1>2, <2>2 DEF HInv, BatchOK
<1>5. ListOK' /\ HistoryOK'
  BY <1>2 DEF HInv, ListOK, HistoryOK
<1> QED
  BY <1>3, <1>4, <1>5 DEF HInv

\* What a buffer holds afterwards is how what was taken begins.
LEMMA HoldsFirst ==
    ASSUME NEW c \in Calls, NEW items \in Seq(Items)
    PROVE  \E more \in Seq(Items) :
              /\ Holds(c, items) \in Seq(Items)
              /\ items = Holds(c, items) \o more
              /\ Len(Holds(c, items)) = Len(items) => Holds(c, items) = items
<1>1. CASE ~(~c.all /\ Len(items) > 1)
  <2>1. <<>> \in Seq(Items) /\ items = items \o <<>>
    BY EmptySeq, ConcatEmptySeq
  <2>2. Holds(c, items) = items
    BY <1>1 DEF Holds
  <2> QED
    BY <2>1, <2>2
<1>2. CASE ~c.all /\ Len(items) > 1
  <2> DEFINE first == SubSeq(items, 1, 1)
             more == SubSeq(items, 2, Len(items))
             n == Len(items)
  <2>1. n \in Nat /\ n > 1
    BY <1>2, LenProperties
  <2>2. first \in Seq(Items) /\ Len(first) = 1 /\ first[1] = items[1]
    <3>1. 1 \in 1 .. n + 1 /\ 1 \in 0 .. n
      BY <2>1
    <3> QED
      BY <2>1, SubSeqProperties
  <2>3. /\ more \in Seq(Items) /\ Len(more) = n - 1
        /\ \A i \in 1 .. n - 1 : more[i] = items[i + 1]
    BY <2>1, SubSeqProperties
  <2>4. items = first \o more
    <3>1. Len(items) = Len(first \o more)
      BY <2>1, <2>2, <2>3, ConcatProperties
    <3>2. ASSUME NEW i \in 1 .. n PROVE items[i] = (first \o more)[i]
      BY <2>1, <2>2, <2>3, ConcatProperties
    <3>3. first \o more \in Seq(Items)
      BY <2>2, <2>3, ConcatProperties
    <3> QED
      BY <3>1, <3>2, <3>3, SeqEqual
  <2>5. Holds(c, items) = first
    BY <1>2 DEF Holds
  <2> HIDE DEF first, more
  <2> QED
    BY <2>1, <2>2, <2>3, <2>4, <2>5
<1> QED
  BY <1>1, <1>2

\* What a pop hands out is what waited first, or how it begins.
LEMMA HandedNext ==
    ASSUME HInv, NEW out \in Seq(Items), Loose(list'), Waiting(list) = out \o Waiting(list'),
           NEW held \in Seq(Items), NEW more \in Seq(Items), out = held \o more,
           spilt' \in BOOLEAN, ~spilt' => ~spilt /\ held = out,
           accepted' = accepted, handed' = handed \o held,
           behind' = (behind \/ list'.beginIndex = -1)
    PROVE  ListOK' /\ HistoryOK'
<1>1. PICK left \in Seq(Items) :
         /\ accepted = left \o Waiting(list)
         /\ InOrder(handed, left)
         /\ ~behind /\ ~spilt => left = handed
  BY DEF HInv, HistoryOK
<1>2. /\ Waiting(list') \in Seq(Items) /\ accepted \in Seq(Items) /\ handed \in Seq(Items)
      /\ behind \in BOOLEAN
  BY LooseWaiting DEF HInv, HistoryOK, Items
<1>3. ListOK'
  BY DEF ListOK
<1>4. /\ left \o out \in Seq(Items) /\ handed' \in Seq(Items)
      /\ accepted' = (left \o out) \o Waiting(list')
  <2>1. left \o out \in Seq(Items) /\ handed \o held \in Seq(Items)
    BY <1>2, ConcatProperties
  <2>2. left \o (out \o Waiting(list')) = (left \o out) \o Waiting(list')
    <3> DEFINE waits == Waiting(list')
    <3>1. waits \in Seq(Items)
      BY <1>2
    <3> HIDE DEF waits
    <3>2. left \o (out \o waits) = (left \o out) \o waits
      BY <3>1, Regrouped, SMTT(60)
    <3> QED
      BY <3>2 DEF waits
  <2> QED
    BY <1>1, <2>1, <2>2
<1>5. InOrder(handed', left \o out)
  <2>1. InOrder(handed', left \o held)
    BY <1>1, <1>2, OrderTakes
  <2>2. left \o held \in Seq(Items)
    BY ConcatProperties
  <2>3. InOrder(handed', (left \o held) \o more)
    BY <1>4, <2>1, <2>2, OrderSkips
  <2>4. (left \o held) \o more = left \o out
    <3>0. left \in Seq(Items) /\ held \in Seq(Items) /\ more \in Seq(Items)
      BY <1>1
    <3>1. left \o (held \o more) = (left \o held) \o more
      BY ONLY <3>0, Regrouped
    <3> QED
      BY <3>1
  <2> QED
    BY <2>3, <2>4
<1>6. ~behind' /\ ~spilt' => left \o out = handed'
  BY <1>1
<1> QED
  BY <1>2, <1>3, <1>4, <1>5, <1>6 DEF HistoryOK

LEMMA PopStep ==
    ASSUME HInv, NEW r \in Receivers, HPop(r)
    PROVE  HInv'
<1>1. PICK to \in {"cv", "idle"}, all \in BOOLEAN :
         /\ pc[r] \in {"pop", "pop2"} /\ pc' = [pc EXCEPT ![r] = to]
         /\ LET result == IF all THEN pop_all(list) ELSE pop_front(list) IN
            \/ Deliver(r, result, result.out)
            \/ Deliver(r, result, Holds(call[r], result.out))
         /\ m_cv_lock' \in {m_cv_lock, None} /\ crashed' \in BOOLEAN
         /\ UNCHANGED <<m_condition, batch, call, timedOut>>
  <2>1. CASE Pop(r)
    <3> DEFINE result == IF call[r].all THEN pop_all(list) ELSE pop_front(list)
               to == IF result.ret = 0 THEN "cv" ELSE "idle"
    <3>1. call[r].all \in BOOLEAN /\ to \in {"cv", "idle"}
      BY DEF HInv, ThreadsOK, Calls
    <3>2. /\ pc[r] = "pop" /\ pc' = [pc EXCEPT ![r] = to] /\ Deliver(r, result, result.out)
          /\ crashed' \in BOOLEAN
          /\ UNCHANGED <<m_cv_lock, m_condition, batch, call, timedOut>>
      BY <2>1 DEF Pop, Goto, HInv, ThreadsOK
    <3> HIDE DEF to
    <3> QED
      BY <3>1, <3>2
  <2>2. CASE Pop2(r)
    <3> DEFINE all == call[r].all \/ call[r].timed
               result == IF all THEN pop_all(list) ELSE pop_front(list)
    <3>1. all \in BOOLEAN
      BY DEF HInv, ThreadsOK, Calls
    <3>2. /\ pc[r] = "pop2" /\ pc' = [pc EXCEPT ![r] = "idle"]
          /\ Deliver(r, result, Holds(call[r], result.out))
          /\ m_cv_lock' = None /\ crashed' \in BOOLEAN
          /\ UNCHANGED <<m_condition, batch, call, timedOut>>
      BY <2>2 DEF Pop2, Goto
    <3> HIDE DEF all
    <3> QED
      BY <3>1, <3>2
  <2> QED
    BY <2>1, <2>2 DEF HPop
<1> DEFINE result == IF all THEN pop_all(list) ELSE pop_front(list)
<1>2. /\ Loose(result.list) /\ result.ret = Len(result.out) /\ result.ret \in Int
      /\ result.out \in Seq(Items)
      /\ Waiting(list) = result.out \o Waiting(result.list)
  <2>1. Loose(list)
    BY DEF HInv, ListOK
  <2>2. CASE all
    BY <1>1, <2>1, <2>2, PopAllLoose, PopsCount DEF Items
  <2>3. CASE ~all
    BY <1>1, <2>1, <2>3, PopFrontLoose, PopsCount DEF Items
  <2> QED
    BY <2>2, <2>3
<1>3. PICK held, more \in Seq(Items) :
         /\ held \in Seq(Items) /\ result.out = held \o more
         /\ Len(held) = Len(result.out) => held = result.out
         /\ list' = result.list /\ m_lock' = None
         /\ ret' = [ret EXCEPT ![r] = result.ret] /\ got' = [got EXCEPT ![r] = held]
         /\ handed' = handed \o got'[r] /\ behind' = (behind \/ list'.beginIndex = -1)
         /\ spilt' = (spilt \/ Len(got'[r]) < ret'[r])
         /\ accepted' = accepted /\ sent' = sent
  <2> HIDE DEF result
  <2>1. CASE Deliver(r, result, result.out)
    <3>1. <<>> \in Seq(Items) /\ result.out = result.out \o <<>>
      BY <1>2, EmptySeq, ConcatEmptySeq
    <3> QED
      BY <1>2, <2>1, <3>1 DEF Deliver, HPop
  <2>2. CASE Deliver(r, result, Holds(call[r], result.out))
    <3>1. call[r] \in Calls
      BY DEF HInv, ThreadsOK
    <3> QED
      BY <1>2, <2>2, <3>1, HoldsFirst DEF Deliver, HPop
  <2> QED
    BY <1>1, <2>1, <2>2 DEF result
<1> HIDE DEF result
<1>4. ThreadsOK' /\ AnswersOK' /\ got'[r] = held /\ ret'[r] = result.ret
  <2>1. r \in Threads /\ None \in Receivers \cup {None} /\ None \in Threads \cup {None}
    BY DEF Threads
  <2>2. pc' \in [Threads -> {"idle", "lock", "push", "notify",
                             "pop", "cv", "blocked", "lock2", "pop2"}]
    BY <1>1, <2>1 DEF HInv, ThreadsOK
  <2> QED
    BY <1>1, <1>2, <1>3, <2>1, <2>2 DEF HInv, ThreadsOK, AnswersOK
<1>5. BatchOK'
  <2>1. \A s \in Senders : s # r /\ s \in Threads
    BY ThreadAssumption DEF Threads
  <2>2. \A s \in Senders : pc'[s] = pc[s]
    BY <1>1, <2>1 DEF HInv, ThreadsOK
  <2> QED
    BY <1>1, <1>3, <2>2 DEF HInv, BatchOK
<1>6. spilt' \in BOOLEAN /\ (~spilt' => ~spilt /\ held = result.out)
  <2>1. Len(held) \in Nat /\ Len(result.out) \in Nat /\ Len(held) <= Len(result.out)
    <3>1. /\ Len(held) \in Nat /\ Len(more) \in Nat
          /\ Len(held \o more) = Len(held) + Len(more)
      BY <1>3, LenProperties, ConcatProperties
    <3>2. result.out = held \o more
      BY <1>3
    <3> QED
      BY <3>1, <3>2
  <2>2. spilt' = (spilt \/ Len(held) < Len(result.out)) /\ spilt \in BOOLEAN
    BY <1>2, <1>3, <1>4 DEF HInv, HistoryOK
  <2>3. ~(Len(held) < Len(result.out)) => Len(held) = Len(result.out)
    BY <2>1
  <2> QED
    BY <1>3, <2>2, <2>3
<1>7. ListOK' /\ HistoryOK'
  BY <1>2, <1>3, <1>4, <1>6, HandedNext
<1> QED
  BY <1>4, <1>5, <1>7 DEF HInv

\* The other steps touch neither the list nor what is sent.
LEMMA OtherStep ==
    ASSUME HInv, NEW t \in Threads, HOther(t)
    PROVE  HInv'
<1>1. /\ UNCHANGED <<list, batch, got, sent, accepted, handed, behind, spilt, crashed>>
      /\ ret' = ret \/ ret' = [ret EXCEPT ![t] = -1]
  <2>1. CASE Lock(t) \/ (t \in Senders /\ Notify(t))
    BY <2>1 DEF HOther, Lock, Notify, Locals
  <2>2. CASE Wait(t) \/ Timeout(t) \/ SpuriousWake(t)
    BY <2>2 DEF HOther, Wait, Timeout, SpuriousWake, Locals
  <2>3. CASE Wake(t)
    BY <2>3 DEF HOther, Wake
  <2> QED
    BY <2>1, <2>2, <2>3 DEF HOther
<1>2. AnswersOK' /\ ListOK' /\ HistoryOK'
  <2>1. AnswersOK'
    BY <1>1 DEF HInv, AnswersOK
  <2>2. ListOK'
    BY <1>1 DEF HInv, ListOK
  <2>3. HistoryOK'
    BY <1>1 DEF HInv, HistoryOK
  <2> QED
    BY <2>1, <2>2, <2>3
<1>3. ThreadsOK'
  BY DEF HInv, ThreadsOK, Threads, HOther, Lock, Notify, Wait, Timeout, SpuriousWake, Wake, Locals, Goto
<1>4. ASSUME NEW s \in Senders, pc'[s] \in {"lock", "push"}
      PROVE  pc[s] \in {"lock", "push"}
  BY <1>4 DEF HInv, ThreadsOK, Threads, HOther, Lock, Notify, Wait, Timeout, SpuriousWake, Wake, Locals, Goto
<1>5. BatchOK'
  BY <1>1, <1>4 DEF HInv, BatchOK
<1> QED
  BY <1>2, <1>3, <1>5 DEF HInv

LEMMA HInvInit == HInit => HInv
<1> SUFFICES ASSUME HInit PROVE HInv
  OBVIOUS
<1>1. ThreadsOK
  BY DEF HInit, Init, ThreadsOK, Calls
<1>2. AnswersOK
  BY EmptySeq DEF HInit, Init, AnswersOK
<1>3. BatchOK
  <2>1. <<>> \in Batches
    <3>1. 0 \in 0 .. MaxBatch
      BY ArrayListAssumption
    <3>2. <<>> \in [1 .. 0 -> Item]
      OBVIOUS
    <3> QED
      BY <3>1, <3>2 DEF Batches
  <2>2. \A s \in Senders : pc[s] = "idle"
    BY DEF HInit, Init, Threads
  <2> QED
    BY <2>1, <2>2 DEF HInit, Init, BatchOK
<1>4. ListOK
  BY NewListOK DEF HInit, Init, ListOK, Loose
<1>5. HistoryOK
  <2>1. <<>> \in Seq(Items) /\ Len(<<>>) = 0
    BY EmptySeq
  <2>2. <<>> = <<>> \o Waiting(list)
    BY NewListOK, <2>1, ConcatEmptySeq DEF HInit, Init
  <2>3. InOrder(<<>>, <<>>)
    <3>1. {} \in SUBSET (1 .. Len(<<>>)) /\ Cardinality({}) = 0
      BY FS_EmptySet
    <3> QED
      BY <2>1, <3>1 DEF InOrder
  <2> QED
    BY <2>1, <2>2, <2>3 DEF HInit, HistoryOK
<1> QED
  BY <1>1, <1>2, <1>3, <1>4, <1>5 DEF HInv

\* Every step keeps the invariant.
LEMMA HInvNext == HInv /\ [HNext]_hvars => HInv'
<1> SUFFICES ASSUME HInv, [HNext]_hvars PROVE HInv'
  OBVIOUS
<1>1. CASE \E s \in Senders : HSend(s) \/ HPush(s)
  BY <1>1, SendStep, PushStep
<1>2. CASE \E r \in Receivers : HRecv(r) \/ HPop(r)
  BY <1>2, RecvStep, PopStep
<1>3. CASE \E t \in Threads : HOther(t)
  BY <1>3, OtherStep
<1>4. CASE UNCHANGED hvars
  BY <1>4 DEF hvars, vars, HInv, ThreadsOK, AnswersOK, BatchOK, ListOK, HistoryOK
<1> QED
  BY <1>1, <1>2, <1>3, <1>4 DEF HNext

\* The invariant of Thread_Msg_Queue: the list is one its methods lead to, and
\* what was accepted is what receivers took, in order, and what waits.
THEOREM HInvHolds == HSpec => []HInv
  BY HInvInit, HInvNext, PTL DEF HSpec

-----------------------------------------------------------------------------
(* The invariants of the run.                                              *)

\* Locks, threads and list keep their types, however sends, receives, wake-ups
\* and timeouts interleave.
THEOREM ThreadsTyped == HSpec => []TypeOK
<1>1. HInv => TypeOK
  BY LooseWaiting DEF HInv, ListOK, TypeOK
<1> QED
  BY <1>1, HInvHolds, PTL

\* Receivers of MsgRecv are handed what MsgSend stored, in the order of storing,
\* no item twice and none that was not sent.
THEOREM TakenInOrder == HSpec => []HandedInOrder
<1>1. ASSUME HInv PROVE HandedInOrder
  <2>1. PICK left \in Seq(Items) :
           accepted = left \o Waiting(list) /\ InOrder(handed, left)
    BY <1>1 DEF HInv, HistoryOK
  <2>2. Waiting(list) \in Seq(Items) /\ handed \in Seq(Items)
    BY <1>1, LooseWaiting DEF HInv, ListOK, HistoryOK, Items
  <2>3. InOrder(handed, accepted)
    BY <2>1, <2>2, OrderSkips
  <2> QED
    BY <2>3 DEF InOrder, HandedInOrder
<1> QED
  BY <1>1, HInvHolds, PTL

\* Nothing that was accepted is missing until a pop_all has left beginIndex at
\* -1 (ArrayList.hpp line 201) or has run over a buffer for one item
\* (Thread_Msg_Queue.hpp line 146).
THEOREM NothingMissing == HSpec => []KeptUnlessBehindOrSpilt
<1>1. HInv => KeptUnlessBehindOrSpilt
  BY DEF HInv, HistoryOK, KeptUnlessBehindOrSpilt
<1> QED
  BY <1>1, HInvHolds, PTL
=============================================================================
