----------------------------- MODULE BufferList -----------------------------
(***************************************************************************)
(* BufferList/BufferList.cpp: a ring of bytes that holds records, each a   *)
(* length of lenSize bytes and its data, both of which may wrap around the *)
(* end.  m_leftSpace is kept apart from the two indices; where it does not *)
(* agree with them the methods throw everything away.                      *)
(*                                                                         *)
(* One thread uses the ring.  Initialised once it may be initialised       *)
(* again, with another size.  A cell of the ring is a byte of the length   *)
(* or of the data of a record; the numbers are unsigned (Word).            *)
(***************************************************************************)
EXTENDS Integers, Sequences

CONSTANTS lenSize,     \* sizeof(unsigned int)
          BufSizes,    \* what Init is called with
          Lengths,     \* the lengths of the records
          Payloads,    \* what a record holds
          Word,        \* the values of an unsigned integer
          MaxShort     \* bound: how often a buffer is too small for a record

VARIABLES ring,        \* m_buffer, m_bufferSize, m_beginIndex, m_endIndex, m_size, m_leftSpace
          content,     \* history: the records pushed and not popped
          got,         \* history: what the last pop_front delivered, and what was due
          shorts,      \* history: how often pop_front was given too small a buffer
          broken       \* history: records overlap, or the ring was reset with records in it

vars == <<ring, content, got, shorts, broken>>

Unsigned(n) == n % Word
Cell(kind, what, part) == [kind |-> kind, what |-> what, part |-> part]
NoCell == Cell("none", 0, 0)

\* Init(bufSize).
Fresh(bufSize) ==
    [m_buffer |-> [i \in 0 .. bufSize + 1 |-> NoCell], m_bufferSize |-> bufSize + 2,
     m_beginIndex |-> 0, m_endIndex |-> 1, m_size |-> 0, m_leftSpace |-> bufSize]

\* The branches that throw everything away.
Emptied(r) == [r EXCEPT !.m_leftSpace = r.m_bufferSize - 2, !.m_size = 0, !.m_beginIndex = 0, !.m_endIndex = 1]

At(r, i) == i % r.m_bufferSize
Capacity(r) == r.m_bufferSize - 2
RecordSize(c) == lenSize + c[2]

\* The bytes of the first n of the records s, for each n; and of all of them.
Through(s) ==
    LET bytes[n \in 0 .. Len(s)] == IF n = 0 THEN 0 ELSE bytes[n - 1] + RecordSize(s[n])
    IN  bytes
Taken(s) == Through(s)[Len(s)]

Init ==
    /\ ring \in {Fresh(n) : n \in BufSizes}
    /\ content = <<>>
    /\ got = [data |-> <<>>, due |-> <<>>]
    /\ shorts = 0
    /\ broken = FALSE

InitAgain ==
    /\ ring' \in {Fresh(n) : n \in BufSizes}
    /\ content' = <<>>
    /\ shorts' = 0
    /\ UNCHANGED <<got, broken>>

-----------------------------------------------------------------------------

\* Mutant: the part that does not fit is written behind the end of the part
\* that does, not at the start.
Put_NoWrap(r, from, cells) ==
    [r EXCEPT !.m_buffer = [i \in DOMAIN @ |-> IF i \in from .. from + Len(cells) - 1 THEN cells[i - from + 1] ELSE @[i]]]

\* The two memcpy into the ring, from an index on.
Put(r, from, cells) ==
    [r EXCEPT !.m_buffer =
        [i \in DOMAIN @ |-> LET n == At(r, i - from) IN IF n < Len(cells) THEN cells[n + 1] ELSE @[i]]]

\* The two memcpy out of it.
Got(r, from, n) == [i \in 1 .. n |-> r.m_buffer[At(r, from + i - 1)]]

LengthCells(n) == [i \in 1 .. lenSize |-> Cell("len", n, i)]
DataCells(c) == [i \in 1 .. c[2] |-> Cell("data", c[1], i)]

\* Mutant: the length field is not counted.
Fits_NoLength(r, n) == n <= Capacity(r) - lenSize /\ r.m_leftSpace > n

\* Not even the last byte is ever used.
Fits(r, n) == n <= Capacity(r) - lenSize /\ r.m_leftSpace > n + lenSize

push_back(c) ==
    LET n == c[2]
        r == Put(Put(ring, ring.m_endIndex, LengthCells(n)), At(ring, ring.m_endIndex + lenSize), DataCells(c))
    IN  /\ IF Fits(ring, n)
           THEN /\ ring' = [r EXCEPT !.m_leftSpace = Unsigned(@ - n - lenSize), !.m_size = @ + 1,
                                     !.m_endIndex = At(ring, @ + n + lenSize)]
                /\ content' = Append(content, c)
                /\ broken' = (Taken(content') > Capacity(ring) + 1)
           ELSE UNCHANGED <<ring, content, broken>>
        /\ UNCHANGED <<got, shorts>>

\* Behind the record of n bytes.
Begin(r, n) == At(r, r.m_beginIndex + lenSize + n)

\* One of the two tests of m_leftSpace, and the space given back.
GiveBack(r, n) ==
    IF Unsigned(Capacity(r) - r.m_leftSpace) < n THEN Emptied(r) ELSE [r EXCEPT !.m_leftSpace = Unsigned(@ + n)]

\* pop_front: the space of the length is given back before it is known whether
\* the record fits the caller's buffer.
pop_front(sizeOfData) ==
    LET next == At(ring, ring.m_beginIndex + 1)
        len == ring.m_buffer[next].what
        withLen == GiveBack(ring, lenSize)
        withData == GiveBack(withLen, len)
    IN  IF ring.m_size = 0
        THEN /\ got' = [data |-> <<>>, due |-> IF content = <<>> THEN <<>> ELSE DataCells(Head(content))]
             /\ UNCHANGED <<ring, content, shorts, broken>>
        ELSE IF next = ring.m_endIndex \/ len = 0
        THEN /\ ring' = Emptied(ring) /\ broken' = TRUE
             /\ UNCHANGED <<content, got, shorts>>
        ELSE IF sizeOfData # 0 /\ sizeOfData < len
        THEN /\ shorts < MaxShort
             /\ shorts' = shorts + 1
             /\ ring' = withLen
             /\ broken' = (withLen = Emptied(ring))
             /\ UNCHANGED <<content, got>>
        ELSE /\ got' = [data |-> Got(ring, next + lenSize, len), due |-> DataCells(Head(content))]
             /\ ring' = [withData EXCEPT !.m_size = Unsigned(@ - 1), !.m_beginIndex = Begin(withData, len)]
             /\ content' = Tail(content)
             /\ broken' = (withLen = Emptied(ring) \/ withData = Emptied(withLen))
             /\ UNCHANGED shorts

\* empty().
empty == ring.m_size = 0 /\ At(ring, ring.m_beginIndex + 1) = ring.m_endIndex

\* Of a ring whose records overlap nothing is claimed.
Next ==
    /\ ~broken
    /\ \/ InitAgain
       \/ \E p \in Payloads, n \in Lengths : push_back(<<p, n>>)
       \/ \E size \in {0} \cup Lengths : pop_front(size)

Spec == Init /\ [][Next]_vars

-----------------------------------------------------------------------------
(***************************************************************************)
(* Properties.                                                             *)
(***************************************************************************)

TypeOK ==
    /\ ring.m_bufferSize \in {n + 2 : n \in BufSizes}
    /\ ring.m_beginIndex \in 0 .. ring.m_bufferSize - 1 /\ ring.m_endIndex \in 0 .. ring.m_bufferSize - 1
    /\ ring.m_size \in 0 .. Word - 1 /\ ring.m_leftSpace \in 0 .. Word - 1
    /\ DOMAIN ring.m_buffer = 0 .. ring.m_bufferSize - 1
    /\ shorts \in 0 .. MaxShort

\* Where the n-th record begins.
StartOf(n) == At(ring, ring.m_beginIndex + 1 + Through(content)[n - 1])

\* Until records overlap or the ring is reset: the bytes from the begin to the
\* end are the records that were pushed and not popped, in order and whole,
\* wherever the ring wraps; size() counts them; and what pop_front delivered
\* was the oldest.
RecordsWhole ==
    ~broken =>
        /\ \A n \in DOMAIN content :
             Got(ring, StartOf(n), RecordSize(content[n])) = LengthCells(content[n][2]) \o DataCells(content[n])
        /\ StartOf(Len(content) + 1) = ring.m_endIndex
        /\ ring.m_size = Len(content)
        /\ empty <=> content = <<>>
        /\ got.data = got.due

\* The space on record is the space there is, plus a length for every time the
\* caller's buffer was too small; records overlap only after such a call, and
\* so does the ring throw records away only then.
SpaceAgrees ==
    /\ ~broken => ring.m_leftSpace = Capacity(ring) - Taken(content) + lenSize * shorts
    /\ broken => shorts > 0
=============================================================================
