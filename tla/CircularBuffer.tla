--------------------------- MODULE CircularBuffer ---------------------------
(* src/src/util/circular_buffer.c: one byte more than the capacity, a read and *)
(* a write cursor.  Write and Read leave a cursor that reaches the end of the  *)
(* memory there, one past the last byte, and wrap it on the next call; Discard *)
(* wraps it at once.  Cursors and sizes are uint32_t.                          *)
EXTENDS Integers, Sequences

CONSTANTS
  UintMax,   \* UINT32_MAX
  Byte,      \* what a byte may be
  MaxChunk,  \* the longest run of bytes a call is given or asks for
  NoByte     \* memory that was never written

ASSUME UintMaxAssumption == UintMax \in Nat /\ UintMax >= 2
ASSUME MaxChunkAssumption == MaxChunk \in Nat /\ MaxChunk <= UintMax
ASSUME NoByteAssumption == NoByte \notin Byte

VARIABLES
  size,   \* cb->size, 0 while the handle is NULL
  read,   \* cb->read
  write,  \* cb->write
  mem,    \* cb->buffer
  out     \* what the last call returned, and the bytes it copied out

ringVars == <<size, read, write, mem, out>>

RingInit ==
  /\ size = 0 /\ read = 0 /\ write = 0
  /\ mem = <<>>
  /\ out = [ret |-> 0, data |-> <<>>]

Chunks == UNION {[1..n -> Byte] : n \in 0..MaxChunk}

Fewer(m, n)      == IF m <= n THEN m ELSE n
Returns(n, data) == out' = [ret |-> n, data |-> data]

\* uint32_t arithmetic: the value of one addition or subtraction.
U32(x) == IF x > UintMax THEN x - UintMax - 1
          ELSE IF x < 0 THEN x + UintMax + 1 ELSE x

-----------------------------------------------------------------------------
CBCapacity == IF size = 0 THEN 0 ELSE U32(size - 1)

\* Mutant: the sum is taken one cell short, as for an inclusive cursor.
CBAvailableShort ==
  IF size = 0 THEN 0
  ELSE IF write >= read THEN U32(write - read)
  ELSE U32(U32(size - 1 + write) - read)

CBAvailable ==
  IF size = 0 THEN 0
  ELSE IF write >= read THEN U32(write - read)
  ELSE U32(U32(size + write) - read)

\* Mutant: no cell is kept free between the writer and the reader.
CBFreeSpaceFull ==
  IF size = 0 THEN 0
  ELSE IF read > write THEN U32(read - write)
  ELSE U32(size - U32(write - read))

CBFreeSpace ==
  IF size = 0 THEN 0
  ELSE IF read > write THEN U32(U32(read - 1) - write)
  ELSE U32(U32(size - 1) - U32(write - read))

\* The cell of the i-th byte from a cursor, the position of a cell from a cursor, and
\* the cursor after n bytes.
Cell(cursor, i)  == IF i <= size - cursor THEN cursor + i - 1
                                          ELSE cursor + i - 1 - size
Index(cursor, k) == IF k >= cursor THEN k - cursor + 1 ELSE k + size - cursor + 1
\* Mutant: a cursor that is not wrapped.
AfterUnwrapped(cursor, n) == cursor + n

After(cursor, n) == IF size - cursor < n THEN n - (size - cursor) ELSE cursor + n

\* The static Write and Read: one copy up to the end of the memory and one from its
\* beginning.
WriteBytes(data) ==
  /\ write' = After(write, Len(data))
  /\ mem' = [k \in DOMAIN mem |-> IF Index(write, k) <= Len(data)
                                   THEN data[Index(write, k)] ELSE mem[k]]
  /\ UNCHANGED <<size, read>>

ReadBytes(n, ret) ==
  /\ Returns(ret, [i \in 1..n |-> mem[Cell(read, i)]])
  /\ read' = After(read, n)
  /\ UNCHANGED <<size, write, mem>>

-----------------------------------------------------------------------------
\* CBCreateEx.  A size that is refused, and a failed allocation, leave NULL.
CBCreate(c) ==
  /\ size = 0
  /\ c # 0 /\ c # UintMax
  /\ size' = c + 1
  /\ read' = 0 /\ write' = 0
  /\ mem' = [k \in 0..c |-> NoByte]
  /\ UNCHANGED out

CBWrite(data) ==
  \/ /\ size # 0 /\ CBFreeSpace >= Len(data)
     /\ WriteBytes(data) /\ Returns(1, <<>>)
  \/ /\ size = 0 \/ CBFreeSpace < Len(data)
     /\ Returns(0, <<>>) /\ UNCHANGED <<size, read, write, mem>>

CBWriteAvailable(data) ==
  LET n == Fewer(Len(data), CBFreeSpace)
  IN  WriteBytes(SubSeq(data, 1, n)) /\ Returns(n, <<>>)

CBRead(n) ==
  \/ size # 0 /\ n # 0 /\ CBAvailable >= n /\ ReadBytes(n, 1)
  \/ /\ size = 0 \/ n = 0 \/ CBAvailable < n
     /\ Returns(0, <<>>) /\ UNCHANGED <<size, read, write, mem>>

CBReadAvailable(n) ==
  LET k == Fewer(n, CBAvailable) IN ReadBytes(k, k)

CBDiscard(n) ==
  LET k == Fewer(n, CBAvailable) IN
  /\ read' = IF k < size - read THEN read + k ELSE k - (size - read)
  /\ Returns(k, <<>>)
  /\ UNCHANGED <<size, write, mem>>

CBClear == read' = write /\ Returns(0, <<>>) /\ UNCHANGED <<size, write, mem>>

\* Nothing in the tracer calls CBDiscard.  A client of it is assumed not to discard all
\* there is while the write cursor is one past the last byte: CBDiscard wraps the read
\* cursor at once and the empty buffer would count as one that holds size bytes.
Discardable(n) == size = 0 \/ write < size \/ n < CBAvailable

RingNext ==
  \/ \E c \in 0..UintMax : CBCreate(c)
  \/ \E data \in Chunks : CBWrite(data) \/ CBWriteAvailable(data)
  \/ \E n \in 0..MaxChunk : CBRead(n) \/ CBReadAvailable(n)
  \/ \E n \in 0..MaxChunk : Discardable(n) /\ CBDiscard(n)
  \/ CBClear

RingSpec == RingInit /\ [][RingNext]_ringVars

-----------------------------------------------------------------------------
\* Every variable stays in its type; a cursor may be one past the last byte.
RingTypeOK ==
  /\ size \in 0..UintMax
  /\ read \in 0..size /\ write \in 0..size
  /\ mem \in [0..(size - 1) -> Byte \cup {NoByte}]
  /\ out.ret \in 0..UintMax /\ out.data \in Chunks

\* The one pair of cursors that CBAvailable and CBFreeSpace misread: they take a
\* full lap for size bytes.  No call produces it but the discard that Discardable
\* excludes.
NoFullLap == size # 0 => ~(read = 0 /\ write = size)

\* The distance from the read to the write cursor, around the ring.
Length   == IF size = 0 THEN 0 ELSE (write - read) % size
Contents == [i \in 1..Length |-> mem[(read + i - 1) % size]]

Queue == INSTANCE ByteQueue WITH
           MaxCapacity <- UintMax - 1, capacity <- CBCapacity, queue <- Contents

\* Every call does what it does to a bounded queue: bytes come out once, in the order
\* they went in, and none is lost when a chunk is cut by the end of the memory or
\* the capacity; the counts returned are those of the bytes moved.
ImplementsQueue == Queue!Spec

\* CBAvailable and CBFreeSpace, for all their 32-bit arithmetic, count the bytes
\* between the cursors and what is left of the capacity, up to the largest buffer.
SpaceAccounted == CBAvailable = Length /\ CBFreeSpace = CBCapacity - Length

\* circular_buffer.h: CBAvailable returns the number of bytes available for reading,
\* which no sequence of calls takes beyond CBCapacity, the maximum size.
AvailableWithinCapacity == CBAvailable <= CBCapacity
=============================================================================
