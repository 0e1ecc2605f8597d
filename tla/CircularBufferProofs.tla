------------------------ MODULE CircularBufferProofs ------------------------
(* For buffers of every size: the cursors stay in the memory, never in the one  *)
(* position that CBAvailable misreads, and the counts are right although every  *)
(* sum is taken in 32 bits.                                                     *)
EXTENDS CircularBuffer, TLAPS

CursorsOK == /\ size \in 0..UintMax
             /\ read \in 0..size /\ write \in 0..size
             /\ size # 1
             /\ NoFullLap

\* A cursor that moves by at most the size of the memory stays in it.
LEMMA AfterInRange ==
  ASSUME NEW c \in 0..size, NEW n \in 0..size, size \in Nat
  PROVE  After(c, n) \in 0..size
BY DEF After

\* What the two counts are.
LEMMA Counts ==
  ASSUME CursorsOK, size # 0
  PROVE  /\ CBAvailable = IF write >= read THEN write - read ELSE size + write - read
         /\ CBFreeSpace = size - 1 - CBAvailable
         /\ CBAvailable \in 0..(size - 1)
         /\ CBFreeSpace \in 0..(size - 1)
         /\ CBCapacity = size - 1
BY UintMaxAssumption DEF CursorsOK, NoFullLap, CBAvailable, CBFreeSpace, CBCapacity, U32

\* The distance between the cursors around the ring is what CBAvailable computes.
LEMMA AvailableIsLength ==
  ASSUME CursorsOK
  PROVE  CBAvailable = Length
<1>1. CASE size = 0
  BY <1>1 DEF CBAvailable, Length
<1>2. CASE size # 0 /\ write >= read
  <2>1. write - read \in 0..(size - 1)
    BY <1>2 DEF CursorsOK, NoFullLap
  <2>2. (write - read) % size = write - read
    BY <1>2, <2>1 DEF CursorsOK
  <2>. QED
    BY <1>2, <2>2, Counts DEF Length
<1>3. CASE size # 0 /\ write < read
  <2>1. (write - read) % size = size + write - read
    BY <1>3 DEF CursorsOK
  <2>. QED
    BY <1>3, <2>1, Counts DEF Length, CursorsOK
<1>. QED
  BY <1>1, <1>2, <1>3 DEF CursorsOK
-----------------------------------------------------------------------------
\* No more bytes than there is room for: the write cursor does not lap the reader.
LEMMA WriteKeepsCursors ==
  ASSUME CursorsOK, NEW data, Len(data) \in 0..CBFreeSpace, WriteBytes(data)
  PROVE  CursorsOK'
<1>1. size' = size /\ read' = read /\ write' = After(write, Len(data))
  BY DEF WriteBytes
<1>2. CASE size = 0
  <2>1. Len(data) = 0
    BY <1>2 DEF CBFreeSpace
  <2>. QED
    BY <1>1, <1>2, <2>1 DEF CursorsOK, NoFullLap, After
<1>3. CASE size # 0
  <2>1. Len(data) \in 0..(size - 1 - CBAvailable)
    BY <1>3, Counts
  <2>2. CBAvailable = IF write >= read THEN write - read ELSE size + write - read
    BY <1>3, Counts
  <2>. QED
    BY <1>1, <1>3, <2>1, <2>2 DEF CursorsOK, NoFullLap, After
<1>. QED
  BY <1>2, <1>3

\* No more bytes than there are: the read cursor does not pass the writer.
LEMMA ReadKeepsCursors ==
  ASSUME CursorsOK, NEW n \in 0..CBAvailable, NEW ret, ReadBytes(n, ret)
  PROVE  CursorsOK'
<1>1. size' = size /\ write' = write /\ read' = After(read, n)
  BY DEF ReadBytes
<1>2. CASE size = 0
  <2>1. n = 0
    BY <1>2 DEF CBAvailable
  <2>. QED
    BY <1>1, <1>2, <2>1 DEF CursorsOK, NoFullLap, After
<1>3. CASE size # 0
  <2>1. CBAvailable = IF write >= read THEN write - read ELSE size + write - read
    BY <1>3, Counts
  <2>. QED
    BY <1>1, <1>3, <2>1 DEF CursorsOK, NoFullLap, After
<1>. QED
  BY <1>2, <1>3

\* Both counts are natural numbers, also when there is no buffer.
LEMMA CountsAreNatural ==
  ASSUME CursorsOK
  PROVE  CBAvailable \in Nat /\ CBFreeSpace \in Nat
<1>1. CASE size = 0
  BY <1>1 DEF CBAvailable, CBFreeSpace
<1>2. CASE size # 0
  BY <1>2, Counts DEF CursorsOK
<1>. QED
  BY <1>1, <1>2

\* What may be written is a sequence of at most MaxChunk bytes.
LEMMA ChunkLength ==
  ASSUME NEW data \in Chunks
  PROVE  /\ Len(data) \in 0..MaxChunk
         /\ \A n \in 0..Len(data) : Len(SubSeq(data, 1, n)) = n
<1>1. PICK n \in 0..MaxChunk : data \in [1..n -> Byte]
  BY DEF Chunks
<1>2. data \in Seq(Byte) /\ Len(data) = n
  BY <1>1, MaxChunkAssumption
<1>. QED
  BY <1>1, <1>2, MaxChunkAssumption

\* A discard wraps the read cursor where a read leaves it at the end; the one that
\* Discardable excludes apart, that is the same place of the ring.
LEMMA DiscardKeepsCursors ==
  ASSUME CursorsOK, NEW n \in Nat, Discardable(n), CBDiscard(n)
  PROVE  CursorsOK'
<1>. DEFINE k == Fewer(n, CBAvailable)
<1>1. /\ size' = size /\ write' = write
      /\ read' = IF k < size - read THEN read + k ELSE k - (size - read)
  BY DEF CBDiscard
<1>2. k \in Nat /\ k <= n /\ k <= CBAvailable
  BY CountsAreNatural DEF Fewer
<1>3. CASE size = 0
  <2>1. k = 0 /\ read = 0
    BY <1>2, <1>3 DEF CBAvailable, CursorsOK
  <2>. QED
    BY <1>1, <1>3, <2>1 DEF CursorsOK, NoFullLap
<1>4. CASE size # 0
  <2>1. CBAvailable = IF write >= read THEN write - read ELSE size + write - read
    BY <1>4, Counts
  <2>2. write < size \/ k < CBAvailable
    BY <1>2, <1>4, CountsAreNatural DEF Discardable, Fewer
  <2>. HIDE DEF k
  <2>. QED
    BY <1>1, <1>2, <1>4, <2>1, <2>2 DEF CursorsOK, NoFullLap
<1>. QED
  BY <1>3, <1>4

\* The cursors stay in their range through every call the tracer makes, and never
\* reach the one position that CBAvailable misreads.
THEOREM CursorsInvariant == RingSpec => []CursorsOK
<1>1. RingInit => CursorsOK
  BY UintMaxAssumption DEF RingInit, CursorsOK, NoFullLap
<1>2. CursorsOK /\ [RingNext]_ringVars => CursorsOK'
  <2>. SUFFICES ASSUME CursorsOK, [RingNext]_ringVars PROVE CursorsOK'
    OBVIOUS
  <2>. USE DEF Fewer
  <2>1. ASSUME NEW c \in 0..UintMax, CBCreate(c) PROVE CursorsOK'
    BY <2>1, UintMaxAssumption DEF CBCreate, CursorsOK, NoFullLap
  <2>2. ASSUME NEW data \in Chunks, CBWrite(data) PROVE CursorsOK'
    <3>1. CASE CBFreeSpace >= Len(data) /\ WriteBytes(data)
      BY <3>1, ChunkLength, CountsAreNatural, WriteKeepsCursors
    <3>2. CASE UNCHANGED <<size, read, write, mem>>
      BY <3>2 DEF CursorsOK, NoFullLap
    <3>. QED
      BY <2>2, <3>1, <3>2 DEF CBWrite
  <2>3. ASSUME NEW data \in Chunks, CBWriteAvailable(data) PROVE CursorsOK'
    <3>. DEFINE n == Fewer(Len(data), CBFreeSpace)
    <3>1. n \in 0..Len(data) /\ n \in 0..CBFreeSpace
      BY ChunkLength, CountsAreNatural
    <3>2. Len(SubSeq(data, 1, n)) = n
      BY <3>1, ChunkLength
    <3>3. WriteBytes(SubSeq(data, 1, n))
      BY <2>3 DEF CBWriteAvailable
    <3>. HIDE DEF n
    <3>. QED
      BY <3>1, <3>2, <3>3, WriteKeepsCursors
  <2>4. ASSUME NEW n \in 0..MaxChunk, CBRead(n) PROVE CursorsOK'
    <3>1. CASE CBAvailable >= n /\ ReadBytes(n, 1)
      <4>1. n \in 0..CBAvailable
        BY <3>1, CountsAreNatural, MaxChunkAssumption
      <4>. QED
        BY <3>1, <4>1, ReadKeepsCursors
    <3>2. CASE UNCHANGED <<size, read, write, mem>>
      BY <3>2 DEF CursorsOK, NoFullLap
    <3>. QED
      BY <2>4, <3>1, <3>2 DEF CBRead
  <2>5. ASSUME NEW n \in 0..MaxChunk, CBReadAvailable(n) PROVE CursorsOK'
    <3>. DEFINE k == Fewer(n, CBAvailable)
    <3>1. k \in 0..CBAvailable
      BY CountsAreNatural, MaxChunkAssumption
    <3>2. ReadBytes(k, k)
      BY <2>5 DEF CBReadAvailable
    <3>. HIDE DEF k
    <3>. QED
      BY <3>1, <3>2, ReadKeepsCursors
  <2>6. ASSUME CBClear PROVE CursorsOK'
    BY <2>6 DEF CBClear, CursorsOK, NoFullLap
  <2>7. ASSUME NEW n \in 0..MaxChunk, Discardable(n), CBDiscard(n) PROVE CursorsOK'
    BY <2>7, DiscardKeepsCursors, MaxChunkAssumption
  <2>8. ASSUME UNCHANGED ringVars PROVE CursorsOK'
    BY <2>8 DEF ringVars, CursorsOK, NoFullLap
  <2>. QED
    BY <2>1, <2>2, <2>3, <2>4, <2>5, <2>6, <2>7, <2>8 DEF RingNext
<1>. QED
  BY <1>1, <1>2, PTL DEF RingSpec

\* The position CBAvailable and CBFreeSpace misread is never reached.
THEOREM NeverAFullLap == RingSpec => []NoFullLap
<1>1. CursorsOK => NoFullLap
  BY DEF CursorsOK
<1>. QED
  BY <1>1, CursorsInvariant, PTL

\* For buffers of every size up to the largest, the counts that the 32-bit sums give
\* are the number of bytes between the cursors and the room that is left.
THEOREM CountsAreRight == RingSpec => []SpaceAccounted
<1>1. CursorsOK => SpaceAccounted
  <2>. SUFFICES ASSUME CursorsOK PROVE SpaceAccounted
    OBVIOUS
  <2>1. CBAvailable = Length
    BY AvailableIsLength
  <2>2. CBFreeSpace = CBCapacity - Length
    <3>1. CASE size = 0
      BY <3>1 DEF CBFreeSpace, CBCapacity, Length
    <3>2. CASE size # 0
      BY <3>2, <2>1, Counts
    <3>. QED
      BY <3>1, <3>2
  <2>. QED
    BY <2>1, <2>2 DEF SpaceAccounted
<1>. QED
  BY <1>1, CursorsInvariant, PTL

\* The bytes available are never more than the buffer's maximum size.
THEOREM AvailableIsBounded == RingSpec => []AvailableWithinCapacity
<1>1. CursorsOK => AvailableWithinCapacity
  <2>1. CASE size = 0
    BY <2>1 DEF AvailableWithinCapacity, CBAvailable, CBCapacity
  <2>2. CASE size # 0
    BY <2>2, Counts DEF AvailableWithinCapacity, CursorsOK
  <2>. QED
    BY <2>1, <2>2
<1>. QED
  BY <1>1, CursorsInvariant, PTL

-----------------------------------------------------------------------------
(* The circular buffer implements a bounded queue of bytes, for buffers of     *)
(* every size: wherever the cursors are, a call that is cut by the end of the  *)
(* memory moves the bytes the queue would move.                                *)

Cells == Byte \cup {NoByte}

\* The cursors, and a memory of as many cells as the size says.
RingOK == CursorsOK /\ mem \in [0..(size - 1) -> Cells]

\* How many bytes there are, for a buffer that exists; the i-th of them is in the i-th
\* cell from the read cursor.
LengthFact ==
  /\ Length \in Nat
  /\ size = 0 => Length = 0
  /\ size # 0 => Length = IF write >= read THEN write - read ELSE size + write - read
  /\ size # 0 => Length \in 0..(size - 1)

ContentsFact ==
  /\ Contents = [i \in 1..Length |-> mem[Cell(read, i)]]
  /\ Contents \in Seq(Cells) /\ Len(Contents) = Length

LEMMA LengthIs == RingOK => LengthFact
<1>. SUFFICES ASSUME RingOK PROVE LengthFact
  OBVIOUS
<1>1. CBAvailable = Length
  BY AvailableIsLength DEF RingOK
<1>2. size = 0 => Length = 0
  BY DEF Length
<1>. QED
  BY <1>1, <1>2, Counts DEF RingOK, CursorsOK, LengthFact

LEMMA ContentsAre == RingOK => ContentsFact
<1>. SUFFICES ASSUME RingOK PROVE ContentsFact
  OBVIOUS
<1>1. ASSUME NEW i \in 1..Length
      PROVE  (read + i - 1) % size = Cell(read, i) /\ Cell(read, i) \in 0..(size - 1)
  <2>1. size # 0 /\ size \in Nat /\ read \in 0..size /\ Length \in 0..(size - 1)
    BY LengthIs DEF RingOK, CursorsOK, LengthFact
  <2>2. i <= size - read => (read + i - 1) % size = read + i - 1
    BY <2>1
  <2>3. ~(i <= size - read) => (read + i - 1) % size = read + i - 1 - size
    BY <2>1
  <2>. QED
    BY <2>1, <2>2, <2>3 DEF Cell
<1>2. Contents = [i \in 1..Length |-> mem[Cell(read, i)]]
  BY <1>1 DEF Contents
<1>3. Contents \in [1..Length -> Cells]
  BY <1>1, <1>2 DEF RingOK
<1>4. Length \in Nat
  BY LengthIs DEF LengthFact
<1>. QED
  BY <1>2, <1>3, <1>4 DEF ContentsFact

\* So it is after a step as well.
LEMMA NextFacts == RingOK' => LengthFact' /\ ContentsFact'
BY LengthIs, ContentsAre, PTL

\* A read cursor that moves n bytes on, whichever of the two names of the end of the
\* memory it uses, takes n bytes off the queue.
LEMMA TakesOff ==
  ASSUME RingOK, RingOK', NEW n \in 0..Length, size # 0,
         UNCHANGED <<size, write, mem>>,
         read' = read + n \/ read' = read + n - size
  PROVE  Contents' = SubSeq(Contents, n + 1, Length)
<1>1. /\ size \in Nat \ {0} /\ read \in 0..size /\ write \in 0..size /\ read' \in 0..size
      /\ ~(read = 0 /\ write = size) /\ ~(read' = 0 /\ write = size)
      /\ size' = size /\ write' = write
  BY DEF RingOK, CursorsOK, NoFullLap
<1>2. Length = IF write >= read THEN write - read ELSE size + write - read
  BY LengthIs DEF LengthFact
<1>3. Length' = IF write >= read' THEN write - read' ELSE size + write - read'
  BY NextFacts DEF LengthFact
<1>4. Length' = Length - n
  <2>1. n \in Nat /\ n <= Length
    BY LengthIs DEF LengthFact
  <2>2. CASE read' = read + n
    BY <1>1, <1>2, <1>3, <2>1, <2>2
  <2>3. CASE read' = read + n - size
    BY <1>1, <1>2, <1>3, <2>1, <2>3
  <2>. QED
    BY <2>2, <2>3
<1>5. ASSUME NEW i \in 1..(Length - n)
      PROVE  mem'[Cell(read, i)'] = Contents[n + i]
  <2>1. n + i \in 1..Length /\ i \in 1..Length
    BY <1>1, <1>2
  <2>2. Contents[n + i] = mem[Cell(read, n + i)]
    BY <2>1, ContentsAre DEF ContentsFact
  <2>3. Cell(read, i)' = Cell(read, n + i)
    <3>1. CASE read' = read + n
      BY <1>1, <1>2, <2>1, <3>1 DEF Cell
    <3>2. CASE read' = read + n - size
      BY <1>1, <1>2, <2>1, <3>2 DEF Cell
    <3>. QED
      BY <3>1, <3>2
  <2>. QED
    BY <2>2, <2>3
<1>6. Contents' = [i \in 1..(Length - n) |-> mem'[Cell(read, i)']]
  BY <1>4, NextFacts DEF ContentsFact
<1>7. Contents \in Seq(Cells) /\ Len(Contents) = Length /\ Length \in Nat
  BY ContentsAre, LengthIs DEF ContentsFact, LengthFact
<1>8. SubSeq(Contents, n + 1, Length) = [i \in 1..(Length - n) |-> Contents[n + i]]
  BY <1>7
<1>. QED
  BY <1>5, <1>6, <1>8

\* What a read copies out is the front of the queue.
LEMMA CopiesOut ==
  ASSUME RingOK, NEW n \in 0..Length
  PROVE  [i \in 1..n |-> mem[Cell(read, i)]] = SubSeq(Contents, 1, n)
<1>1. Contents \in Seq(Cells) /\ Len(Contents) = Length /\ Length \in Nat
  BY ContentsAre, LengthIs DEF ContentsFact, LengthFact
<1>2. SubSeq(Contents, 1, n) = [i \in 1..n |-> Contents[i]]
  BY <1>1
<1>3. \A i \in 1..n : Contents[i] = mem[Cell(read, i)]
  BY <1>1, ContentsAre DEF ContentsFact
<1>. QED
  BY <1>2, <1>3

\* A write appends to the queue, wherever the end of the memory falls.
LEMMA PutsOn ==
  ASSUME RingOK, RingOK', NEW data \in Seq(Byte), size # 0,
         Len(data) <= CBFreeSpace, WriteBytes(data)
  PROVE  Contents' = Contents \o data
<1>1. /\ size \in Nat \ {0} /\ read \in 0..size /\ write \in 0..size /\ write' \in 0..size
      /\ ~(read = 0 /\ write = size) /\ ~(read = 0 /\ write' = size)
      /\ size' = size /\ read' = read /\ write' = After(write, Len(data))
  BY DEF RingOK, CursorsOK, NoFullLap, WriteBytes
<1>2. Length = IF write >= read THEN write - read ELSE size + write - read
  BY LengthIs DEF LengthFact
<1>3. Length' = IF write' >= read THEN write' - read ELSE size + write' - read
  BY <1>1, NextFacts DEF LengthFact
<1>4. Len(data) \in Nat /\ Len(data) <= size - 1 - Length
  BY AvailableIsLength, Counts DEF RingOK
<1>5. Length' = Length + Len(data)
  BY <1>1, <1>2, <1>3, <1>4 DEF After
<1>6. ASSUME NEW k \in 0..(size - 1)
      PROVE  mem'[k] = IF Index(write, k) <= Len(data) THEN data[Index(write, k)] ELSE mem[k]
  BY DEF WriteBytes, RingOK
<1>7. ASSUME NEW i \in 1..Length
      PROVE  mem'[Cell(read, i)'] = Contents[i]
  <2>1. Cell(read, i)' = Cell(read, i) /\ Cell(read, i) \in 0..(size - 1)
    BY <1>1, <1>2 DEF Cell
  <2>2. Index(write, Cell(read, i)) > Len(data)
    BY <1>1, <1>2, <1>4 DEF Cell, Index
  <2>3. mem'[Cell(read, i)] = mem[Cell(read, i)]
    BY <1>1, <1>4, <1>6, <2>1, <2>2 DEF Index
  <2>. QED
    BY <2>1, <2>3, ContentsAre DEF ContentsFact
<1>8. ASSUME NEW i \in (Length + 1)..(Length + Len(data))
      PROVE  mem'[Cell(read, i)'] = data[i - Length]
  <2>1. Cell(read, i)' = Cell(read, i) /\ Cell(read, i) \in 0..(size - 1)
    BY <1>1, <1>2, <1>4 DEF Cell
  <2>2. Index(write, Cell(read, i)) = i - Length /\ i - Length <= Len(data)
    BY <1>1, <1>2, <1>4 DEF Cell, Index
  <2>. QED
    BY <1>6, <2>1, <2>2
<1>9. /\ Contents \in Seq(Cells) /\ Len(Contents) = Length /\ Length \in Nat
      /\ data \in Seq(Cells)
  BY ContentsAre, LengthIs DEF ContentsFact, LengthFact, Cells
<1>10. Contents' = [i \in 1..(Length + Len(data)) |-> mem'[Cell(read, i)']]
  BY <1>5, NextFacts DEF ContentsFact
<1>. DEFINE joined == Contents \o data
<1>11. joined = [i \in 1..(Length + Len(data)) |->
                   IF i <= Length THEN Contents[i] ELSE data[i - Length]]
  <2>1. joined \in Seq(Cells) /\ Len(joined) = Length + Len(data)
    BY <1>9
  <2>2. \A i \in 1..(Length + Len(data)) :
           joined[i] = IF i <= Length THEN Contents[i] ELSE data[i - Length]
    BY <1>9
  <2>. HIDE DEF joined
  <2>. QED
    BY <2>1, <2>2
<1>12. ASSUME NEW i \in 1..(Length + Len(data))
       PROVE  mem'[Cell(read, i)'] = IF i <= Length THEN Contents[i] ELSE data[i - Length]
  <2>1. CASE i <= Length
    BY <1>7, <1>9, <2>1
  <2>2. CASE i > Length
    BY <1>4, <1>8, <1>9, <2>2
  <2>. QED
    BY <1>9, <2>1, <2>2
<1>. QED
  BY <1>10, <1>11, <1>12

-----------------------------------------------------------------------------
\* What the queue's capacity and its room are.
LEMMA RoomIs ==
  ASSUME RingOK
  PROVE  /\ CBFreeSpace = CBCapacity - Length /\ CBAvailable = Length
         /\ CBFreeSpace \in Nat
         /\ size = 0 => CBCapacity = 0 /\ Contents = <<>>
         /\ size # 0 => CBCapacity = size - 1 /\ CBCapacity > 0
<1>1. CursorsOK /\ size \in Nat /\ size # 1
  BY DEF RingOK, CursorsOK
<1>2. CBAvailable = Length /\ CBFreeSpace \in Nat
  BY <1>1, AvailableIsLength, CountsAreNatural
<1>3. CASE size = 0
  BY <1>1, <1>2, <1>3, LengthIs, ContentsAre DEF LengthFact, ContentsFact, CBFreeSpace, CBCapacity
<1>4. CASE size # 0
  BY <1>1, <1>2, <1>4, Counts
<1>. QED
  BY <1>1, <1>2, <1>3, <1>4

\* A buffer that does not exist is an empty queue.
LEMMA NextEmpty ==
  ASSUME RingOK', size' = 0 \/ read' = write'
  PROVE  Contents' = <<>>
<1>1. Length' = 0
  <2>1. size' \in Nat /\ read' \in Int /\ write' \in Int
    BY DEF RingOK, CursorsOK
  <2>2. /\ size' = 0 => Length' = 0
        /\ size' # 0 => Length' = IF write' >= read' THEN write' - read'
                                                     ELSE size' + write' - read'
    BY NextFacts DEF LengthFact
  <2>3. \A x \in Int : x - x = 0 /\ x >= x
    OBVIOUS
  <2>. QED
    BY <2>1, <2>2, <2>3, Zenon
<1>. QED
  BY <1>1, NextFacts DEF ContentsFact

\* A call that changes neither the cursors nor the memory changes no queue.
LEMMA NothingMoves ==
  ASSUME UNCHANGED <<size, read, write, mem>>
  PROVE  UNCHANGED <<CBCapacity, Contents>>
BY DEF CBCapacity, Contents, Length

\* What a call is given is a sequence of bytes, and so is its front.
LEMMA ChunkIsSeq ==
  ASSUME NEW data \in Chunks, NEW n \in 0..Len(data)
  PROVE  /\ data \in Seq(Byte)
         /\ SubSeq(data, 1, n) \in Seq(Byte) /\ Len(SubSeq(data, 1, n)) = n
<1>1. PICK m \in 0..MaxChunk : data \in [1..m -> Byte]
  BY DEF Chunks
<1>2. data \in Seq(Byte)
  BY <1>1, MaxChunkAssumption
<1>. QED
  BY <1>2
-----------------------------------------------------------------------------
\* The memory keeps its size and holds bytes.
LEMMA WriteKeepsMemory ==
  ASSUME RingOK, NEW data \in Seq(Byte), WriteBytes(data)
  PROVE  mem' \in [0..(size - 1) -> Cells]
<1>1. size \in Nat /\ write \in 0..size
  BY DEF RingOK, CursorsOK
<1>2. ASSUME NEW k \in 0..(size - 1)
      PROVE  Index(write, k) \in Nat \ {0}
  BY <1>1 DEF Index
<1>3. Len(data) \in Nat /\ \A i \in 1..Len(data) : data[i] \in Cells
  BY DEF Cells
<1>4. DOMAIN mem = 0..(size - 1) /\ \A k \in 0..(size - 1) : mem[k] \in Cells
  BY DEF RingOK
<1>5. ASSUME NEW k \in 0..(size - 1)
      PROVE  (IF Index(write, k) <= Len(data) THEN data[Index(write, k)] ELSE mem[k]) \in Cells
  <2>1. CASE Index(write, k) <= Len(data)
    BY <1>2, <1>3, <2>1
  <2>2. CASE ~(Index(write, k) <= Len(data))
    BY <1>4, <2>2
  <2>. QED
    BY <2>1, <2>2
<1>. QED
  BY <1>4, <1>5 DEF WriteBytes

LEMMA RingInvariant == RingSpec => []RingOK
<1>. DEFINE MemOK == mem \in [0..(size - 1) -> Cells]
<1>1. RingInit => MemOK
  BY DEF RingInit
<1>2. CursorsOK /\ MemOK /\ [RingNext]_ringVars => MemOK'
  <2>. SUFFICES ASSUME CursorsOK, MemOK, [RingNext]_ringVars PROVE MemOK'
    OBVIOUS
  <2>1. RingOK
    BY DEF RingOK
  <2>2. ASSUME UNCHANGED <<size, mem>> PROVE MemOK'
    BY <2>2
  <2>3. ASSUME NEW c \in 0..UintMax, CBCreate(c) PROVE MemOK'
    BY <2>3, UintMaxAssumption DEF CBCreate, Cells
  <2>4. ASSUME NEW data \in Seq(Byte), WriteBytes(data) PROVE MemOK'
    BY <2>1, <2>4, WriteKeepsMemory DEF WriteBytes
  <2>5. ASSUME NEW data \in Chunks, CBWrite(data) \/ CBWriteAvailable(data) PROVE MemOK'
    <3>1. Len(data) \in Nat /\ data \in Seq(Byte)
      BY ChunkLength, ChunkIsSeq, MaxChunkAssumption
    <3>2. CASE CBWrite(data)
      BY <2>2, <2>4, <3>1, <3>2 DEF CBWrite
    <3>3. CASE CBWriteAvailable(data)
      <4>. DEFINE n == Fewer(Len(data), CBFreeSpace)
      <4>1. n \in 0..Len(data)
        BY <3>1, CountsAreNatural DEF Fewer
      <4>2. SubSeq(data, 1, n) \in Seq(Byte)
        BY <4>1, ChunkIsSeq
      <4>3. WriteBytes(SubSeq(data, 1, n))
        BY <3>3 DEF CBWriteAvailable
      <4>. HIDE DEF n
      <4>. QED
        BY <2>4, <4>2, <4>3
    <3>. QED
      BY <2>5, <3>2, <3>3
  <2>6. ASSUME NEW n \in 0..MaxChunk,
               CBRead(n) \/ CBReadAvailable(n) \/ CBDiscard(n) \/ CBClear
        PROVE  MemOK'
    BY <2>2, <2>6 DEF CBRead, CBReadAvailable, ReadBytes, CBDiscard, CBClear
  <2>7. ASSUME UNCHANGED ringVars PROVE MemOK'
    BY <2>7 DEF ringVars
  <2>8. CASE CBClear
    BY <2>2, <2>8 DEF CBClear
  <2>. HIDE DEF MemOK
  <2>. QED
    BY <2>3, <2>5, <2>6, <2>7, <2>8 DEF RingNext
<1>3. CursorsOK /\ MemOK => RingOK
  BY DEF RingOK
<1>. HIDE DEF MemOK
<1>. QED
  BY <1>1, <1>2, <1>3, CursorsInvariant, PTL DEF RingSpec

-----------------------------------------------------------------------------
(* Each call does to the queue what the call of ByteQueue does.                 *)

LEMMA CreateMaps ==
  ASSUME RingOK, RingOK', NEW c \in 0..UintMax, CBCreate(c)
  PROVE  c \in 1..(UintMax - 1) /\ Queue!Create(c)
<1>1. size = 0 /\ size' = c + 1 /\ c \in 1..(UintMax - 1) /\ read' = write' /\ out' = out
  BY UintMaxAssumption DEF CBCreate
<1>2. CBCapacity = 0 /\ Contents = <<>>
  BY <1>1, RoomIs
<1>3. CBCapacity' = c
  BY <1>1, UintMaxAssumption DEF CBCapacity, U32
<1>4. Contents' = <<>>
  BY <1>1, NextEmpty
<1>. QED
  BY <1>1, <1>2, <1>3, <1>4 DEF Queue!Create

LEMMA WriteMaps ==
  ASSUME RingOK, RingOK', NEW data \in Chunks, CBWrite(data)
  PROVE  Queue!Write(data)
<1>1. Len(data) \in 0..Len(data) /\ data \in Seq(Byte) /\ Len(data) \in Nat
  BY ChunkLength, ChunkIsSeq, MaxChunkAssumption
<1>2. Queue!Room = CBFreeSpace /\ CBFreeSpace \in Nat
  BY RoomIs, ContentsAre DEF Queue!Room, ContentsFact
<1>3. CASE size # 0 /\ CBFreeSpace >= Len(data) /\ WriteBytes(data) /\ Returns(1, <<>>)
  <2>1. Contents' = Contents \o data
    BY <1>1, <1>2, <1>3, PutsOn
  <2>2. CBCapacity' = CBCapacity
    BY <1>3 DEF WriteBytes, CBCapacity
  <2>. QED
    BY <1>1, <1>2, <1>3, <2>1, <2>2, RoomIs DEF Queue!Write, Queue!Returns, Returns
<1>4. CASE /\ size = 0 \/ CBFreeSpace < Len(data)
           /\ Returns(0, <<>>) /\ UNCHANGED <<size, read, write, mem>>
  BY <1>1, <1>2, <1>4, NothingMoves, RoomIs DEF Queue!Write, Queue!Returns, Returns
<1>. QED
  BY <1>3, <1>4 DEF CBWrite

LEMMA WriteAvailableMaps ==
  ASSUME RingOK, RingOK', NEW data \in Chunks, CBWriteAvailable(data)
  PROVE  Queue!WriteAvailable(data)
<1>1. data \in Seq(Byte) /\ Len(data) \in Nat
  BY ChunkLength, ChunkIsSeq, MaxChunkAssumption
<1>2. Queue!Room = CBFreeSpace /\ CBFreeSpace \in Nat
  BY RoomIs, ContentsAre DEF Queue!Room, ContentsFact
<1>. DEFINE n == Fewer(Len(data), CBFreeSpace)
            part == SubSeq(data, 1, n)
<1>3. n \in 0..Len(data) /\ n <= CBFreeSpace
  BY <1>1, <1>2 DEF Fewer
<1>4. part \in Seq(Byte) /\ Len(part) = n
  BY <1>3, ChunkIsSeq
<1>5. WriteBytes(part) /\ Returns(n, <<>>)
  BY DEF CBWriteAvailable
<1>6. Queue!Least(Len(data), Queue!Room) = n /\ Queue!First(data, n) = part
  BY <1>2 DEF Queue!Least, Queue!First, Fewer
<1>. HIDE DEF n, part
<1>7. size' = size /\ CBCapacity' = CBCapacity
  BY <1>5 DEF WriteBytes, CBCapacity
<1>8. Contents' = Contents \o part
  <2>1. CASE size = 0
    <3>1. Contents = <<>> /\ CBFreeSpace = 0 /\ Contents' = <<>>
      BY <2>1, <1>7, RoomIs, NextEmpty DEF CBFreeSpace
    <3>2. part = <<>>
      BY <1>2, <1>3, <1>4, <3>1
    <3>. QED
      BY <3>1, <3>2
  <2>2. CASE size # 0
    BY <1>3, <1>4, <1>5, <2>2, PutsOn
  <2>. QED
    BY <2>1, <2>2
<1>. QED
  BY <1>5, <1>6, <1>7, <1>8 DEF Queue!WriteAvailable, Queue!Returns, Returns

\* What is common to the calls that take bytes off.
LEMMA TakingMaps ==
  ASSUME RingOK, RingOK', NEW n \in 0..Length, UNCHANGED <<size, write, mem>>,
         size # 0 => read' = read + n \/ read' = read + n - size
  PROVE  Contents' = Queue!Rest(Contents, n) /\ CBCapacity' = CBCapacity
<1>1. Len(Contents) = Length /\ Contents \in Seq(Cells) /\ Length \in Nat
  BY LengthIs, ContentsAre DEF LengthFact, ContentsFact
<1>2. Contents' = SubSeq(Contents, n + 1, Length)
  <2>1. CASE size = 0
    <3>1. Contents = <<>> /\ Contents' = <<>> /\ Length = 0
      BY <1>1, <2>1, RoomIs, NextEmpty
    <3>. QED
      BY <3>1
  <2>2. CASE size # 0
    BY <2>2, TakesOff
  <2>. QED
    BY <2>1, <2>2
<1>. QED
  BY <1>1, <1>2 DEF Queue!Rest, CBCapacity

LEMMA ReadMoves ==
  ASSUME RingOK, RingOK', NEW n \in 0..Length, NEW ret, ReadBytes(n, ret)
  PROVE  /\ Contents' = Queue!Rest(Contents, n) /\ CBCapacity' = CBCapacity
         /\ out' = [ret |-> ret, data |-> Queue!First(Contents, n)]
<1>1. read' = After(read, n) /\ UNCHANGED <<size, write, mem>>
  BY DEF ReadBytes
<1>2. size # 0 => read' = read + n \/ read' = read + n - size
  BY <1>1, LengthIs DEF After, RingOK, CursorsOK, LengthFact
<1>. QED
  BY <1>1, <1>2, TakingMaps, CopiesOut DEF ReadBytes, Returns, Queue!First

LEMMA ReadMaps ==
  ASSUME RingOK, RingOK', NEW n \in 0..MaxChunk, CBRead(n)
  PROVE  Queue!Read(n)
<1>1. /\ CBAvailable = Length /\ Len(Contents) = Length /\ Length \in Nat /\ n \in Nat
      /\ size = 0 => Length = 0
  BY RoomIs, LengthIs, ContentsAre, MaxChunkAssumption DEF LengthFact, ContentsFact
<1>2. CASE n # 0 /\ CBAvailable >= n /\ ReadBytes(n, 1)
  BY <1>1, <1>2, ReadMoves DEF Queue!Read, Queue!Returns
<1>3. CASE /\ size = 0 \/ n = 0 \/ CBAvailable < n
           /\ Returns(0, <<>>) /\ UNCHANGED <<size, read, write, mem>>
  BY <1>1, <1>3, NothingMoves DEF Queue!Read, Queue!Returns, Returns
<1>. QED
  BY <1>2, <1>3 DEF CBRead

LEMMA ReadAvailableMaps ==
  ASSUME RingOK, RingOK', NEW n \in 0..MaxChunk, CBReadAvailable(n)
  PROVE  Queue!ReadAvailable(n)
<1>1. CBAvailable = Length /\ Len(Contents) = Length /\ Length \in Nat /\ n \in Nat
  BY RoomIs, LengthIs, ContentsAre, MaxChunkAssumption DEF LengthFact, ContentsFact
<1>. DEFINE k == Fewer(n, Length)
<1>2. k \in 0..Length /\ k = Queue!Least(n, Len(Contents))
  BY <1>1 DEF Fewer, Queue!Least
<1>3. ReadBytes(k, k)
  BY <1>1 DEF CBReadAvailable
<1>. HIDE DEF k
<1>. QED
  BY <1>2, <1>3, ReadMoves DEF Queue!ReadAvailable, Queue!Returns

LEMMA DiscardMaps ==
  ASSUME RingOK, RingOK', NEW n \in 0..MaxChunk, CBDiscard(n)
  PROVE  Queue!Discard(n)
<1>1. CBAvailable = Length /\ Len(Contents) = Length /\ Length \in Nat /\ n \in Nat
  BY RoomIs, LengthIs, ContentsAre, MaxChunkAssumption DEF LengthFact, ContentsFact
<1>. DEFINE k == Fewer(n, Length)
<1>2. k \in 0..Length /\ k = Queue!Least(n, Len(Contents))
  BY <1>1 DEF Fewer, Queue!Least
<1>3. /\ read' = IF k < size - read THEN read + k ELSE k - (size - read)
      /\ Returns(k, <<>>) /\ UNCHANGED <<size, write, mem>>
  BY <1>1 DEF CBDiscard
<1>. HIDE DEF k
<1>4. size # 0 => read' = read + k \/ read' = read + k - size
  BY <1>1, <1>2, <1>3 DEF RingOK, CursorsOK
<1>. QED
  BY <1>2, <1>3, <1>4, TakingMaps DEF Queue!Discard, Queue!Returns, Returns

LEMMA ClearMaps ==
  ASSUME RingOK', CBClear
  PROVE  Queue!Clear
<1>1. read' = write' /\ UNCHANGED size
  BY DEF CBClear
<1>2. Contents' = <<>> /\ CBCapacity' = CBCapacity
  BY <1>1, NextEmpty DEF CBCapacity
<1>. QED
  BY <1>2 DEF CBClear, Queue!Clear, Queue!Returns, Returns

\* Every call of a circular buffer of any size does what it does to a bounded queue: the
\* bytes come out once, in the order they went in.
THEOREM RingImplementsQueue == RingSpec => ImplementsQueue
<1>1. RingInit => Queue!Init
  <2>. SUFFICES ASSUME RingInit PROVE Queue!Init
    OBVIOUS
  <2>1. CBCapacity = 0 /\ Length = 0
    BY DEF RingInit, CBCapacity, Length
  <2>2. Contents = <<>>
    BY <2>1 DEF Contents
  <2>. QED
    BY <2>1, <2>2 DEF RingInit, Queue!Init
<1>2. RingOK /\ RingOK' /\ [RingNext]_ringVars => [Queue!Next]_(Queue!vars)
  <2>. SUFFICES ASSUME RingOK, RingOK', [RingNext]_ringVars PROVE [Queue!Next]_(Queue!vars)
    OBVIOUS
  <2>1. ASSUME NEW c \in 0..UintMax, CBCreate(c) PROVE Queue!Next
    BY <2>1, CreateMaps DEF Queue!Next
  <2>2. ASSUME NEW data \in Chunks, CBWrite(data) \/ CBWriteAvailable(data) PROVE Queue!Next
    <3>1. data \in Queue!Chunks
      BY DEF Chunks, Queue!Chunks
    <3>. QED
      BY <2>2, <3>1, WriteMaps, WriteAvailableMaps DEF Queue!Next
  <2>3. ASSUME NEW n \in 0..MaxChunk, CBRead(n) \/ CBReadAvailable(n) \/ CBDiscard(n)
        PROVE  Queue!Next
    BY <2>3, ReadMaps, ReadAvailableMaps, DiscardMaps DEF Queue!Next
  <2>4. CASE CBClear
    BY <2>4, ClearMaps DEF Queue!Next
  <2>5. CASE UNCHANGED ringVars
    BY <2>5, NothingMoves DEF ringVars, Queue!vars
  <2>. QED
    BY <2>1, <2>2, <2>3, <2>4, <2>5 DEF RingNext
<1>. QED
  BY <1>1, <1>2, RingInvariant, PTL DEF RingSpec, ImplementsQueue, Queue!Spec

-----------------------------------------------------------------------------
\* What is in the queue was written by somebody: memory that was never written does not
\* come out of a buffer.
Answered == /\ Contents \in Seq(Byte)
            /\ out \in [ret : 0..UintMax, data : Chunks]

LEMMA SomeChunks ==
  /\ <<>> \in Chunks
  /\ \A q \in Seq(Byte) : \A n \in 0..Len(q) :
       /\ SubSeq(q, 1, n) \in Seq(Byte) /\ SubSeq(q, n + 1, Len(q)) \in Seq(Byte)
       /\ n <= MaxChunk => SubSeq(q, 1, n) \in Chunks
<1>1. <<>> \in [1..0 -> Byte] /\ 0 \in 0..MaxChunk
  BY MaxChunkAssumption
<1>2. ASSUME NEW q \in Seq(Byte), NEW n \in 0..Len(q)
      PROVE  /\ SubSeq(q, 1, n) \in Seq(Byte) /\ SubSeq(q, n + 1, Len(q)) \in Seq(Byte)
             /\ n <= MaxChunk => SubSeq(q, 1, n) \in Chunks
  <2>1. SubSeq(q, 1, n) \in Seq(Byte) /\ SubSeq(q, n + 1, Len(q)) \in Seq(Byte)
    OBVIOUS
  <2>2. SubSeq(q, 1, n) \in [1..n -> Byte]
    <3>1. SubSeq(q, 1, n) = [i \in 1..n |-> q[i]]
      OBVIOUS
    <3>2. \A i \in 1..n : q[i] \in Byte
      OBVIOUS
    <3>. QED
      BY <3>1, <3>2
  <2>3. n <= MaxChunk => n \in 0..MaxChunk
    BY MaxChunkAssumption
  <2>. QED
    BY <2>1, <2>2, <2>3 DEF Chunks
<1>. QED
  BY <1>1, <1>2 DEF Chunks

LEMMA QueueAnswers ==
  ASSUME Answered, [Queue!Next]_(Queue!vars), RingOK
  PROVE  Answered'
<1>1. /\ Contents \in Seq(Byte) /\ Len(Contents) \in Nat
      /\ out \in [ret : 0..UintMax, data : Chunks]
  BY DEF Answered
<1>2. 0 \in 0..UintMax /\ 1 \in 0..UintMax
  BY UintMaxAssumption
<1>. USE <1>1, <1>2 DEF Answered, Queue!Returns
<1>0. ASSUME NEW q \in Seq(Byte), NEW r \in 0..UintMax, NEW d \in Chunks,
             Contents' = q, out' = [ret |-> r, data |-> d]
      PROVE  Answered'
  BY <1>0
<1>3. ASSUME NEW c \in 1..(UintMax - 1), Queue!Create(c) PROVE Answered'
  BY <1>3 DEF Queue!Create
<1>4. ASSUME NEW data \in Chunks, Queue!Write(data) \/ Queue!WriteAvailable(data)
      PROVE  Answered'
  <2>1. data \in Seq(Byte) /\ Len(data) \in 0..UintMax
    BY ChunkIsSeq, ChunkLength, MaxChunkAssumption, UintMaxAssumption
  <2>2. CASE Queue!Write(data)
    <3>1. Contents \o data \in Seq(Byte) /\ <<>> \in Chunks
      BY <2>1, SomeChunks
    <3>. QED
      BY <2>2, <3>1, <1>0 DEF Queue!Write
  <2>3. CASE Queue!WriteAvailable(data)
    <3>1. Queue!Room \in Nat
      BY RoomIs, ContentsAre DEF Queue!Room, ContentsFact
    <3>2. Queue!Least(Len(data), Queue!Room) \in 0..Len(data)
      BY <2>1, <3>1 DEF Queue!Least
    <3>3. Queue!First(data, Queue!Least(Len(data), Queue!Room)) \in Seq(Byte)
      BY <2>1, <3>2, SomeChunks DEF Queue!First
    <3>4. Queue!Least(Len(data), Queue!Room) \in 0..UintMax
      BY <2>1, <3>2, UintMaxAssumption
    <3>. QED
      BY <2>3, <3>3, <3>4, SomeChunks DEF Queue!WriteAvailable
  <2>. QED
    BY <1>4, <2>2, <2>3
<1>5. ASSUME NEW n \in 0..MaxChunk, Queue!Read(n) PROVE Answered'
  <2>1. CASE 0 < n /\ n <= Len(Contents)
    <3>1. n \in 0..Len(Contents) /\ n <= MaxChunk
      BY <2>1, MaxChunkAssumption
    <3>2. Queue!First(Contents, n) \in Chunks /\ Queue!Rest(Contents, n) \in Seq(Byte)
      BY <3>1, SomeChunks DEF Queue!First, Queue!Rest
    <3>3. Contents' = Queue!Rest(Contents, n)
          /\ out' = [ret |-> 1, data |-> Queue!First(Contents, n)]
      BY <1>5, <2>1, <3>1 DEF Queue!Read
    <3>. QED
      BY <3>2, <3>3, <1>0
  <2>2. CASE n = 0 \/ n > Len(Contents)
    BY <1>5, <2>2, SomeChunks, MaxChunkAssumption DEF Queue!Read
  <2>. QED
    BY <1>5, <2>1, <2>2 DEF Queue!Read
<1>6. ASSUME NEW n \in 0..MaxChunk, Queue!ReadAvailable(n) \/ Queue!Discard(n) PROVE Answered'
  <2>. DEFINE k == Queue!Least(n, Len(Contents))
  <2>1. k \in 0..Len(Contents) /\ k <= MaxChunk /\ k \in 0..UintMax
    BY MaxChunkAssumption, UintMaxAssumption DEF Queue!Least
  <2>2. /\ Contents' = Queue!Rest(Contents, k)
        /\ \/ out' = [ret |-> k, data |-> Queue!First(Contents, k)]
           \/ out' = [ret |-> k, data |-> <<>>]
    BY <1>6 DEF Queue!ReadAvailable, Queue!Discard
  <2>. HIDE DEF k
  <2>3. Queue!First(Contents, k) \in Chunks /\ Queue!Rest(Contents, k) \in Seq(Byte)
    BY <2>1, SomeChunks DEF Queue!First, Queue!Rest
  <2>. QED
    BY <2>1, <2>2, <2>3, SomeChunks, <1>0
<1>7. CASE Queue!Clear
  BY <1>7, SomeChunks DEF Queue!Clear
<1>8. CASE UNCHANGED Queue!vars
  BY <1>8 DEF Queue!vars
<1>. QED
  BY <1>3, <1>4, <1>5, <1>6, <1>7, <1>8 DEF Queue!Next, Queue!Chunks, Chunks

\* The variables of a circular buffer stay in their types, and what it hands over was
\* written to it.
THEOREM RingTypeCorrect == RingSpec => []RingTypeOK
<1>1. RingInit => Answered
  <2>. SUFFICES ASSUME RingInit PROVE Answered
    OBVIOUS
  <2>1. Length = 0
    BY DEF RingInit, Length
  <2>2. Contents = <<>>
    BY <2>1 DEF Contents
  <2>. QED
    BY <2>2, SomeChunks, UintMaxAssumption DEF RingInit, Answered
<1>2. Answered /\ RingOK /\ [Queue!Next]_(Queue!vars) => Answered'
  BY QueueAnswers
<1>3. RingOK /\ Answered => RingTypeOK
  BY DEF RingOK, CursorsOK, Answered, RingTypeOK, Cells
<1>. QED
  BY <1>1, <1>2, <1>3, RingInvariant, RingImplementsQueue, PTL
     DEF RingSpec, ImplementsQueue, Queue!Spec
=============================================================================
