----------------------------- MODULE ByteQueue -----------------------------
(* What a circular buffer promises: a first-in first-out queue of at most      *)
(* capacity bytes, and calls that say how many bytes they moved.               *)
EXTENDS Integers, Sequences

CONSTANTS
  MaxCapacity,  \* the largest queue there may be
  Byte,         \* what a byte may be
  MaxChunk      \* the longest run of bytes a call is given or asks for

Chunks == UNION {[1..n -> Byte] : n \in 0..MaxChunk}

VARIABLES
  capacity,  \* of the queue; 0 while it does not exist
  queue,     \* the bytes written and not yet read
  out        \* what the last call returned, and the bytes it handed over

vars == <<capacity, queue, out>>

Least(m, n) == IF m <= n THEN m ELSE n
First(s, n) == SubSeq(s, 1, n)
Rest(s, n)  == SubSeq(s, n + 1, Len(s))
Room        == capacity - Len(queue)

Returns(n, data) == out' = [ret |-> n, data |-> data]

Init == capacity = 0 /\ queue = <<>> /\ out = [ret |-> 0, data |-> <<>>]

Create(c) == capacity = 0 /\ capacity' = c /\ UNCHANGED <<queue, out>>

\* All of data or none of it.
Write(data) ==
  \/ /\ capacity > 0 /\ Len(data) <= Room
     /\ queue' = queue \o data
     /\ Returns(1, <<>>)
     /\ UNCHANGED capacity
  \/ /\ capacity = 0 \/ Len(data) > Room
     /\ Returns(0, <<>>)
     /\ UNCHANGED <<capacity, queue>>

\* As much of data as there is room for.
WriteAvailable(data) ==
  /\ queue' = queue \o First(data, Least(Len(data), Room))
  /\ Returns(Least(Len(data), Room), <<>>)
  /\ UNCHANGED capacity

\* Exactly n bytes, n > 0, or none.
Read(n) ==
  \/ /\ 0 < n /\ n <= Len(queue)
     /\ queue' = Rest(queue, n)
     /\ Returns(1, First(queue, n))
     /\ UNCHANGED capacity
  \/ /\ n = 0 \/ n > Len(queue)
     /\ Returns(0, <<>>)
     /\ UNCHANGED <<capacity, queue>>

\* At most n bytes.
ReadAvailable(n) ==
  /\ queue' = Rest(queue, Least(n, Len(queue)))
  /\ Returns(Least(n, Len(queue)), First(queue, Least(n, Len(queue))))
  /\ UNCHANGED capacity

\* At most n bytes, handed to nobody.
Discard(n) ==
  /\ queue' = Rest(queue, Least(n, Len(queue)))
  /\ Returns(Least(n, Len(queue)), <<>>)
  /\ UNCHANGED capacity

Clear == queue' = <<>> /\ Returns(0, <<>>) /\ UNCHANGED capacity

Next ==
  \/ \E c \in 1..MaxCapacity : Create(c)
  \/ \E data \in Chunks : Write(data) \/ WriteAvailable(data)
  \/ \E n \in 0..MaxChunk : Read(n) \/ ReadAvailable(n) \/ Discard(n)
  \/ Clear

Spec == Init /\ [][Next]_vars
=============================================================================
