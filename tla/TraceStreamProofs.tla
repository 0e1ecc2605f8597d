------------------------- MODULE TraceStreamProofs -------------------------
(* For buffers, records and reads of every size: no byte of a stream is lost,  *)
(* repeated or displaced between the log calls and the debugger, but those of  *)
(* the reads that fail.                                                        *)
EXTENDS TraceStream, SequenceTheorems, TLAPS

-----------------------------------------------------------------------------
(* Sequences of bytes.                                                         *)

\* A sequence is what is taken from its front and the rest.
LEMMA Split ==
  ASSUME NEW s \in Seq(Nat), NEW k \in 0..Len(s)
  PROVE  /\ SubSeq(s, 1, k) \in Seq(Nat) /\ SubSeq(s, k + 1, Len(s)) \in Seq(Nat)
         /\ Len(SubSeq(s, 1, k)) = k
         /\ Len(SubSeq(s, k + 1, Len(s))) = Len(s) - k
         /\ SubSeq(s, 1, k) \o SubSeq(s, k + 1, Len(s)) = s
<1>1. SubSeq(s, 1, k) \in Seq(Nat) /\ Len(SubSeq(s, 1, k)) = k
  OBVIOUS
<1>2. /\ SubSeq(s, k + 1, Len(s)) \in Seq(Nat)
      /\ Len(SubSeq(s, k + 1, Len(s))) = Len(s) - k
  OBVIOUS
<1>3. SubSeq(s, 1, k) \o SubSeq(s, k + 1, Len(s)) = SubSeq(s, 1, Len(s))
  <2>1. 1 \in 1..(Len(s) + 1) /\ k \in (1 - 1)..Len(s) /\ Len(s) \in k..Len(s)
    OBVIOUS
  <2>. QED
    BY <2>1, ConcatAdjacentSubSeq
<1>4. SubSeq(s, 1, Len(s)) = s
  BY SubSeqFull
<1>. QED
  BY <1>1, <1>2, <1>3, <1>4

\* The parts of a sequence that is cut in two.
LEMMA JoinedAt ==
  ASSUME NEW s \in Seq(Nat), NEW t \in Seq(Nat)
  PROVE  /\ s \o t \in Seq(Nat) /\ Len(s \o t) = Len(s) + Len(t)
         /\ DOMAIN (s \o t) = 1..(Len(s) + Len(t))
         /\ \A i \in 1..Len(s) : (s \o t)[i] = s[i]
         /\ \A i \in 1..Len(t) : (s \o t)[Len(s) + i] = t[i]
OBVIOUS

LEMMA BytesJoined ==
  ASSUME NEW s \in Seq(Nat), NEW t \in Seq(Nat)
  PROVE  Bytes(s \o t) = Bytes(s) \cup Bytes(t)
<1>1. ASSUME NEW i \in 1..(Len(s) + Len(t))
      PROVE  (s \o t)[i] \in Bytes(s) \cup Bytes(t)
  <2>1. CASE i <= Len(s)
    BY <2>1, JoinedAt DEF Bytes
  <2>2. CASE i > Len(s)
    <3>1. i - Len(s) \in 1..Len(t) /\ i = Len(s) + (i - Len(s))
      BY <2>2
    <3>2. (s \o t)[i] = t[i - Len(s)]
      BY <3>1, JoinedAt
    <3>. QED
      BY <3>1, <3>2 DEF Bytes
  <2>. QED
    BY <2>1, <2>2
<1>2. ASSUME NEW i \in 1..Len(s) PROVE s[i] \in Bytes(s \o t)
  <2>1. i \in DOMAIN (s \o t) /\ (s \o t)[i] = s[i]
    BY JoinedAt
  <2>. QED
    BY <2>1 DEF Bytes
<1>3. ASSUME NEW i \in 1..Len(t) PROVE t[i] \in Bytes(s \o t)
  <2>1. Len(s) + i \in DOMAIN (s \o t) /\ (s \o t)[Len(s) + i] = t[i]
    BY JoinedAt
  <2>. QED
    BY <2>1 DEF Bytes
<1>4. DOMAIN (s \o t) = 1..(Len(s) + Len(t)) /\ DOMAIN s = 1..Len(s) /\ DOMAIN t = 1..Len(t)
  BY JoinedAt
<1>. QED
  BY <1>1, <1>2, <1>3, <1>4 DEF Bytes

\* A place beyond the first part is one in the second.
LEMMA Beyond ==
  ASSUME NEW a \in Nat, NEW b \in Nat, NEW i \in 1..(a + b), i > a
  PROVE  \E k \in 1..b : i = a + k
<1>1. i - a \in 1..b /\ i = a + (i - a)
  OBVIOUS
<1>. QED
  BY <1>1

\* A sequence is in order if its two parts are and everything in the first is before
\* everything in the second.
LEMMA OrderJoined ==
  ASSUME NEW s \in Seq(Nat), NEW t \in Seq(Nat)
  PROVE  InOrder(s \o t) <=> /\ InOrder(s) /\ InOrder(t)
                             /\ \A x \in Bytes(s), y \in Bytes(t) : x < y
<1>. DEFINE joined == s \o t
<1>1. /\ DOMAIN joined = 1..(Len(s) + Len(t)) /\ DOMAIN s = 1..Len(s) /\ DOMAIN t = 1..Len(t)
      /\ \A i \in 1..Len(s) : joined[i] = s[i]
      /\ \A i \in 1..Len(t) : joined[Len(s) + i] = t[i]
      /\ Len(s) \in Nat /\ Len(t) \in Nat
  BY JoinedAt
<1>. HIDE DEF joined
<1>2. ASSUME InOrder(joined)
      PROVE  InOrder(s) /\ InOrder(t) /\ \A x \in Bytes(s), y \in Bytes(t) : x < y
  <2>1. InOrder(s)
    BY <1>1, <1>2 DEF InOrder
  <2>2. ASSUME NEW i \in DOMAIN t, NEW j \in DOMAIN t, i < j PROVE t[i] < t[j]
    <3>1. /\ Len(s) + i \in DOMAIN joined /\ Len(s) + j \in DOMAIN joined
          /\ Len(s) + i < Len(s) + j
      BY <1>1, <2>2
    <3>. QED
      BY <1>1, <1>2, <3>1 DEF InOrder
  <2>3. ASSUME NEW i \in DOMAIN s, NEW j \in DOMAIN t PROVE s[i] < t[j]
    <3>1. i \in DOMAIN joined /\ Len(s) + j \in DOMAIN joined /\ i < Len(s) + j
      BY <1>1
    <3>. QED
      BY <1>1, <1>2, <3>1 DEF InOrder
  <2>. QED
    BY <2>1, <2>2, <2>3 DEF InOrder, Bytes
<1>3. ASSUME InOrder(s), InOrder(t), \A x \in Bytes(s), y \in Bytes(t) : x < y,
             NEW i \in DOMAIN joined, NEW j \in DOMAIN joined, i < j
      PROVE  joined[i] < joined[j]
  <2>1. CASE j <= Len(s)
    BY <1>1, <1>3, <2>1 DEF InOrder
  <2>2. CASE i > Len(s)
    <3>1. i \in 1..(Len(s) + Len(t)) /\ j \in 1..(Len(s) + Len(t)) /\ j > Len(s)
      BY <1>1, <1>3, <2>2
    <3>2. PICK k \in 1..Len(t) : i = Len(s) + k
      BY <1>1, <2>2, <3>1, Beyond
    <3>3. PICK l \in 1..Len(t) : j = Len(s) + l
      BY <1>1, <3>1, Beyond
    <3>4. joined[i] = t[k] /\ joined[j] = t[l] /\ k < l
      BY <1>1, <1>3, <3>2, <3>3
    <3>. QED
      BY <1>1, <1>3, <3>4 DEF InOrder
  <2>3. CASE i <= Len(s) /\ j > Len(s)
    <3>1. i \in DOMAIN s /\ j - Len(s) \in DOMAIN t /\ j = Len(s) + (j - Len(s))
      BY <1>1, <2>3
    <3>2. joined[i] = s[i] /\ joined[j] = t[j - Len(s)]
      BY <1>1, <3>1
    <3>. QED
      BY <1>3, <3>1, <3>2 DEF Bytes
  <2>. QED
    BY <1>1, <2>1, <2>2, <2>3
<1>4. InOrder(s) /\ InOrder(t) /\ (\A x \in Bytes(s), y \in Bytes(t) : x < y) => InOrder(joined)
  BY <1>3 DEF InOrder
<1>. QED
  BY <1>2, <1>4 DEF joined

\* What is taken out of the middle takes its bytes with it and leaves the order.
LEMMA DropMiddle ==
  ASSUME NEW r \in Seq(Nat), NEW s \in Seq(Nat), NEW t \in Seq(Nat),
         InOrder(r \o (s \o t))
  PROVE  InOrder(r \o t) /\ Bytes(r \o t) = Bytes(r \o (s \o t)) \ Bytes(s)
<1>1. s \o t \in Seq(Nat)
  OBVIOUS
<1>2. /\ InOrder(r) /\ InOrder(s \o t)
      /\ \A x \in Bytes(r), y \in Bytes(s \o t) : x < y
  BY <1>1, OrderJoined
<1>3. InOrder(t) /\ \A x \in Bytes(s), y \in Bytes(t) : x < y
  BY <1>2, OrderJoined
<1>4. /\ Bytes(s \o t) = Bytes(s) \cup Bytes(t)
      /\ Bytes(r \o t) = Bytes(r) \cup Bytes(t)
      /\ Bytes(r \o (s \o t)) = Bytes(r) \cup Bytes(s \o t)
  BY <1>1, BytesJoined
<1>5. InOrder(r \o t)
  BY <1>2, <1>3, <1>4, OrderJoined
<1>6. /\ Bytes(r) \subseteq Nat /\ Bytes(s) \subseteq Nat /\ Bytes(t) \subseteq Nat
  BY DEF Bytes
<1>7. Bytes(r) \cap Bytes(s) = {} /\ Bytes(t) \cap Bytes(s) = {}
  BY <1>2, <1>3, <1>4, <1>6
<1>. QED
  BY <1>4, <1>5, <1>7

\* The next n bytes of a stream that has m.
LEMMA NextBytes ==
  ASSUME NEW s \in Seq(Nat), NEW m \in Nat, NEW n \in Nat,
         InOrder(s), Bytes(s) \subseteq 1..m
  PROVE  /\ From(m, n) \in Seq(Nat)
         /\ InOrder(s \o From(m, n))
         /\ Bytes(s \o From(m, n)) = Bytes(s) \cup (m + 1)..(m + n)
<1>1. From(m, n) \in Seq(Nat) /\ DOMAIN From(m, n) = 1..n
  BY DEF From
<1>2. InOrder(From(m, n))
  BY <1>1 DEF From, InOrder
<1>3. Bytes(From(m, n)) = (m + 1)..(m + n)
  <2>1. ASSUME NEW x \in (m + 1)..(m + n) PROVE \E i \in 1..n : From(m, n)[i] = x
    <3>1. x - m \in 1..n /\ From(m, n)[x - m] = x
      BY DEF From
    <3>. QED
      BY <3>1
  <2>2. \A i \in 1..n : From(m, n)[i] \in (m + 1)..(m + n)
    BY DEF From
  <2>. QED
    BY <1>1, <2>1, <2>2 DEF Bytes
<1>4. \A x \in Bytes(s), y \in (m + 1)..(m + n) : x < y
  OBVIOUS
<1>. QED
  BY <1>1, <1>2, <1>3, <1>4, OrderJoined, BytesJoined

\* What crosses a border between two neighbours stays in the sequence.
LEMMA BorderLeft ==
  ASSUME NEW x \in Seq(Nat), NEW a \in Seq(Nat), NEW b \in Seq(Nat)
  PROVE  x \o a \o b = x \o (a \o b)
BY ConcatAssociative

LEMMA NoBytes ==
  ASSUME NEW x \in Seq(Nat)
  PROVE  x \o <<>> = x /\ <<>> \o x = x
BY ConcatEmptySeq

-----------------------------------------------------------------------------
(* The invariant.                                                              *)

\* What the variables that StreamIntact reads are.
StreamTyped ==
  /\ queue \in [Channels -> Seq(Nat)] /\ received \in [Channels -> Seq(Nat)]
  /\ logged \in [Channels -> Nat] /\ dropped \in [Channels -> SUBSET Nat]
  /\ left \in Seq(Nat) /\ inHand \in Seq(Nat) /\ payload \in Nat
  /\ channel \in Channels /\ reading \in Channels

\* Nothing is left to write outside WriteBuffer, and nothing is held outside a read.
NothingElsewhere ==
  /\ tracer \notin {"writing", "notify"} => left = <<>> /\ payload = 0
  /\ reader \notin {"unlocked", "sending"} => inHand = <<>>

\* Only what was logged can be dropped.
DroppedWasLogged == \A ch \in Channels : dropped[ch] \subseteq 1..logged[ch]

StreamInv == StreamTyped /\ NothingElsewhere /\ DroppedWasLogged /\ StreamIntact

\* The parts of a stream are sequences, whatever the threads are doing.
LEMMA PartsTyped ==
  ASSUME StreamTyped, NEW ch \in Channels
  PROVE  /\ received[ch] \in Seq(Nat) /\ InFlight(ch) \in Seq(Nat)
         /\ queue[ch] \in Seq(Nat) /\ Unwritten(ch) \in Seq(Nat)
         /\ Stream(ch) \in Seq(Nat)
<1>1. /\ received[ch] \in Seq(Nat) /\ queue[ch] \in Seq(Nat)
      /\ <<>> \in Seq(Nat)
  BY DEF StreamTyped
<1>2. InFlight(ch) \in Seq(Nat) /\ Unwritten(ch) \in Seq(Nat)
  BY <1>1 DEF StreamTyped, InFlight, Unwritten
<1>. QED
  BY <1>1, <1>2, JoinedAt DEF Stream

\* The bytes of a stream are those of its parts.
LEMMA BytesOfParts ==
  ASSUME StreamTyped, NEW ch \in Channels
  PROVE  /\ Bytes(Stream(ch)) = Bytes(received[ch]) \cup Bytes(InFlight(ch))
                                   \cup Bytes(queue[ch]) \cup Bytes(Unwritten(ch))
         /\ Bytes(inHand) \subseteq Nat
<1>. DEFINE r == received[ch]  f == InFlight(ch)  q == queue[ch]  u == Unwritten(ch)
<1>1. r \in Seq(Nat) /\ f \in Seq(Nat) /\ q \in Seq(Nat) /\ u \in Seq(Nat)
  BY PartsTyped
<1>2. Stream(ch) = r \o f \o q \o u
  BY DEF Stream
<1>3. inHand \in Seq(Nat) /\ DOMAIN inHand = 1..Len(inHand)
  BY DEF StreamTyped
<1>. HIDE DEF r, f, q, u
<1>4. r \o f \in Seq(Nat) /\ r \o f \o q \in Seq(Nat)
  BY <1>1, JoinedAt
<1>5. /\ Bytes(r \o f) = Bytes(r) \cup Bytes(f)
      /\ Bytes(r \o f \o q) = Bytes(r \o f) \cup Bytes(q)
      /\ Bytes(r \o f \o q \o u) = Bytes(r \o f \o q) \cup Bytes(u)
  BY <1>1, <1>4, BytesJoined
<1>6. Bytes(inHand) \subseteq Nat
  BY <1>3 DEF Bytes
<1>. QED
  BY <1>2, <1>5, <1>6 DEF r, f, q, u

LEMMA StreamInitially == Init => StreamInv
<1>. SUFFICES ASSUME Init PROVE StreamInv
  OBVIOUS
<1>1. StreamTyped /\ NothingElsewhere /\ DroppedWasLogged
  BY DEF Init, StreamTyped, NothingElsewhere, DroppedWasLogged, Channels
<1>2. ASSUME NEW ch \in Channels PROVE Stream(ch) = <<>>
  BY NoBytes DEF Init, Stream, InFlight, Unwritten
<1>3. InOrder(<<>>) /\ Bytes(<<>>) = {}
  BY DEF InOrder, Bytes
<1>4. \A ch \in Channels : (1..logged[ch]) \ dropped[ch] = {}
  BY DEF Init
<1>. QED
  BY <1>1, <1>2, <1>3, <1>4 DEF StreamInv, StreamIntact

\* The turn that moves n bytes: what was written and what is left are what was to write.
LEMMA WrittenAndLeft ==
  ASSUME StreamInv, Capacity \in [Channels -> Nat \ {0}], WriteSome
  PROVE  \E n \in 0..Len(left) :
           /\ queue' = [queue EXCEPT ![channel] = @ \o SubSeq(left, 1, n)]
           /\ left' = SubSeq(left, n + 1, Len(left))
<1>. DEFINE n == Least(Len(left), Room(channel))
<1>1. Len(left) \in Nat /\ Room(channel) \in Int
  <2>1. Capacity[channel] \in Nat /\ Len(queue[channel]) \in Nat /\ Len(left) \in Nat
    BY DEF StreamInv, StreamTyped
  <2>. QED
    BY <2>1 DEF Room
<1>3. n > 0
  BY DEF WriteSome
<1>2. n \in 0..Len(left)
  BY <1>1, <1>3 DEF Least
<1>. QED
  BY <1>2 DEF WriteSome

\* So with what is read and what stays.
LEMMA ReadAndKept ==
  ASSUME StreamInv, NEW m \in 1..MaxRead, MaxRead \in Nat, ReadSome(m)
  PROVE  \E k \in 0..Len(queue[reading]) :
           /\ inHand' = SubSeq(queue[reading], 1, k)
           /\ queue' = [queue EXCEPT ![reading] = SubSeq(@, k + 1, Len(@))]
<1>. DEFINE k == Least(m, Len(queue[reading]))
<1>1. Len(queue[reading]) \in Nat
  BY DEF StreamInv, StreamTyped
<1>2. k \in 0..Len(queue[reading])
  BY <1>1 DEF Least
<1>. QED
  BY <1>2 DEF ReadSome

\* What a log call starts to write: it adds to what was logged and to nothing else.
LEMMA TypedLogged ==
  ASSUME StreamInv, NEW ch \in Channels, NEW n \in Nat,
         logged' = [logged EXCEPT ![ch] = @ + n], left' = From(logged[ch], n),
         payload' \in Nat, channel' \in Channels, tracer' = "writing",
         UNCHANGED <<queue, readerVars>>
  PROVE  StreamTyped' /\ NothingElsewhere' /\ DroppedWasLogged'
<1>1. \A c \in Channels : logged[c] \in Nat
  BY DEF StreamInv, StreamTyped
<1>2. From(logged[ch], n) \in Seq(Nat)
  BY <1>1 DEF From
<1>3. logged' \in [Channels -> Nat] /\ \A c \in Channels : logged'[c] >= logged[c]
  <2>1. logged \in [Channels -> Nat] /\ logged[ch] + n \in Nat
    BY <1>1 DEF StreamInv, StreamTyped
  <2>2. logged' \in [Channels -> Nat]
    BY <2>1
  <2>3. ASSUME NEW c \in Channels PROVE logged'[c] >= logged[c]
    <3>1. CASE c = ch
      BY <1>1, <2>1, <3>1
    <3>2. CASE c # ch
      BY <1>1, <2>1, <3>2
    <3>. QED
      BY <3>1, <3>2
  <2>. QED
    BY <2>2, <2>3
<1>4. /\ queue' = queue /\ received' = received /\ dropped' = dropped /\ inHand' = inHand
      /\ reading' = reading /\ reader' = reader
  BY DEF readerVars
<1>5. StreamTyped'
  BY <1>2, <1>3, <1>4 DEF StreamInv, StreamTyped
<1>6. NothingElsewhere'
  BY <1>4 DEF StreamInv, NothingElsewhere
<1>7. DroppedWasLogged'
  BY <1>1, <1>3, <1>4 DEF StreamInv, DroppedWasLogged
<1>. QED
  BY <1>5, <1>6, <1>7

LEMMA TypedStep ==
  ASSUME StreamInv, [Next]_vars
  PROVE  StreamTyped' /\ NothingElsewhere' /\ DroppedWasLogged'
<1>. USE SizesAssumption DEF StreamInv, StreamTyped, NothingElsewhere, DroppedWasLogged
<1>1. ASSUME NEW ch \in Channels, NEW n \in 0..MaxPayload, Log(ch, n)
      PROVE  StreamTyped' /\ NothingElsewhere' /\ DroppedWasLogged'
  <2>1. HeaderSize[ch] \in Nat /\ n \in Nat
    OBVIOUS
  <2>2. /\ logged' = [logged EXCEPT ![ch] = @ + HeaderSize[ch]]
        /\ left' = From(logged[ch], HeaderSize[ch])
        /\ payload' = n /\ channel' = ch /\ tracer' = "writing"
        /\ UNCHANGED <<queue, readerVars>>
    BY <1>1 DEF Log
  <2>. QED
    BY <2>1, <2>2, TypedLogged
<1>2. CASE LogPayload
  <2>1. payload \in Nat /\ channel \in Channels
    OBVIOUS
  <2>2. /\ logged' = [logged EXCEPT ![channel] = @ + payload]
        /\ left' = From(logged[channel], payload)
        /\ payload' = 0 /\ channel' = channel /\ tracer' = "writing"
        /\ UNCHANGED <<queue, readerVars>>
    BY <1>2 DEF LogPayload
  <2>. QED
    BY <2>1, <2>2, TypedLogged
<1>3. CASE WriteSome
  <2>1. PICK n \in 0..Len(left) :
          /\ queue' = [queue EXCEPT ![channel] = @ \o SubSeq(left, 1, n)]
          /\ left' = SubSeq(left, n + 1, Len(left))
    BY <1>3, WrittenAndLeft
  <2>2. SubSeq(left, 1, n) \in Seq(Nat) /\ SubSeq(left, n + 1, Len(left)) \in Seq(Nat)
    BY Split
  <2>3. queue[channel] \o SubSeq(left, 1, n) \in Seq(Nat)
    BY <2>2, JoinedAt
  <2>4. queue' \in [Channels -> Seq(Nat)] /\ left' \in Seq(Nat)
    BY <2>1, <2>2, <2>3
  <2>5. /\ tracer' \in {"writing", "notify"} /\ payload' = payload /\ channel' = channel
        /\ logged' = logged /\ UNCHANGED readerVars
    BY <1>3 DEF WriteSome
  <2>. QED
    BY <2>4, <2>5 DEF readerVars
<1>4. ASSUME NEW m \in 1..MaxRead, ReadSome(m)
      PROVE  StreamTyped' /\ NothingElsewhere' /\ DroppedWasLogged'
  <2>1. PICK k \in 0..Len(queue[reading]) :
          /\ inHand' = SubSeq(queue[reading], 1, k)
          /\ queue' = [queue EXCEPT ![reading] = SubSeq(@, k + 1, Len(@))]
    BY <1>4, ReadAndKept
  <2>2. /\ SubSeq(queue[reading], 1, k) \in Seq(Nat)
        /\ SubSeq(queue[reading], k + 1, Len(queue[reading])) \in Seq(Nat)
    BY Split
  <2>3. queue' \in [Channels -> Seq(Nat)] /\ inHand' \in Seq(Nat)
    BY <2>1, <2>2
  <2>. QED
    BY <1>4, <2>3 DEF ReadSome, tracerVars
<1>5. CASE Reply
  <2>1. Bytes(Stream(reading)) = (1..logged[reading]) \ dropped[reading]
    BY DEF StreamIntact
  <2>2. InFlight(reading) = inHand
    BY <1>5 DEF InFlight, Reply
  <2>3. Bytes(inHand) \subseteq 1..logged[reading] /\ Bytes(inHand) \subseteq Nat
    BY <2>1, <2>2, BytesOfParts
  <2>4. UNCHANGED <<queue, logged, tracer, channel, left, payload, reading, received>>
    BY <1>5 DEF Reply, tracerVars
  <2>5. /\ inHand' \in Seq(Nat)
        /\ reader' \notin {"unlocked", "sending"} => inHand' = <<>>
    <3>1. (reader' = "sending" /\ inHand' = inHand) \/ (reader' = "idle" /\ inHand' = <<>>)
      BY <1>5 DEF Reply
    <3>2. inHand \in Seq(Nat) /\ <<>> \in Seq(Nat)
      OBVIOUS
    <3>. QED
      BY <3>1, <3>2
  <2>6. \/ dropped' = dropped
        \/ dropped' = [dropped EXCEPT ![reading] = @ \cup Bytes(inHand)]
    BY <1>5 DEF Reply
  <2>7. dropped' \in [Channels -> SUBSET Nat] /\ DroppedWasLogged'
    BY <2>3, <2>4, <2>6
  <2>. QED
    BY <2>4, <2>5, <2>7
<1>6. CASE SendBinary
  <2>1. received[reading] \o inHand \in Seq(Nat)
    BY JoinedAt
  <2>2. received' \in [Channels -> Seq(Nat)]
    BY <1>6, <2>1 DEF SendBinary
  <2>3. inHand' = <<>> /\ <<>> \in Seq(Nat) /\ UNCHANGED <<queue, tracerVars, reading, dropped>>
    BY <1>6 DEF SendBinary
  <2>. QED
    BY <2>2, <2>3 DEF tracerVars
<1>7. CASE TraceBegins \/ LogReturns \/ Stall \/ NotifyWrite \/ TraceEnds \/ NotifyFlush
  BY <1>7 DEF TraceBegins, LogReturns, Stall, Stalled, NotifyWrite, Notify, TraceEnds, NotifyFlush,
              NextFlush, FlushOf, readerVars
<1>8. ASSUME NEW ch \in Channels, Flush(ch) \/ ReadBegins(ch)
      PROVE  StreamTyped' /\ NothingElsewhere' /\ DroppedWasLogged'
  BY <1>8 DEF Flush, ReadBegins, NextFlush, FlushOf, Channels, readerVars, tracerVars
<1>9. CASE ReplyEmpty \/ SendEnds
  BY <1>9 DEF ReplyEmpty, SendEnds, tracerVars
<1>10. CASE UNCHANGED vars
  BY <1>10 DEF vars, tracerVars, readerVars
<1>. QED
  BY <1>1, <1>2, <1>3, <1>4, <1>5, <1>6, <1>7, <1>8, <1>9, <1>10
     DEF Next, GameStep, TracerStep, ReaderStep

-----------------------------------------------------------------------------
(* No step disturbs a stream.                                                  *)

\* One stream is intact.
IntactAt(ch) == InOrder(Stream(ch)) /\ Bytes(Stream(ch)) = (1..logged[ch]) \ dropped[ch]

\* A stream whose bytes stay where they are, or only change hands.
LEMMA Undisturbed ==
  ASSUME StreamInv, NEW ch \in Channels, Stream(ch)' = Stream(ch),
         logged'[ch] = logged[ch], dropped'[ch] = dropped[ch]
  PROVE  IntactAt(ch)'
BY DEF StreamInv, StreamIntact, IntactAt

\* What is logged goes to the end of its stream.
LEMMA IntactLogged ==
  ASSUME StreamInv, NEW ch \in Channels, NEW n \in Nat,
         logged' = [logged EXCEPT ![ch] = @ + n], left' = From(logged[ch], n),
         left = <<>>, channel' = ch, tracer' = "writing", UNCHANGED <<queue, readerVars>>
  PROVE  \A c \in Channels : IntactAt(c)'
<1>1. StreamTyped /\ logged[ch] \in Nat
  BY DEF StreamInv, StreamTyped
<1>2. \A c \in Channels : /\ received'[c] = received[c] /\ InFlight(c)' = InFlight(c)
                           /\ queue'[c] = queue[c] /\ dropped'[c] = dropped[c]
  BY DEF readerVars, InFlight
<1>3. \A c \in Channels : Unwritten(c) = <<>>
  BY DEF Unwritten
<1>4. ASSUME NEW c \in Channels, c # ch PROVE IntactAt(c)'
  <2>1. Unwritten(c)' = <<>> /\ logged'[c] = logged[c]
    BY <1>1, <1>4 DEF Unwritten, StreamTyped
  <2>2. Stream(c)' = Stream(c)
    BY <1>2, <1>3, <2>1 DEF Stream
  <2>. QED
    BY <1>2, <2>1, <2>2, Undisturbed
<1>5. IntactAt(ch)'
  <2>1. Unwritten(ch)' = From(logged[ch], n) /\ logged'[ch] = logged[ch] + n
    BY <1>1 DEF Unwritten, StreamTyped
  <2>2. received[ch] \o InFlight(ch) \o queue[ch] \in Seq(Nat) /\ Stream(ch) \in Seq(Nat)
    BY <1>1, PartsTyped, JoinedAt
  <2>3. Stream(ch)' = Stream(ch) \o From(logged[ch], n)
    <3>1. Stream(ch) = received[ch] \o InFlight(ch) \o queue[ch]
      BY <1>3, <2>2, NoBytes DEF Stream
    <3>. QED
      BY <1>2, <2>1, <3>1 DEF Stream
  <2>4. /\ InOrder(Stream(ch)) /\ Bytes(Stream(ch)) = (1..logged[ch]) \ dropped[ch]
        /\ dropped[ch] \subseteq 1..logged[ch]
    BY DEF StreamInv, StreamIntact, DroppedWasLogged
  <2>5. /\ InOrder(Stream(ch) \o From(logged[ch], n))
        /\ Bytes(Stream(ch) \o From(logged[ch], n))
             = Bytes(Stream(ch)) \cup (logged[ch] + 1)..(logged[ch] + n)
    BY <1>1, <2>2, <2>4, NextBytes
  <2>6. Bytes(Stream(ch)) \cup (logged[ch] + 1)..(logged[ch] + n)
          = (1..(logged[ch] + n)) \ dropped[ch]
    BY <1>1, <2>4
  <2>. QED
    BY <1>2, <2>1, <2>3, <2>5, <2>6 DEF IntactAt
<1>. QED
  BY <1>4, <1>5

\* What is written leaves the caller's hands for the queue.
LEMMA IntactWritten ==
  ASSUME StreamInv, WriteSome
  PROVE  \A c \in Channels : IntactAt(c)'
<1>1. PICK n \in 0..Len(left) :
        /\ queue' = [queue EXCEPT ![channel] = @ \o SubSeq(left, 1, n)]
        /\ left' = SubSeq(left, n + 1, Len(left))
  BY SizesAssumption, WrittenAndLeft
<1>2. /\ tracer \in {"writing", "notify"} /\ tracer' \in {"writing", "notify"}
      /\ channel' = channel /\ logged' = logged /\ UNCHANGED readerVars
  BY DEF WriteSome
<1>3. StreamTyped /\ channel \in Channels /\ left \in Seq(Nat)
  BY DEF StreamInv, StreamTyped
<1>4. \A c \in Channels : received'[c] = received[c] /\ InFlight(c)' = InFlight(c)
  BY <1>2 DEF readerVars, InFlight
<1>5. ASSUME NEW c \in Channels, c # channel PROVE Stream(c)' = Stream(c)
  <2>1. queue'[c] = queue[c]
    BY <1>1, <1>3, <1>5 DEF StreamTyped
  <2>2. Unwritten(c)' = <<>> /\ Unwritten(c) = <<>>
    BY <1>2, <1>5 DEF Unwritten
  <2>. QED
    BY <1>4, <2>1, <2>2 DEF Stream
<1>6. Stream(channel)' = Stream(channel)
  <2>. DEFINE x == received[channel] \o InFlight(channel)
              q == queue[channel]
              a == SubSeq(left, 1, n)
              b == SubSeq(left, n + 1, Len(left))
  <2>1. a \in Seq(Nat) /\ b \in Seq(Nat) /\ a \o b = left
    BY <1>3, Split
  <2>2. x \in Seq(Nat) /\ q \in Seq(Nat)
    BY <1>3, PartsTyped, JoinedAt
  <2>3. queue'[channel] = q \o a /\ Unwritten(channel)' = b /\ Unwritten(channel) = left
    BY <1>1, <1>2, <1>3 DEF StreamTyped, Unwritten
  <2>4. Stream(channel) = x \o q \o left /\ Stream(channel)' = x \o (q \o a) \o b
    BY <1>2, <1>3, <1>4, <2>3 DEF Stream
  <2>. HIDE DEF x, q, a, b
  <2>5. x \o (q \o a) \o b = x \o q \o (a \o b)
    <3>1. x \o (q \o a) = x \o q \o a
      BY <2>1, <2>2, BorderLeft
    <3>2. x \o q \in Seq(Nat)
      BY <2>2, JoinedAt
    <3>3. x \o q \o a \o b = x \o q \o (a \o b)
      BY <2>1, <3>2, BorderLeft
    <3>. QED
      BY <3>1, <3>3
  <2>. QED
    BY <2>1, <2>4, <2>5
<1>. QED
  BY <1>2, <1>5, <1>6, Undisturbed DEF readerVars

\* What is read leaves the queue for the reader's hands.
LEMMA IntactRead ==
  ASSUME StreamInv, NEW m \in 1..MaxRead, ReadSome(m)
  PROVE  \A c \in Channels : IntactAt(c)'
<1>1. PICK k \in 0..Len(queue[reading]) :
        /\ inHand' = SubSeq(queue[reading], 1, k)
        /\ queue' = [queue EXCEPT ![reading] = SubSeq(@, k + 1, Len(@))]
  BY SizesAssumption, ReadAndKept
<1>2. /\ reader = "locked" /\ reader' = "unlocked" /\ reading' = reading
      /\ received' = received /\ dropped' = dropped /\ UNCHANGED tracerVars
  BY DEF ReadSome
<1>3. StreamTyped /\ reading \in Channels /\ queue[reading] \in Seq(Nat)
  BY DEF StreamInv, StreamTyped
<1>4. \A c \in Channels : received'[c] = received[c] /\ Unwritten(c)' = Unwritten(c)
  BY <1>2 DEF tracerVars, Unwritten
<1>5. ASSUME NEW c \in Channels, c # reading PROVE Stream(c)' = Stream(c)
  <2>1. queue'[c] = queue[c]
    BY <1>1, <1>3, <1>5 DEF StreamTyped
  <2>2. InFlight(c)' = <<>> /\ InFlight(c) = <<>>
    BY <1>2, <1>5 DEF InFlight
  <2>. QED
    BY <1>4, <2>1, <2>2 DEF Stream
<1>6. Stream(reading)' = Stream(reading)
  <2>. DEFINE r == received[reading]
              a == SubSeq(queue[reading], 1, k)
              b == SubSeq(queue[reading], k + 1, Len(queue[reading]))
              u == Unwritten(reading)
  <2>1. a \in Seq(Nat) /\ b \in Seq(Nat) /\ a \o b = queue[reading]
    BY <1>3, Split
  <2>2. r \in Seq(Nat) /\ u \in Seq(Nat)
    BY <1>3, PartsTyped
  <2>3. queue'[reading] = b /\ InFlight(reading)' = a /\ InFlight(reading) = <<>>
    BY <1>1, <1>2, <1>3 DEF StreamTyped, InFlight
  <2>4. Stream(reading) = r \o <<>> \o (a \o b) \o u /\ Stream(reading)' = r \o a \o b \o u
    BY <1>2, <1>3, <1>4, <2>1, <2>3 DEF Stream
  <2>. HIDE DEF r, a, b, u
  <2>5. r \o <<>> = r /\ r \o a \o b \o u = r \o (a \o b) \o u
    BY <2>1, <2>2, NoBytes, BorderLeft
  <2>. QED
    BY <2>4, <2>5
<1>. QED
  BY <1>2, <1>5, <1>6, Undisturbed DEF tracerVars

\* What is sent leaves the reader's hands for the debugger.
LEMMA IntactSent ==
  ASSUME StreamInv, SendBinary
  PROVE  \A c \in Channels : IntactAt(c)'
<1>1. /\ reader = "sending" /\ inHand' = <<>>
      /\ received' = [received EXCEPT ![reading] = @ \o inHand]
      /\ UNCHANGED <<queue, reading, dropped>> /\ UNCHANGED tracerVars
  BY DEF SendBinary
<1>2. StreamTyped /\ reading \in Channels /\ inHand \in Seq(Nat)
  BY DEF StreamInv, StreamTyped
<1>3. \A c \in Channels : queue'[c] = queue[c] /\ Unwritten(c)' = Unwritten(c)
  BY <1>1 DEF tracerVars, Unwritten
<1>4. ASSUME NEW c \in Channels, c # reading PROVE Stream(c)' = Stream(c)
  <2>1. received'[c] = received[c]
    BY <1>1, <1>2, <1>4 DEF StreamTyped
  <2>2. InFlight(c)' = <<>> /\ InFlight(c) = <<>>
    BY <1>1, <1>4 DEF InFlight
  <2>. QED
    BY <1>3, <2>1, <2>2 DEF Stream
<1>5. ASSUME NEW c \in Channels, c = reading PROVE Stream(c)' = Stream(c)
  <2>1. received'[c] = received[c] \o inHand
    BY <1>1, <1>2, <1>5 DEF StreamTyped
  <2>2. InFlight(c)' = <<>> /\ InFlight(c) = inHand
    BY <1>1, <1>5 DEF InFlight
  <2>3. received[c] \in Seq(Nat)
    BY <1>2 DEF StreamTyped
  <2>4. received[c] \o inHand \in Seq(Nat)
    BY <1>2, <2>3, JoinedAt
  <2>5. received[c] \o inHand \o <<>> = received[c] \o inHand
    BY <2>4, NoBytes
  <2>. QED
    BY <1>3, <2>1, <2>2, <2>5 DEF Stream
<1>. QED
  BY <1>1, <1>4, <1>5, Undisturbed DEF tracerVars

\* A read that fails takes its bytes out of the middle of its stream.
LEMMA IntactDropped ==
  ASSUME StreamInv, reader = "unlocked", inHand' = <<>>,
         dropped' = [dropped EXCEPT ![reading] = @ \cup Bytes(inHand)],
         UNCHANGED <<queue, reading, received>>, UNCHANGED tracerVars
  PROVE  \A c \in Channels : IntactAt(c)'
<1>1. StreamTyped /\ reading \in Channels /\ inHand \in Seq(Nat)
  BY DEF StreamInv, StreamTyped
<1>2. \A c \in Channels : /\ queue'[c] = queue[c] /\ received'[c] = received[c]
                           /\ Unwritten(c)' = Unwritten(c) /\ InFlight(c)' = <<>>
                           /\ logged'[c] = logged[c]
  BY DEF tracerVars, Unwritten, InFlight
<1>3. ASSUME NEW c \in Channels, c # reading PROVE IntactAt(c)'
  <2>1. InFlight(c) = <<>>
    BY <1>3 DEF InFlight
  <2>2. dropped'[c] = dropped[c]
    BY <1>1, <1>3 DEF StreamTyped
  <2>3. Stream(c)' = Stream(c)
    BY <1>2, <2>1 DEF Stream
  <2>. QED
    BY <1>2, <2>2, <2>3, Undisturbed
<1>4. ASSUME NEW c \in Channels, c = reading PROVE IntactAt(c)'
  <2>. DEFINE r == received[c]  q == queue[c]  u == Unwritten(c)
  <2>1. r \in Seq(Nat) /\ q \in Seq(Nat) /\ u \in Seq(Nat)
    BY <1>1, PartsTyped
  <2>2. Stream(c) = r \o inHand \o q \o u /\ Stream(c)' = r \o <<>> \o q \o u
    BY <1>2, <1>4 DEF Stream, InFlight
  <2>. HIDE DEF r, q, u
  <2>3. q \o u \in Seq(Nat) /\ inHand \o q \in Seq(Nat)
    BY <1>1, <2>1, JoinedAt
  <2>4. Stream(c)' = r \o (q \o u)
    <3>1. r \o <<>> = r
      BY <2>1, NoBytes
    <3>2. r \o q \o u = r \o (q \o u)
      BY <2>1, BorderLeft
    <3>. QED
      BY <2>2, <3>1, <3>2
  <2>5. Stream(c) = r \o (inHand \o (q \o u))
    <3>1. r \o inHand \o q = r \o (inHand \o q)
      BY <1>1, <2>1, BorderLeft
    <3>2. r \o (inHand \o q) \o u = r \o (inHand \o q \o u)
      BY <2>1, <2>3, BorderLeft
    <3>3. inHand \o q \o u = inHand \o (q \o u)
      BY <1>1, <2>1, BorderLeft
    <3>. QED
      BY <2>2, <3>1, <3>2, <3>3
  <2>6. /\ InOrder(Stream(c))
        /\ Bytes(Stream(c)) = (1..logged[c]) \ dropped[c]
    BY <1>1 DEF StreamInv, StreamIntact
  <2>7. /\ InOrder(r \o (q \o u))
        /\ Bytes(r \o (q \o u)) = Bytes(r \o (inHand \o (q \o u))) \ Bytes(inHand)
    <3>1. InOrder(r \o (inHand \o (q \o u)))
      BY <2>5, <2>6
    <3>. DEFINE v == q \o u
    <3>2. v \in Seq(Nat) /\ InOrder(r \o (inHand \o v))
      BY <2>3, <3>1
    <3>. HIDE DEF v
    <3>3. InOrder(r \o v) /\ Bytes(r \o v) = Bytes(r \o (inHand \o v)) \ Bytes(inHand)
      BY <1>1, <2>1, <3>2, DropMiddle
    <3>. QED
      BY <3>3 DEF v
  <2>8. dropped'[c] = dropped[c] \cup Bytes(inHand)
    BY <1>1, <1>4 DEF StreamTyped
  <2>. QED
    BY <1>1, <1>2, <2>4, <2>5, <2>6, <2>7, <2>8 DEF IntactAt
<1>. QED
  BY <1>3, <1>4

AllIntact == \A c \in Channels : IntactAt(c)

LEMMA IntactStep ==
  ASSUME StreamInv, [Next]_vars
  PROVE  AllIntact'
<1>. USE DEF AllIntact
<1>1. ASSUME NEW ch \in Channels, NEW n \in 0..MaxPayload, Log(ch, n) PROVE AllIntact'
  <2>1. HeaderSize[ch] \in Nat /\ tracer = "tracing"
    BY <1>1, SizesAssumption DEF Log
  <2>2. left = <<>>
    BY <2>1 DEF StreamInv, NothingElsewhere
  <2>3. /\ logged' = [logged EXCEPT ![ch] = @ + HeaderSize[ch]]
        /\ left' = From(logged[ch], HeaderSize[ch])
        /\ channel' = ch /\ tracer' = "writing" /\ UNCHANGED <<queue, readerVars>>
    BY <1>1 DEF Log
  <2>. QED
    BY <2>1, <2>2, <2>3, IntactLogged
<1>2. CASE LogPayload
  <2>1. payload \in Nat /\ channel \in Channels
    BY DEF StreamInv, StreamTyped
  <2>2. /\ logged' = [logged EXCEPT ![channel] = @ + payload]
        /\ left' = From(logged[channel], payload) /\ left = <<>>
        /\ channel' = channel /\ tracer' = "writing" /\ UNCHANGED <<queue, readerVars>>
    BY <1>2 DEF LogPayload
  <2>. QED
    BY <2>1, <2>2, IntactLogged
<1>3. CASE WriteSome
  BY <1>3, IntactWritten
<1>4. ASSUME NEW m \in 1..MaxRead, ReadSome(m) PROVE AllIntact'
  BY <1>4, IntactRead
<1>5. CASE SendBinary
  BY <1>5, IntactSent
<1>6. CASE Reply
  <2>1. \/ reader' = "sending" /\ UNCHANGED <<inHand, dropped>>
        \/ /\ inHand' = <<>>
           /\ dropped' = [dropped EXCEPT ![reading] = @ \cup Bytes(inHand)]
    BY <1>6 DEF Reply
  <2>2. /\ reader = "unlocked" /\ UNCHANGED <<queue, reading, received>> /\ UNCHANGED tracerVars
    BY <1>6 DEF Reply
  <2>3. CASE reader' = "sending" /\ UNCHANGED <<inHand, dropped>>
    <3>1. \A c \in Channels : Stream(c)' = Stream(c)
      BY <2>2, <2>3 DEF tracerVars, Stream, InFlight, Unwritten
    <3>. QED
      BY <2>2, <2>3, <3>1, Undisturbed DEF tracerVars
  <2>4. CASE /\ inHand' = <<>>
             /\ dropped' = [dropped EXCEPT ![reading] = @ \cup Bytes(inHand)]
    BY <2>2, <2>4, IntactDropped
  <2>. QED
    BY <2>1, <2>3, <2>4
<1>7. ASSUME /\ queue' = queue /\ received' = received /\ logged' = logged
             /\ dropped' = dropped /\ left' = left /\ inHand' = inHand
             /\ channel' = channel \/ left = <<>>
             /\ reading' = reading \/ inHand = <<>>
             /\ tracer' = tracer \/ left = <<>>
                  \/ (tracer \in {"writing", "notify"} /\ tracer' \in {"writing", "notify"})
             /\ reader' = reader \/ inHand = <<>>
      PROVE  AllIntact'
  <2>1. ASSUME NEW c \in Channels PROVE InFlight(c)' = InFlight(c) /\ Unwritten(c)' = Unwritten(c)
    BY <1>7 DEF InFlight, Unwritten
  <2>2. \A c \in Channels : Stream(c)' = Stream(c)
    BY <1>7, <2>1 DEF Stream
  <2>. QED
    BY <1>7, <2>2, Undisturbed
<1>8. CASE TraceBegins \/ LogReturns \/ Stall \/ NotifyWrite \/ TraceEnds \/ NotifyFlush
  BY <1>7, <1>8 DEF TraceBegins, LogReturns, Stall, Stalled, NotifyWrite, Notify, TraceEnds,
                    NotifyFlush, readerVars, StreamInv, NothingElsewhere
<1>9. ASSUME NEW ch \in Channels, Flush(ch) \/ ReadBegins(ch) PROVE AllIntact'
  BY <1>7, <1>9 DEF Flush, FlushOf, ReadBegins, tracerVars, readerVars, StreamInv, NothingElsewhere
<1>10. CASE ReplyEmpty \/ SendEnds
  BY <1>7, <1>10 DEF ReplyEmpty, SendEnds, tracerVars
<1>11. CASE UNCHANGED vars
  BY <1>7, <1>11 DEF vars, tracerVars, readerVars
<1>. QED
  BY <1>1, <1>2, <1>3, <1>4, <1>5, <1>6, <1>8, <1>9, <1>10, <1>11
     DEF Next, GameStep, TracerStep, ReaderStep

LEMMA StreamStep == StreamInv /\ [Next]_vars => StreamInv'
BY IntactStep, TypedStep DEF StreamInv, StreamIntact, AllIntact, IntactAt

\* Every byte of a stream is received, on its way or dropped, once and in order, for
\* buffers, records, reads and numbers of failures of every size.
THEOREM StreamsAreIntact == Spec => []StreamIntact
<1>1. StreamInv => StreamIntact
  BY DEF StreamInv
<1>. QED
  BY <1>1, StreamInitially, StreamStep, PTL DEF Spec

-----------------------------------------------------------------------------
(* Types.                                                                      *)

\* The record that is being written was let in whole.
PayloadFits == logged[channel] + payload <= MaxLogged[channel]

TypeInv == TypeOK /\ PayloadFits /\ StreamInv

LEMMA TypesInitially == Init => TypeInv
<1>. SUFFICES ASSUME Init PROVE TypeInv
  OBVIOUS
<1>1. \A ch \in Channels : Capacity[ch] \in Nat /\ MaxLogged[ch] \in Nat
  BY SizesAssumption
<1>2. "pgraph" \in Channels /\ Len(<<>>) = 0
  BY DEF Channels
<1>3. TypeOK /\ PayloadFits
  BY <1>1, <1>2, SizesAssumption DEF Init, TypeOK, PayloadFits
<1>. QED
  BY <1>3, StreamInitially DEF TypeInv

\* No buffer outgrows its capacity.
LEMMA CapacityKept ==
  ASSUME TypeInv, [Next]_vars
  PROVE  \A ch \in Channels : Len(queue'[ch]) <= Capacity[ch]
<1>1. /\ \A ch \in Channels : Len(queue[ch]) <= Capacity[ch] /\ Len(queue[ch]) \in Nat
      /\ \A ch \in Channels : Capacity[ch] \in Nat
      /\ queue \in [Channels -> Seq(Nat)] /\ left \in Seq(Nat)
      /\ channel \in Channels /\ reading \in Channels /\ StreamInv
  BY SizesAssumption DEF TypeInv, TypeOK, StreamInv, StreamTyped
<1>2. CASE WriteSome
  <2>. DEFINE n == Least(Len(left), Room(channel))
  <2>1. queue' = [queue EXCEPT ![channel] = @ \o SubSeq(left, 1, n)] /\ n > 0
    BY <1>2 DEF WriteSome
  <2>2. Room(channel) \in Nat /\ Len(queue[channel]) + Room(channel) = Capacity[channel]
    BY <1>1 DEF Room
  <2>3. n \in 0..Len(left) /\ n <= Room(channel)
    BY <1>1, <2>1, <2>2 DEF Least
  <2>. HIDE DEF n
  <2>4. SubSeq(left, 1, n) \in Seq(Nat) /\ Len(SubSeq(left, 1, n)) = n
    BY <1>1, <2>3, Split
  <2>5. Len(queue[channel] \o SubSeq(left, 1, n)) = Len(queue[channel]) + n
    BY <1>1, <2>4, JoinedAt
  <2>6. Len(queue[channel]) + n <= Capacity[channel]
    BY <1>1, <2>2, <2>3
  <2>. QED
    BY <1>1, <2>1, <2>5, <2>6
<1>3. ASSUME NEW m \in 1..MaxRead, ReadSome(m)
      PROVE  \A ch \in Channels : Len(queue'[ch]) <= Capacity[ch]
  <2>1. PICK k \in 0..Len(queue[reading]) :
          queue' = [queue EXCEPT ![reading] = SubSeq(@, k + 1, Len(@))]
    BY <1>1, <1>3, SizesAssumption, ReadAndKept
  <2>2. Len(SubSeq(queue[reading], k + 1, Len(queue[reading]))) = Len(queue[reading]) - k
    BY <1>1, Split
  <2>3. Len(queue[reading]) - k <= Capacity[reading]
    BY <1>1
  <2>. QED
    BY <1>1, <2>1, <2>2, <2>3
<1>4. CASE UNCHANGED queue
  BY <1>1, <1>4
<1>. QED
  BY <1>2, <1>3, <1>4
     DEF Next, GameStep, TracerStep, ReaderStep, TraceBegins, Log, LogPayload, LogReturns, Stall,
         NotifyWrite, TraceEnds, NotifyFlush, Flush, ReadBegins, ReplyEmpty, Reply, SendBinary,
         SendEnds, vars

\* No stream is logged past its bound.
LEMMA LoggedBounded ==
  ASSUME TypeInv, [Next]_vars
  PROVE  /\ \A ch \in Channels : logged'[ch] \in 0..MaxLogged[ch]
         /\ payload' \in 0..MaxPayload /\ PayloadFits'
<1>1. /\ \A ch \in Channels : logged[ch] \in 0..MaxLogged[ch] /\ MaxLogged[ch] \in Nat
      /\ \A ch \in Channels : HeaderSize[ch] \in Nat
      /\ logged \in [Channels -> Nat] /\ channel \in Channels
      /\ payload \in 0..MaxPayload /\ MaxPayload \in Nat
      /\ logged[channel] + payload <= MaxLogged[channel]
      /\ tracer \notin {"writing", "notify"} => payload = 0
  BY SizesAssumption DEF TypeInv, TypeOK, PayloadFits, StreamInv, StreamTyped, NothingElsewhere
<1>2. ASSUME NEW ch \in Channels, NEW n \in 0..MaxPayload, Log(ch, n)
      PROVE  /\ \A c \in Channels : logged'[c] \in 0..MaxLogged[c]
             /\ payload' \in 0..MaxPayload /\ PayloadFits'
  <2>1. /\ logged[ch] + HeaderSize[ch] + n <= MaxLogged[ch] /\ channel' = ch /\ payload' = n
        /\ logged' = [logged EXCEPT ![ch] = @ + HeaderSize[ch]]
    BY <1>2 DEF Log
  <2>2. /\ logged'[ch] = logged[ch] + HeaderSize[ch]
        /\ \A c \in Channels : c # ch => logged'[c] = logged[c]
    BY <1>1, <2>1
  <2>3. logged'[ch] \in 0..MaxLogged[ch] /\ logged'[ch] + n <= MaxLogged[ch]
    BY <1>1, <2>1, <2>2
  <2>. QED
    BY <1>1, <2>1, <2>2, <2>3 DEF PayloadFits
<1>3. CASE LogPayload
  <2>1. /\ logged' = [logged EXCEPT ![channel] = @ + payload]
        /\ channel' = channel /\ payload' = 0
    BY <1>3 DEF LogPayload
  <2>2. /\ logged'[channel] = logged[channel] + payload
        /\ \A c \in Channels : c # channel => logged'[c] = logged[c]
    BY <1>1, <2>1
  <2>3. logged'[channel] \in 0..MaxLogged[channel]
    BY <1>1, <2>2
  <2>4. logged'[channel] + 0 <= MaxLogged[channel]
    BY <1>1, <2>3
  <2>. QED
    BY <1>1, <2>1, <2>2, <2>3, <2>4 DEF PayloadFits
<1>4. ASSUME NEW ch \in Channels, Flush(ch)
      PROVE  /\ \A c \in Channels : logged'[c] \in 0..MaxLogged[c]
             /\ payload' \in 0..MaxPayload /\ PayloadFits'
  <2>1. channel' = ch /\ logged' = logged /\ payload' = payload /\ payload = 0
    BY <1>1, <1>4 DEF Flush, FlushOf
  <2>2. logged[ch] + 0 <= MaxLogged[ch]
    BY <1>1
  <2>. QED
    BY <1>1, <2>1, <2>2 DEF PayloadFits
<1>5. CASE UNCHANGED <<logged, payload, channel>>
  BY <1>1, <1>5 DEF PayloadFits
<1>. QED
  BY <1>2, <1>3, <1>4, <1>5
     DEF Next, GameStep, TracerStep, ReaderStep, TraceBegins, LogReturns, WriteSome, Stall,
         NotifyWrite, TraceEnds, NotifyFlush, ReadBegins, ReadSome, ReplyEmpty, Reply, SendBinary,
         SendEnds, vars, tracerVars

\* The rest stays in small sets.
LEMMA PlacesTyped ==
  ASSUME TypeInv, [Next]_vars
  PROVE  /\ tracer' \in {"idle", "tracing", "writing", "notify", "flush_pgraph", "flush_aux",
                          "flush_notify"}
         /\ reader' \in {"idle", "locked", "unlocked", "sending"}
         /\ want' \subseteq Channels /\ stalls' \in 0..MaxStalls - 1
         /\ lost' \in 0..MaxFaults /\ failed' \in 0..MaxFaults
<1>. USE SizesAssumption DEF TypeInv, TypeOK
<1>. SUFFICES /\ tracer' \in {"idle", "tracing", "writing", "notify", "flush_pgraph", "flush_aux",
                               "flush_notify"}
              /\ reader' \in {"idle", "locked", "unlocked", "sending"}
              /\ want' \subseteq Channels /\ stalls' \in 0..MaxStalls - 1
              /\ lost' \in 0..MaxFaults /\ failed' \in 0..MaxFaults
  OBVIOUS
<1>1. CASE GameStep
  <2>1. tracer' \in {"tracing", "writing"} /\ want' = want /\ lost' = lost /\ UNCHANGED readerVars
    BY <1>1 DEF GameStep, TraceBegins, Log
  <2>2. stalls' \in {0, stalls}
    BY <1>1 DEF GameStep, TraceBegins, Log
  <2>. QED
    BY <2>1, <2>2 DEF readerVars
<1>2. CASE LogPayload \/ LogReturns \/ WriteSome \/ TraceEnds
  <2>1. /\ tracer' \in {"tracing", "writing", "notify", "flush_pgraph", tracer}
        /\ want' = want /\ lost' = lost /\ UNCHANGED readerVars
    BY <1>2 DEF LogPayload, LogReturns, WriteSome, TraceEnds, FlushOf
  <2>2. stalls' \in {0, 1, stalls}
    BY <1>2 DEF LogPayload, LogReturns, WriteSome, TraceEnds
  <2>3. stalls' \in 0..MaxStalls - 1
    BY <2>2
  <2>. QED
    BY <2>1, <2>3 DEF readerVars
<1>3. CASE Stall
  <2>1. MaxStalls \in Nat \ {0, 1} /\ stalls + 1 \in Nat
    OBVIOUS
  <2>2. stalls' = (stalls + 1) % MaxStalls
    BY <1>3 DEF Stall
  <2>3. stalls' \in 0..MaxStalls - 1
    BY <2>1, <2>2
  <2>4. tracer' \in {"notify", "writing"} /\ lost' = lost /\ want' = want /\ UNCHANGED readerVars
    BY <1>3 DEF Stall
  <2>. QED
    BY <2>3, <2>4 DEF readerVars
<1>4. CASE NotifyWrite \/ NotifyFlush
  <2>1. \/ want' = want \cup {channel} /\ lost' = lost
        \/ lost + failed < MaxFaults /\ lost' = lost + 1 /\ want' = want
    BY <1>4 DEF NotifyWrite, NotifyFlush, Notify
  <2>2. lost' \in 0..MaxFaults /\ want' \subseteq Channels
    BY <2>1
  <2>3. tracer' \in {"writing", "flush_aux", "idle"} /\ stalls' = stalls /\ UNCHANGED readerVars
    BY <1>4 DEF NotifyWrite, NotifyFlush, Notify, NextFlush, FlushOf
  <2>. QED
    BY <2>2, <2>3 DEF readerVars
<1>5. CASE \E ch \in Channels : Flush(ch) \/ ReadBegins(ch)
  BY <1>5 DEF Flush, ReadBegins, NextFlush, FlushOf, readerVars, tracerVars
<1>6. CASE \/ \E n \in 1..MaxRead : ReadSome(n)
           \/ ReplyEmpty \/ Reply \/ SendBinary \/ SendEnds
  <2>1. UNCHANGED tracerVars /\ reader' \in {"idle", "unlocked", "sending"}
    BY <1>6 DEF ReadSome, ReplyEmpty, Reply, SendBinary, SendEnds
  <2>2. want' = want \/ want' = want \cup {reading}
    BY <1>6 DEF ReadSome, ReplyEmpty, Reply, SendBinary, SendEnds
  <2>3. failed' = failed \/ (failed' = failed + 1 /\ lost + failed < MaxFaults)
    BY <1>6 DEF ReadSome, ReplyEmpty, Reply, SendBinary, SendEnds
  <2>4. failed' \in 0..MaxFaults /\ want' \subseteq Channels
    BY <2>2, <2>3
  <2>. QED
    BY <2>1, <2>4 DEF tracerVars
<1>7. CASE UNCHANGED vars
  BY <1>7 DEF vars, tracerVars, readerVars
<1>. QED
  BY <1>1, <1>2, <1>3, <1>4, <1>5, <1>6, <1>7 DEF Next, TracerStep, ReaderStep

\* Every variable stays in its type, and no buffer holds more than its capacity, whatever
\* is logged and read.
THEOREM StreamTypeCorrect == Spec => []TypeOK
<1>1. TypeInv /\ [Next]_vars => TypeInv'
  <2>. SUFFICES ASSUME TypeInv, [Next]_vars PROVE TypeInv'
    OBVIOUS
  <2>1. StreamInv' /\ channel' \in Channels /\ reading' \in Channels
    BY StreamStep DEF TypeInv, StreamInv, StreamTyped
  <2>. QED
    BY <2>1, CapacityKept, LoggedBounded, PlacesTyped DEF TypeInv, TypeOK
<1>2. TypeInv => TypeOK
  BY DEF TypeInv
<1>. QED
  BY <1>1, <1>2, TypesInitially, PTL DEF Spec
=============================================================================
