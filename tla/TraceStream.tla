---------------------------- MODULE TraceStream ----------------------------
(* How traced data reaches the debugger: WriteBuffer, LogCommand and LogAuxData *)
(* of src/src/tracelib/tracer_state_machine.c on the tracer thread, read_pgraph *)
(* and read_aux (src/src/cmd_read_*.c) on the command thread, and the           *)
(* notifications that make the debugger read.                                   *)
(*                                                                              *)
(* The two circular buffers are the bounded queues that CircularBuffer          *)
(* implements.  The bytes of a stream are numbered in the order in which they   *)
(* are logged, so a lost, repeated or displaced byte shows.                     *)
EXTENDS Integers, Sequences, FiniteSets

CONSTANTS
  Capacity,    \* of each buffer, in bytes
  Threshold,   \* bytes in each buffer below which a write is not notified
  HeaderSize,  \* bytes of the header of each stream's records
  MaxPayload,  \* bound on the payload of a record
  MaxLogged,   \* bound on the bytes logged to each stream
  MaxRead,     \* the largest maxsize, less the size prefix
  MaxStalls,   \* RESEND_NOTIFICATION_DELAY_LOOPS
  MaxFaults    \* notifications that DmSendNotificationString fails to send, and reads
               \* that DmAllocatePoolWithTag fails for, together

Channels == {"pgraph", "aux"}

ASSUME SizesAssumption ==
  /\ Capacity \in [Channels -> Nat \ {0}] /\ HeaderSize \in [Channels -> Nat \ {0}]
  /\ Threshold \in [Channels -> Nat]
  /\ \A ch \in Channels : Threshold[ch] <= Capacity[ch]
  /\ MaxLogged \in [Channels -> Nat]
  /\ MaxPayload \in Nat /\ MaxFaults \in Nat
  /\ MaxRead \in Nat \ {0} /\ MaxStalls \in Nat \ {0, 1}

VARIABLES
  queue,     \* the contents of each circular buffer
  logged,    \* how many bytes were logged to each stream so far
  tracer,    \* where the tracer thread is
  channel,   \* the stream it writes to
  left,      \* the bytes its WriteBuffer call has yet to write
  payload,   \* how many bytes the second WriteBuffer call of a record will have
  stalls,    \* consecutive_sleeps, modulo MaxStalls
  want,      \* the streams the debugger has a reason to read
  lost,      \* how many notifications were lost
  reader,    \* where the command thread is
  reading,   \* the stream it reads
  inHand,    \* the bytes it has copied out and not yet sent
  received,  \* the bytes of each stream the debugger has received
  dropped,   \* the bytes of each stream that were read and could not be sent
  failed     \* how many reads failed

tracerVars == <<logged, tracer, channel, left, payload, stalls, lost>>
readerVars == <<reader, reading, inHand, received, dropped, failed>>
vars == <<queue, tracerVars, want, readerVars>>

Least(m, n) == IF m <= n THEN m ELSE n
From(m, n)  == [i \in 1..n |-> m + i]    \* the n bytes after the m-th
Bytes(s)    == {s[i] : i \in DOMAIN s}

Init ==
  /\ queue = [ch \in Channels |-> <<>>]
  /\ logged = [ch \in Channels |-> 0]
  /\ tracer = "idle" /\ channel = "pgraph" /\ left = <<>> /\ payload = 0
  /\ stalls = 0
  /\ want = {} /\ lost = 0
  /\ reader = "idle" /\ reading = "pgraph" /\ inHand = <<>>
  /\ received = [ch \in Channels |-> <<>>]
  /\ dropped = [ch \in Channels |-> {}] /\ failed = 0

Locked(ch) == reader = "locked" /\ reading = ch

-----------------------------------------------------------------------------
(* The tracer thread.                                                          *)

TraceBegins ==
  /\ tracer = "idle" /\ tracer' = "tracing"
  /\ UNCHANGED <<queue, logged, channel, left, payload, stalls, lost, want, readerVars>>

\* LogCommand (whose parameters may be absent) and LogAuxData (which returns when
\* there is no data) call WriteBuffer for the header of a record.
Log(ch, n) ==
  /\ tracer = "tracing"
  /\ ch = "aux" => n > 0
  /\ logged[ch] + HeaderSize[ch] + n <= MaxLogged[ch]
  /\ tracer' = "writing" /\ channel' = ch
  /\ left' = From(logged[ch], HeaderSize[ch]) /\ payload' = n
  /\ logged' = [logged EXCEPT ![ch] = @ + HeaderSize[ch]]
  /\ stalls' = 0
  /\ UNCHANGED <<queue, lost, want, readerVars>>

\* And then for what follows it.
LogPayload ==
  /\ tracer = "writing" /\ left = <<>> /\ payload > 0
  /\ left' = From(logged[channel], payload) /\ payload' = 0
  /\ logged' = [logged EXCEPT ![channel] = @ + payload]
  /\ stalls' = 0
  /\ UNCHANGED <<queue, tracer, channel, lost, want, readerVars>>

LogReturns ==
  /\ tracer = "writing" /\ left = <<>> /\ payload = 0
  /\ tracer' = "tracing"
  /\ UNCHANGED <<queue, logged, channel, left, payload, stalls, lost, want, readerVars>>

Room(ch) == Capacity[ch] - Len(queue[ch])
Stalled  == tracer = "writing" /\ left # <<>> /\ Room(channel) = 0

\* Mutants: writing past the room, a byte written twice.
WriteAll ==
  /\ tracer = "writing" /\ left # <<>>
  /\ ~Locked(channel)
  /\ queue' = [queue EXCEPT ![channel] = @ \o left]
  /\ left' = <<>>
  /\ UNCHANGED <<logged, tracer, channel, payload, stalls, lost, want, readerVars>>

WriteOverlapping ==
  LET n == Least(Len(left), Room(channel)) IN
  /\ tracer = "writing" /\ left # <<>> /\ n > 0
  /\ ~Locked(channel)
  /\ queue' = [queue EXCEPT ![channel] = @ \o SubSeq(left, 1, n)]
  /\ left' = IF n < Len(left) THEN SubSeq(left, n, Len(left)) ELSE <<>>
  /\ UNCHANGED <<logged, tracer, channel, payload, stalls, lost, want, readerVars>>

\* One turn of WriteBuffer's loop that finds room.
WriteSome ==
  LET n == Least(Len(left), Room(channel)) IN
  /\ tracer = "writing" /\ left # <<>> /\ n > 0
  /\ ~Locked(channel)
  /\ queue' = [queue EXCEPT ![channel] = @ \o SubSeq(left, 1, n)]
  /\ left' = SubSeq(left, n + 1, Len(left))
  /\ stalls' = IF n < Len(left) THEN 1 ELSE 0
  /\ tracer' = IF Len(queue'[channel]) >= Threshold[channel] THEN "notify" ELSE "writing"
  /\ UNCHANGED <<logged, channel, payload, lost, want, readerVars>>

\* Mutant: the notification is never sent again.
StallSilently ==
  /\ Stalled /\ ~Locked(channel)
  /\ stalls' = (stalls + 1) % MaxStalls
  /\ UNCHANGED <<queue, logged, tracer, channel, left, payload, lost, want, readerVars>>

\* One turn that does not: the notification is sent again once in MaxStalls turns.
Stall ==
  /\ Stalled /\ ~Locked(channel)
  /\ stalls' = (stalls + 1) % MaxStalls
  /\ tracer' = IF stalls' = 0 THEN "notify" ELSE "writing"
  /\ UNCHANGED <<queue, logged, channel, left, payload, lost, want, readerVars>>

\* DmSendNotificationString, outside the lock; nobody looks at its result.
Notify(from, to) ==
  /\ tracer = from /\ tracer' = to
  /\ \/ want' = want \cup {channel} /\ lost' = lost
     \/ lost + failed < MaxFaults /\ lost' = lost + 1 /\ want' = want

NotifyWrite ==
  /\ Notify("notify", "writing")
  /\ UNCHANGED <<queue, logged, channel, left, payload, stalls, readerVars>>

\* The end of a trace request: what each buffer still holds is notified, the pgraph
\* buffer first.
FlushOf(ch) == IF ch = "pgraph" THEN "flush_pgraph" ELSE "flush_aux"
NextFlush(ch) == IF ch = "pgraph" THEN FlushOf("aux") ELSE "idle"

\* Mutant: what is below the threshold stays behind.
TraceEndsUnflushed ==
  /\ tracer = "tracing" /\ tracer' = "idle"
  /\ UNCHANGED <<queue, logged, channel, left, payload, stalls, lost, want, readerVars>>

TraceEnds ==
  /\ tracer = "tracing" /\ tracer' = FlushOf("pgraph")
  /\ UNCHANGED <<queue, logged, channel, left, payload, stalls, lost, want, readerVars>>

Flush(ch) ==
  /\ tracer = FlushOf(ch) /\ ~Locked(ch)
  /\ channel' = ch
  /\ tracer' = IF queue[ch] # <<>> THEN "flush_notify" ELSE NextFlush(ch)
  /\ UNCHANGED <<queue, logged, left, payload, stalls, lost, want, readerVars>>

NotifyFlush ==
  /\ Notify("flush_notify", NextFlush(channel))
  /\ UNCHANGED <<queue, logged, channel, left, payload, stalls, readerVars>>

-----------------------------------------------------------------------------
(* The command thread, for a debugger that reads a stream it was notified of    *)
(* until it is told that there is no data.                                      *)

\* TracerLock*Buffer.  WriteBuffer holds the lock for no longer than one step.
ReadBegins(ch) ==
  /\ reader = "idle" /\ ch \in want
  /\ reader' = "locked" /\ reading' = ch /\ want' = want \ {ch}
  /\ UNCHANGED <<queue, tracerVars, inHand, received, dropped, failed>>

\* TracerRead*Buffer and TracerUnlock*Buffer.
ReadSome(n) ==
  LET k == Least(n, Len(queue[reading])) IN
  /\ reader = "locked"
  /\ inHand' = SubSeq(queue[reading], 1, k)
  /\ queue' = [queue EXCEPT ![reading] = SubSeq(@, k + 1, Len(@))]
  /\ reader' = "unlocked"
  /\ UNCHANGED <<tracerVars, want, reading, received, dropped, failed>>

\* XBOX_E_DATA_NOT_AVAILABLE.
ReplyEmpty ==
  /\ reader = "unlocked" /\ inHand = <<>>
  /\ reader' = "idle"
  /\ UNCHANGED <<queue, tracerVars, want, reading, inHand, received, dropped, failed>>

\* XBOX_S_BINARY, or XBOX_E_FAIL when there is no memory for the send context: what
\* was read is then freed with the buffer.
Reply ==
  /\ reader = "unlocked" /\ inHand # <<>>
  /\ \/ /\ reader' = "sending"
        /\ UNCHANGED <<want, inHand, dropped, failed>>
     \/ /\ lost + failed < MaxFaults /\ failed' = failed + 1
        /\ dropped' = [dropped EXCEPT ![reading] = @ \cup Bytes(inHand)]
        /\ inHand' = <<>>
        /\ want' = want \cup {reading}
        /\ reader' = "idle"
  /\ UNCHANGED <<queue, tracerVars, reading, received>>

\* XBDM asks for the response until there is no more of it; the first answer is all of
\* the buffer, the second frees it.
SendBinary ==
  /\ reader = "sending" /\ inHand # <<>>
  /\ received' = [received EXCEPT ![reading] = @ \o inHand]
  /\ inHand' = <<>>
  /\ UNCHANGED <<queue, tracerVars, reader, want, reading, dropped, failed>>

SendEnds ==
  /\ reader = "sending" /\ inHand = <<>>
  /\ want' = want \cup {reading}
  /\ reader' = "idle"
  /\ UNCHANGED <<queue, tracerVars, reading, inHand, received, dropped, failed>>

-----------------------------------------------------------------------------
\* The game decides how much there is to log.
GameStep == TraceBegins \/ \E ch \in Channels, n \in 0..MaxPayload : Log(ch, n)

TracerStep == \/ LogPayload \/ LogReturns \/ WriteSome \/ Stall \/ NotifyWrite
              \/ TraceEnds \/ NotifyFlush
              \/ \E ch \in Channels : Flush(ch)

ReaderStep == \/ \E ch \in Channels : ReadBegins(ch)
              \/ \E n \in 1..MaxRead : ReadSome(n)
              \/ ReplyEmpty \/ Reply \/ SendBinary \/ SendEnds

Next == GameStep \/ TracerStep \/ ReaderStep

Spec == Init /\ [][Next]_vars

\* Both threads are scheduled, and the debugger reads every stream it is notified of.
FairSpec == /\ Spec
            /\ WF_vars(TracerStep)
            /\ WF_vars(ReaderStep)

-----------------------------------------------------------------------------
\* Every variable stays in its type; no buffer holds more than its capacity.
TypeOK ==
  /\ \A ch \in Channels : Len(queue[ch]) <= Capacity[ch]
  /\ \A ch \in Channels : logged[ch] \in 0..MaxLogged[ch]
  /\ tracer \in {"idle", "tracing", "writing", "notify", "flush_pgraph", "flush_aux",
                 "flush_notify"}
  /\ channel \in Channels /\ reading \in Channels /\ want \subseteq Channels
  /\ payload \in 0..MaxPayload /\ stalls \in 0..MaxStalls - 1 /\ lost \in 0..MaxFaults
  /\ reader \in {"idle", "locked", "unlocked", "sending"} /\ failed \in 0..MaxFaults

\* The bytes of a stream from the debugger back to the record that is being written.
InFlight(ch) == IF reader \in {"unlocked", "sending"} /\ reading = ch THEN inHand ELSE <<>>
Unwritten(ch) == IF tracer \in {"writing", "notify"} /\ channel = ch THEN left ELSE <<>>
Stream(ch) == received[ch] \o InFlight(ch) \o queue[ch] \o Unwritten(ch)
InOrder(s) == \A i, j \in DOMAIN s : i < j => s[i] < s[j]

\* What was received, is being sent, is buffered and has yet to be written are together
\* the logged bytes, each once and in order, but those of the reads that failed for want
\* of memory: such a read takes its bytes with it, and the stream, of which
\* cmd_read_pgraph.h says that it consists of records, goes on in the middle of one.
StreamIntact ==
  \A ch \in Channels :
    InOrder(Stream(ch)) /\ Bytes(Stream(ch)) = (1..logged[ch]) \ dropped[ch]

\* Every call of WriteBuffer returns: however little room it finds and although
\* notifications are lost, the debugger comes to read, time and again, until the last of
\* the call's bytes is in the buffer.
WritesReturn ==
  \A ch \in Channels : (Unwritten(ch) # <<>>) ~> (Unwritten(ch) = <<>>)

\* Once a trace request is processed, everything it logged reaches the debugger or is
\* dropped by a read that fails, although the last bytes are fewer than the notification
\* threshold; a lost notification may strand them.
TraceDelivered ==
  \A ch \in Channels : \A n \in 1..MaxLogged[ch] :
    (tracer = "idle" /\ logged[ch] = n) ~> (Len(received[ch]) + Cardinality(dropped[ch]) >= n \/ lost > 0)
=============================================================================
