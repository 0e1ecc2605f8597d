--------------------------- MODULE MCTraceStream ---------------------------
(* The circular buffer, and the streams of two of them between the tracer and  *)
(* the debugger.  The two modules share no variable, so the steps of one are   *)
(* stuttering steps of the other and it is enough to check each by itself: the *)
(* initial state chooses which of them moves.                                  *)
(*                                                                             *)
(* Circular buffers of every capacity a size_t of 0..5 admits, the largest     *)
(* among them, where size + write overflows; chunks long enough to cross the   *)
(* end of the memory and to be cut by the capacity.  A pgraph stream that is   *)
(* notified from about half full, as PGRAPH_NOTIFY_PERCENT asks, and an aux    *)
(* stream that is notified of every write; records that do and do not fit.     *)
EXTENDS CircularBuffer, TraceStream

MCUintMax == 5

MCCapacity   == [ch \in Channels |-> IF ch = "pgraph" THEN 3 ELSE 2]
MCThreshold  == [ch \in Channels |-> IF ch = "pgraph" THEN 2 ELSE 0]
MCHeaderSize == [ch \in Channels |-> IF ch = "pgraph" THEN 1 ELSE 2]
MCMaxLogged  == [ch \in Channels |-> IF ch = "pgraph" THEN 5 ELSE 3]

VARIABLE focus

bufferVars == <<ringVars, vars, focus>>

BufferInit == RingInit /\ Init /\ focus \in {"ring", "stream"}

InRing   == focus = "ring"   /\ UNCHANGED <<vars, focus>>
InStream == focus = "stream" /\ UNCHANGED <<ringVars, focus>>

BufferNext == (InRing /\ RingNext) \/ (InStream /\ Next)

\* The fairness of FairSpec, for the stream.
BufferSpec == /\ BufferInit /\ [][BufferNext]_bufferVars
              /\ WF_bufferVars(InStream /\ TracerStep)
              /\ WF_bufferVars(InStream /\ ReaderStep)
=============================================================================
