----------------------------- MODULE AuxCapture -----------------------------
(* Which auxiliary captures a trace produces, and under which indices:          *)
(* tracelib/pgraph_command_callbacks.c as TraceUntilFramebufferFlip calls it.   *)
(*                                                                              *)
(* The tracer gives each packet an index and the values that the draw and       *)
(* surface counters have when it is parsed; the callbacks of the packet store   *)
(* records under them, and the packet itself is logged at the end of the        *)
(* iteration, in a stream of its own.  The debugger joins the two streams by    *)
(* these indices.  What the registers hold is chosen when a callback reads them; *)
(* the bytes of a capture are not modelled.                                     *)
EXTENDS Integers, Sequences, FiniteSets

CONSTANTS
  Configs,     \* the sets of captures that a debugger enables
  Stages,      \* texture stages
  MaxLayers,   \* layers of a texture: bounds depth
  MaxPackets,  \* bound on the packets of a trace
  MaxFailures  \* bound on the captures that are given up

\* The flags of AuxConfig.
Captures == {"pgraph", "pfb", "rdi", "color", "depth", "texture"}

ASSUME ConfigsAssumption == Configs \subseteq SUBSET Captures
ASSUME BoundsAssumption == {Stages, MaxLayers, MaxPackets, MaxFailures} \subseteq Nat

\* "dump" is a clear or a semaphore release: both call TraceSurfaces when they are done.
Methods == {"begin_end", "dump", "other"}
NoMethod == "none"                 \* a jump, or nothing to parse
Ops      == {"begin", "end"}       \* the parameter of begin_end
NoOp     == "none"                 \* it has none

VARIABLES
  config,    \* aux_tracing_config: the captures that are enabled
  hasBuffer, \* state_machine.aux_buffer is not NULL
  working,   \* the state is the working state of the trace
  pc,        \* where the tracer is in its loop
  discard,   \* the argument of TraceUntilFramebufferFlip
  index,     \* command_index, less one
  ctx,       \* TraceContext
  info,      \* the packet of this iteration
  todo,      \* what the running callback has yet to store
  stage,     \* the texture stages that the running callback has done
  failures,  \* the captures that were given up
  stored,    \* the records written to the aux stream by this trace
  logged     \* the packets written to the pgraph stream by this trace

vars == <<config, hasBuffer, working, pc, discard, index, ctx, info, todo, stage, failures,
          stored, logged>>

NewContext == [draw |-> 0, dump |-> 0]
NoInfo == [packet |-> 0, draw |-> 0, dump |-> 0, method |-> NoMethod, op |-> NoOp]

\* Mutant: a flag is forgotten.
NoTextures(captures) == captures \ {"texture"} # {}

AuxCaptureEnabled(captures) == captures # {}

Init ==
  /\ config \in Configs
  /\ hasBuffer = AuxCaptureEnabled(config)
  /\ working = FALSE /\ pc = "idle" /\ discard = FALSE
  /\ index = 0 /\ ctx = NewContext /\ info = NoInfo /\ todo = <<>> /\ stage = Stages
  /\ failures = 0 /\ stored = <<>> /\ logged = <<>>

-----------------------------------------------------------------------------
(* What the callbacks store.                                                    *)

\* TraceSurfaces reads the surface registers: a color format, and an offset each for
\* the color and the depth surface, which may be zero.
SurfaceRegisters == SUBSET {"format", "color", "depth"}

DumpsSurfaces(registers) == config \cap {"color", "depth"} # {} /\ "format" \in registers

Capture(type) == [type |-> type, stage |-> 0, layer |-> 0]

\* What a callback stores when it is wanted.
Optional(capture, wanted) == IF wanted THEN <<capture>> ELSE <<>>

\* One RDI range holds the vertex shader, two hold its constants.
RDICaptures ==
  IF "rdi" \in config THEN <<Capture("rdi_shader"), Capture("rdi_c0"), Capture("rdi_c1")>>
                      ELSE <<>>

SurfaceCaptures(registers) ==
  IF DumpsSurfaces(registers)
    THEN Optional(Capture("color"), "color" \in config \cap registers)
         \o Optional(Capture("depth"), "depth" \in config \cap registers) \o RDICaptures
    ELSE <<>>

RawCaptures ==
  Optional(Capture("pgraph"), "pgraph" \in config) \o Optional(Capture("pfb"), "pfb" \in config)

\* The layers of a stage; one that is disabled or has no texture stores none.
TextureCaptures(s, layers) ==
  [l \in 1..layers |-> [type |-> "texture", stage |-> s, layer |-> l]]

-----------------------------------------------------------------------------
(* TraceUntilFramebufferFlip.                                                   *)

\* Mutant: the counters of the last trace are kept.
TraceBeginsWithCounters(discards) ==
  /\ pc = "idle"
  /\ pc' = "loop" /\ working' = TRUE /\ discard' = discards
  /\ index' = 0 /\ info' = NoInfo
  /\ stored' = <<>> /\ logged' = <<>>
  /\ UNCHANGED <<config, hasBuffer, ctx, todo, stage, failures>>

TraceBegins(discards) ==
  /\ pc = "idle"
  /\ pc' = "loop" /\ working' = TRUE /\ discard' = discards
  /\ index' = 0 /\ ctx' = NewContext /\ info' = NoInfo
  /\ stored' = <<>> /\ logged' = <<>>
  /\ UNCHANGED <<config, hasBuffer, todo, stage, failures>>

\* A detach changes the state, which only the head of the loop looks at.
Detach ==
  /\ working /\ working' = FALSE
  /\ UNCHANGED <<config, hasBuffer, pc, discard, index, ctx, info, todo, stage, failures,
                 stored, logged>>

TraceStops ==
  /\ pc = "loop" /\ ~working
  /\ pc' = "idle"
  /\ UNCHANGED <<config, hasBuffer, working, discard, index, ctx, info, todo, stage, failures,
                 stored, logged>>

\* kClass97Processors; a packet that is discarded has no callback.
FirstCallback(method) ==
  IF discard \/ method \in {NoMethod, "other"} THEN "log"
  ELSE IF method = "begin_end" THEN "pre" ELSE "post"

NextPacket(method, op) ==
  /\ pc = "loop" /\ working /\ index < MaxPackets
  /\ index' = index + 1
  /\ info' = [packet |-> index + 1, draw |-> ctx.draw, dump |-> ctx.dump,
              method |-> method, op |-> op]
  /\ pc' = FirstCallback(method)
  /\ UNCHANGED <<config, hasBuffer, working, discard, ctx, todo, stage, failures, stored, logged>>

\* The callback after a packet: what it counts is not read before the next packet, so it
\* may as well be counted before the callback stores.
PostCallback(captures, newCtx) ==
  /\ pc = "post" /\ pc' = "post_store"
  /\ todo' = captures
  /\ ctx' = newCtx
  /\ UNCHANGED <<config, hasBuffer, working, discard, index, info, stage, failures, stored, logged>>

\* TraceBegin: TraceTextures goes over the stages, or there is nothing to do.
TraceBegin ==
  /\ pc = "pre" /\ pc' = "pre_store"
  /\ stage' = IF "texture" \in config /\ info.op = "begin" THEN 0 ELSE Stages
  /\ UNCHANGED <<config, hasBuffer, working, discard, index, ctx, info, todo, failures, stored,
                 logged>>

StoreTextureStage(layers) ==
  /\ pc = "pre_store" /\ todo = <<>> /\ stage < Stages
  /\ stage' = stage + 1
  /\ todo' = TextureCaptures(stage + 1, layers)
  /\ UNCHANGED <<config, hasBuffer, working, pc, discard, index, ctx, info, failures, stored,
                 logged>>

CountDump(c, registers) ==
  IF DumpsSurfaces(registers) THEN [c EXCEPT !.dump = @ + 1] ELSE c

\* TraceSurfaces.
TraceSurfaces(registers) ==
  /\ info.method = "dump"
  /\ PostCallback(SurfaceCaptures(registers), CountDump(ctx, registers))

\* Mutant: a begin is counted as well.
TraceEndOrBegin(registers) ==
  /\ info.method = "begin_end"
  /\ LET counted == [ctx EXCEPT !.draw = @ + 1] IN
     IF config \cap {"depth", "color", "pgraph", "pfb"} # {} /\ info.op # NoOp
       THEN PostCallback(RawCaptures \o SurfaceCaptures(registers),
                         CountDump(counted, registers))
       ELSE PostCallback(<<>>, ctx)

\* TraceEnd: the end of a draw is counted only when there is something to capture.
TraceEnd(registers) ==
  /\ info.method = "begin_end"
  /\ LET counted == [ctx EXCEPT !.draw = @ + 1] IN
     IF config \cap {"depth", "color", "pgraph", "pfb"} # {} /\ info.op = "end"
       THEN PostCallback(RawCaptures \o SurfaceCaptures(registers),
                         CountDump(counted, registers))
       ELSE PostCallback(<<>>, ctx)

\* A capture of one of the types: LogAuxData, or it is given up.
StoreOf(types) ==
  /\ pc \in {"pre_store", "post_store"} /\ todo # <<>> /\ Head(todo).type \in types
  /\ todo' = Tail(todo)
  /\ \/ /\ stored' = Append(stored, [packet |-> info.packet, draw |-> info.draw,
                                     dump |-> info.dump, what |-> Head(todo)])
        /\ UNCHANGED failures
     \/ failures < MaxFailures /\ failures' = failures + 1 /\ UNCHANGED stored
  /\ UNCHANGED <<config, hasBuffer, working, pc, discard, index, ctx, info, stage, logged>>

\* Each is given up when there is no memory for the copy.
StoreRegion == StoreOf({"pgraph", "pfb"})
StoreRDI    == StoreOf({"rdi_shader", "rdi_c0", "rdi_c1"})

\* And a surface when it has no length, a texture also when its format is not known.
StoreSurface      == StoreOf({"color", "depth"})
StoreTextureLayer == StoreOf({"texture"})

CallbackReturns ==
  /\ todo = <<>>
  /\ \/ pc = "pre_store" /\ stage = Stages /\ pc' = "post"
     \/ pc = "post_store" /\ pc' = "log"
  /\ UNCHANGED <<config, hasBuffer, working, discard, index, ctx, info, todo, stage, failures,
                 stored, logged>>

\* The push buffer ends under the packet, or the GPU is not where the parser is: a
\* fatal error, and the packet is not logged.
TraceFails ==
  /\ pc \in {"post", "log"}
  /\ pc' = "failed" /\ working' = FALSE /\ info' = NoInfo
  /\ UNCHANGED <<config, hasBuffer, discard, index, ctx, todo, stage, failures, stored, logged>>

\* Mutant: the packet is logged with the counters as they are now.
LogCommandLate ==
  /\ pc = "log"
  /\ pc' \in {"loop", "idle"}
  /\ working' = (working /\ pc' = "loop")
  /\ logged' = IF discard \/ info.method = NoMethod THEN logged
               ELSE Append(logged, [packet |-> info.packet, draw |-> ctx.draw,
                                    dump |-> ctx.dump, op |-> info.op])
  /\ info' = NoInfo
  /\ UNCHANGED <<config, hasBuffer, discard, index, ctx, todo, stage, failures, stored>>

\* LogCommand, and on with the loop or, at a flip, out of it.
LogCommand ==
  /\ pc = "log"
  /\ pc' \in {"loop", "idle"}
  /\ working' = (working /\ pc' = "loop")
  /\ logged' = IF discard \/ info.method = NoMethod THEN logged
               ELSE Append(logged, [packet |-> info.packet, draw |-> info.draw,
                                    dump |-> info.dump, op |-> info.op])
  /\ info' = NoInfo
  /\ UNCHANGED <<config, hasBuffer, discard, index, ctx, todo, stage, failures, stored>>

-----------------------------------------------------------------------------
\* The debugger asks for traces and detaches; the game writes the packets.
ClientStep == Detach \/ \E discards \in BOOLEAN : TraceBegins(discards)

GameStep ==
  \/ \E op \in Ops \cup {NoOp} : NextPacket("begin_end", op)
  \/ \E method \in (Methods \ {"begin_end"}) \cup {NoMethod} : NextPacket(method, NoOp)

TracerStep ==
  \/ TraceStops
  \/ TraceBegin \/ \E layers \in 0..MaxLayers : StoreTextureStage(layers)
  \/ \E registers \in SurfaceRegisters : TraceSurfaces(registers) \/ TraceEnd(registers)
  \/ StoreRegion \/ StoreRDI \/ StoreSurface \/ StoreTextureLayer
  \/ CallbackReturns \/ TraceFails \/ LogCommand

Next == ClientStep \/ GameStep \/ TracerStep

Spec == Init /\ [][Next]_vars

-----------------------------------------------------------------------------
SurfaceKinds == {"color", "depth", "rdi_shader", "rdi_c0", "rdi_c1"}

\* Every variable stays in its type; a trace counts no more draws and dumps than it has
\* packets.
TypeOK ==
  /\ config \subseteq Captures
  /\ {hasBuffer, working, discard} \subseteq BOOLEAN
  /\ pc \in {"idle", "loop", "pre", "pre_store", "post", "post_store", "log", "failed"}
  /\ index \in 0..MaxPackets
  /\ ctx.draw \in 0..index /\ ctx.dump \in 0..index
  /\ info.packet \in 0..index /\ info.method \in Methods \cup {NoMethod}
  /\ info.op \in Ops \cup {NoOp}
  /\ stage \in 0..Stages /\ failures \in 0..MaxFailures

\* No two records of a trace are the same capture of the same packet, and the surface
\* dump index tells the surfaces of one packet from those of another.
RecordsDistinct ==
  \A i, j \in DOMAIN stored :
    /\ i # j /\ stored[i].packet = stored[j].packet => stored[i].what # stored[j].what
    /\ {stored[i].what.type, stored[j].what.type} \subseteq SurfaceKinds
         /\ stored[i].dump = stored[j].dump => stored[i].packet = stored[j].packet

\* pgraph_command_callbacks.h: a record's packet index is that of the packet with which
\* it is associated.  Whatever captures were given up and wherever a detach landed, each
\* record finds exactly one packet in the other stream, with the record's counters,
\* unless the trace failed under it; and no packet finds the same record twice.
CapturesMatchPackets ==
  /\ RecordsDistinct
  /\ pc \in {"idle", "loop"} =>
       \A i \in DOMAIN stored :
         \E j \in DOMAIN logged :
           /\ logged[j].packet = stored[i].packet
           /\ logged[j].draw = stored[i].draw /\ logged[j].dump = stored[i].dump
           /\ \A k \in DOMAIN logged \ {j} : logged[k].packet # stored[i].packet

\* LogAuxData is called only when TracerCreate made an aux buffer: WriteBuffer never
\* waits for room in a NULL buffer, which has none.
CapturesHaveBuffer == todo # <<>> => hasBuffer

EndsBefore(n) ==
  Cardinality({j \in DOMAIN logged : logged[j].packet < n /\ logged[j].op = "end"})

\* The draws that ended are counted only where their end captures something: with textures
\* or RDI alone the index of every packet of a trace is 0.
CountsDraws  == config \cap {"depth", "color", "pgraph", "pfb"} # {}
DrawIndex(n) == IF CountsDraws THEN EndsBefore(n) ELSE 0

\* The draw index of every packet and every record of a trace, in every configuration,
\* detached, failed or discarded: where draws are counted, those that ended before it in
\* the trace; else 0.
DrawIndexExact ==
  /\ \A i \in DOMAIN stored : stored[i].draw = DrawIndex(stored[i].packet)
  /\ \A j \in DOMAIN logged : logged[j].draw = DrawIndex(logged[j].packet)

-----------------------------------------------------------------------------
(* What the documentation says and the code does not do.                        *)

\* pushbuffer_command.h of a packet, pgraph_command_callbacks.h of a record: the draw index
\* is the number of BEGIN_END(end) calls since the trace began.
DrawIndexCounts ==
  /\ \A i \in DOMAIN stored : stored[i].draw = EndsBefore(stored[i].packet)
  /\ \A j \in DOMAIN logged : logged[j].draw = EndsBefore(logged[j].packet)
=============================================================================
