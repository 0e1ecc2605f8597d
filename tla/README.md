# A TLA+ verification of the nv2a tracer debug extension

This directory models the core of `nxdk_ntrc_dyndxt`, a dynamically loaded XBDM
extension (a "DynDXT") for the original Xbox. It stops a running game's GPU push
buffer, feeds it to the nv2a command by command, and streams what the GPU was told
to do, and copies of its surfaces and registers, to a debugger over XBDM. The
repository also holds a development host, a program that links the tracer, draws a
scene with a renderer of its own and traces one of its frames. The modules
are checked with TLC on small instances; the tracer's life cycle, the push buffer tracer, the
circular buffer, the trace streams, the captures, the development host's use of the tracer and
the state of its renderer are proved with TLAPS for every value of their constants.

All paths are relative to the repository's root unless they start with `tla/`.

## 1. Inventory

### 1.1 The parts

| Part | Source | State it keeps | Operations |
| --- | --- | --- | --- |
| Tracer state machine | `src/tracelib/tracer_state_machine.c`, `src/ntrc_dyndxt.h` | one static `TracerStateMachine`: state, request, saved DMA addresses, two buffers, four critical sections | `TracerCreate`, `TracerShutdown`, `TracerBegin*`, `TracerTraceCurrentFrame`, `TracerThreadMain`, `Shutdown` |
| Push buffer tracer | the same file, `src/tracelib/kick_fifo.c`, `src/tracelib/exchange_dword.c`, `src/tracelib/xbox_helper.c` | the PFIFO and PGRAPH registers, shared with the game and the GPU | `WaitForStablePushBufferState`, `RunFIFO`, `KickFIFO`, `TraceUntilFramebufferFlip`, `PeekAheadForFlipStall` |
| Push buffer parser | `src/tracelib/pushbuffer_command.c` | the command being traced, with a heap copy of large parameter lists | `ParsePushBufferCommand`, `ParseCommandParameters`, `DeletePushBufferCommandTraceInfo` |
| Circular buffer | `src/util/circular_buffer.c` | a block of memory, a read and a write cursor | `CBCreate` ... `CBDiscard`, `CBClear` |
| Trace streams | `src/tracelib/tracer_state_machine.c` (`WriteBuffer`, `LogCommand`, `LogAuxData`), `src/cmd_read_pgraph.c`, `src/cmd_read_aux.c` | two circular buffers with a lock each | log on the tracer thread, read on the command thread, notify |
| Command handlers | `src/dxtmain.c`, `src/cmd_*.c` | none of their own | `hello`, `attach`, `detach`, `wait_for_stable_push_buffer_state`, `discard_until_flip`, `trace_frame`, `read_pgraph`, `read_aux`, `get_state`, `get_dma_addrs` |
| Auxiliary captures | `src/tracelib/pgraph_command_callbacks.c` | indices of the trace context | `TraceBegin`, `TraceEnd`, `TraceSurfaces` |
| Binary responses | `src/xbdm_util.c` | a send context handed to XBDM | `SendPrepopulatedBufferBinaryData`, which XBDM calls until the data are sent |
| Development host, its tracer thread | `devhost/src/main.cpp` | two flags and the last notification | `TracerThreadMain`: wait for a frame, attach, wait, discard, trace, detach |
| Development host, vertex buffers and draw calls | `devhost/src/vertex_buffer.cpp`, `devhost/src/renderer.cpp` | shared pointers to vertex memory, a cache flag per buffer | `AllocateVertexBuffer`, `Define*`, `Lock`, `Linearize`, `DrawArrays`, `DrawInline*`, `ConvertFromTriangleStripToTriangles` |
| Development host, depth buffer and default matrices | `devhost/src/renderer.cpp` | depth format, float mode, whose the matrices are | `SetSurfaceFormat`, `SetDepthBufferFloatMode`, `Set*FixedFunctionMatrices`, `PrepareDraw` |
| Development host, vertex shader programs | `devhost/src/shaders/` | constants and an upload flag per program | `SetUniform*`, `SetTransformConstantBlock`, `PrepareDraw` |
| Development host, texture stages | `devhost/src/texture_stage.cpp`, `devhost/src/renderer.cpp` | settings of four stages, one block of texture memory | the setters, `SetRawTexture`, `SetPalette`, `Commit` |
| Development host, the rest | `devhost/src/renderer.cpp`, `math3d.c`, `texture_format.cpp`, ... | none | one-shot register settings, matrix arithmetic, tables, text |
| Profiler, third-party code | `src/util/profiler.c`, `third_party/` | - | timing messages; a copy routine; register numbers |

### 1.2 How they interact

Three kinds of actors run at the same time.

* The **XBDM command thread** runs one command handler at a time. A handler calls
  into the tracer's API, which takes `state_critical_section` around each read
  or write of the state and the request, and a buffer lock around each read of a
  circular buffer.
* The **tracer thread** is made by `TracerCreate` and polls every 10 ms for a
  request. It serves the request in its own context: it owns the hardware, writes the
  circular buffers, and sets the state. It ends through `Shutdown` when the
  state says that it should.
* The **game and the GPU** go on. The game moves `DMA_PUT` whenever it has
  written commands; the pusher fetches words from `DMA_GET` up to `DMA_PUT` into
  CACHE1; PGRAPH executes what is in CACHE1.

The debugger learns of what happens through notifications: `new_state=`,
`req_processed=`, `w_pgraph=` and `w_aux=`. They are sent outside every lock, and nobody looks at
whether they were sent.

In the development host the command thread and the debugger are one thread of the
same program. It learns of states from the same notifications, through a callback, and of
the end of its requests by polling `TracerIsProcessingRequest`. The thread of `main` draws:
a client sets vertices, formats, constants and textures through the `Renderer`, which
remembers them and sends them to the GPU in `PrepareDraw`, in a draw call, or at once,
each setting in a way of its own. The four parts of the renderer's state that are
modelled do not read one another.

### 1.3 What is hard about it

* The state is one word that both threads assign, each under the lock, and neither
  with a look at what it replaces (`tracer_state_machine.c:271-280`).
* A detach, an attach and a request are each several critical sections, with the
  other thread free to run between them.
* The hardware is shared with a game that cannot be asked to stop. The tracer hides
  the game's `DMA_PUT` behind a value of its own, must notice when the game moves
  it, and must be able to give it back.
* `RunFIFO` must push a command through a cache smaller than the command, with
  kicks that may be refused or stop half way.
* The buffers are smaller than what is logged, and the writer waits, without a limit, for a
  reader that reads only what it was told of.
* Cursors of the circular buffer are left one past the end by two operations and
  not by the third.
* The development host waits for a state by its notification, which may have been
  overtaken by another thread's, and polls for requests that nobody may be there to complete.
* The GPU keeps what it was sent: vertices in a cache keyed by address, the constants of
  whichever program sent last, the registers of a stage that was disabled. Flags of the host
  decide what is sent again.
* Each draw call cuts its work into push buffer blocks by a count of its own.

`PROJECT.json` lists each hazard at its line with the properties that would catch it going
wrong, or with the reason why no property covers it yet.

### 1.4 What makes each part correct

* *State machine*: one tracer at a time; a request is served or abandoned once and not
  replaced meanwhile; a state that says a tracer works has a tracer that works; buffers
  live as long as the state says; nothing leaks; a fatal error ends the session;
  a detach ends it when the tracer looks at the state next.
* *Push buffer tracer*: the GPU executes nothing that was not parsed and all of it in
  order; callbacks see the GPU where they were meant to; a frame is complete when it is
  called complete; the game's writes of `DMA_PUT` survive; a request ends.
* *Circular buffer*: a bounded byte queue, up to the largest size and for all its
  32-bit sums.
* *Captures*: a record belongs to one packet that is in the other stream with the
  same counters; nothing is captured without a buffer for it.
* *Streams*: no byte is lost, repeated or displaced, but those of a read that
  fails; a full buffer is drained; the rest of a finished trace is delivered.
* *Development host*: its requests come in an order the tracer accepts; its tracer
  thread comes to an end.
* *Renderer*: a draw uses the vertices and constants the client set last; what a draw call sends
  is what it was asked for, however it is cut; after `PrepareDraw` the registers are those of the
  settings; textures and palettes do not overwrite one another.

## 2. Modules

| Module | What it is |
| --- | --- |
| `TracerStateMachine.tla` | the sessions, requests and states, command thread and tracer threads interleaved |
| `TracerService.tla` | what they promise the debugger: the abstract specification of the above |
| `TracerStateMachineProofs.tla` | the invariants, and that the threads implement the service, proved |
| `PushBufferTracer.tla` | the tracer thread against the game, the pusher and PGRAPH |
| `PushBufferTracerProofs.tla` | that the GPU, the parser and the log stay in step, proved |
| `TraceStream.tla` | both streams from the log calls to the debugger |
| `TraceStreamProofs.tla` | that no byte of a stream is lost, repeated or displaced, proved |
| `AuxCapture.tla` | which captures a trace produces, and the indices that join them to the packets |
| `AuxCaptureProofs.tla` | that captures and packets belong together, proved |
| `CircularBuffer.tla` | the ring buffer with its cursors and its 32-bit arithmetic |
| `ByteQueue.tla` | a bounded queue of bytes: the abstract specification of the ring buffer |
| `CircularBufferProofs.tla` | the cursor invariants, and that the ring implements the queue, proved |
| `DevHost.tla` | the development host's tracer thread, composed with `TracerStateMachine` |
| `DevHostProofs.tla` | that the host is a client of the tracer, and that it is never rejected, proved |
| `Drawing.tla`, `DrawingProofs.tla` | vertex buffers, the vertex cache and the draw calls, with proofs |
| `DepthSettings.tla` | the depth buffer and the five places that must agree with it |
| `ShaderConstants.tla` | the constants of vertex shader programs |
| `TextureStages.tla` | texture stages, their registers and their memory |
| `RendererProofs.tla` | the invariants of the last three, proved |
| `MC*.tla`, `MC*.cfg` | the instances TLC checks |

### 2.1 TracerStateMachine

A thread is a program counter `pc[th]`, and its values are named after the places in the
code. One step is one critical section, one unlocked access to a shared field, or one
call that the other thread can be interleaved with. `SetState` (271-280) is two
steps: the assignment, and `NotifyStateChanged` once the lock is left. `Goto` lets a thread go
on only when it has sent what it owes (`note[th]`).

| Variable | Code |
| --- | --- |
| `state`, `request` | `state_machine.state`, `.request` |
| `dmaValid` | `state_machine.dma_addresses_valid` |
| `auxBuf`, `pgraphBuf` | `state_machine.aux_buffer`, `.pgraph_buffer`: the pointers, which are not cleared when the buffers are destroyed |
| `heap` | which circular buffers are allocated |
| `job` | the tracer thread's local copy of the request (346-349) |
| `note`, `seen` | the notification between `SetState`'s unlock and the debugger |

`AttachBegin` ... `AttachDone` are `TracerCreate` in the order of its statements, each allocation with
its failure; `DetachBegin` and `DetachSetState` are `TracerShutdown`; `SetRequest(r)` is
what the five request commands come to; `Start` ... `RequestProcessed` are `TracerThreadMain`;
`WaitEntry` and `WaitLoop`, `Discard`, `TraceEntry` and `TraceLoop` are the control of the
request handlers, with an iteration of the hardware loops reduced to "once more, done or
failed"; `Shutdown` is `Shutdown`. What happens in an iteration is the business of `PushBufferTracer`.

`TracerService` has three variables: the phase of the session, the request that
is accepted, and the request that is being served. `Phase` and `Serving` map the program
counters to it; `ImplementsFairService` says that the threads
implement it, with its liveness. `BuffersManaged` joins what is said of the two
buffers: alive while the state says that the tracer is up, destroyed once, given back by the end of a
session, never leaked.

### 2.2 PushBufferTracer

Addresses count words. `Program` is a push buffer: methods with a kind and a
parameter count, jumps, calls and returns; `Commands` are the addresses at which one of
them starts. `PushWord` is the pusher, which stops at a word it does not know, at a nested call and
at a return from nowhere, `Execute` is PGRAPH, `GameWrites` is the game. They model the hardware as the code relies on it, and `map` marks
them external. The tracer's steps are its register accesses: `WaitDisables` ... `WaitAborts` are the
rounds of `WaitForStablePushBufferState`, with `WaitLooks`/`WaitHides` the separate read
and write of `DMA_PUT` (512-523); `RunEnters` ... `RunReturns` are `RunFIFO`,
`KickBegins`/`KickEnds` the kick between them; `Exchange` is `ExchangeDMAPushAddress`, atomic
because it is an `xchg`; `Process*`, `PreCallback`, `PostCallback`, `Judge`,
`TraceFails`, `FrameEnds`, `Iterate*`, `Workaround*` and `StallIsPermanent` are one iteration of
`TraceUntilFramebufferFlip`, cut where it calls `RunFIFO`. The parser is
`ParsePushBufferCommand` with the next address as its result, 0 for a failure.
Each exit of an iteration makes its own call of `DeletePushBufferCommandTraceInfo`, which is the only
thing that clears `heap`.
`passed`, `executed`, `traced` and `logged` are history: the methods with parameters that the
parser has passed and PGRAPH has executed since the stable state, the methods the parser has
passed in traces, and those `LogCommand` was given. PGRAPH sees nothing of a method without parameters,
but the tracer parses, calls back and logs it.

Two more history variables say where that comparison begins and ends. `WaitSeesEmpty` (531) and `WaitPauses`
(537) are two steps, with the pusher running between them: CACHE1 may be seen empty before the pusher has
fetched what is left, and `WaitSucceeds` then finds a stable push buffer with words still in CACHE1. They are the end of a
command the game gave the GPU before the tracer took over; `leftover` counts them, and `executed` holds
what PGRAPH executes behind them. `escaped` is set when the pusher moves in a stall workaround
(1071-1078), where it runs for 100 ms with `DMA_PUT` in the game's hands. What a game writes there is
executed before it is parsed; the code has no protection, and `RunFIFO`, entered with `DMA_GET`
past its target, loops until it is back there, so that the check at 1042 is not reached. The model lets the game do
so, and the properties that compare the GPU with the parser claim nothing afterwards.

### 2.3 TraceStream

A stream's bytes are numbered in the order they are logged, so that losing, repeating or moving
one is visible. `Log` and `LogPayload` are the two `WriteBuffer` calls of `LogCommand` and
`LogAuxData`; `WriteSome` and `Stall` are the two kinds of turn of `WriteBuffer`'s loop; `NotifyWrite` is
its notification, which may be lost; `TraceEnds`, `Flush` and `NotifyFlush` are
the tail of a trace request; `ReadBegins` ... `Reply` are `read_pgraph` and `read_aux`, and
`SendBinary` and `SendEnds` the two answers of `SendPrepopulatedBufferBinaryData`, the whole of the
buffer and then its end. A reply may fail for want of memory when the bytes are
already out of the circular buffer: they are then `dropped`. `StreamIntact` says that
what the debugger received, the reader holds, the buffer holds and `WriteBuffer` has yet to write are,
one after the other, in order and exactly the logged bytes less those dropped. `WritesReturn` says that
each call of `WriteBuffer` comes to its last byte, for which the debugger has to read: the tracer's own turns of the loop do not make
room. The two circular buffers appear as bounded queues, which is what `CircularBuffer` is shown to
implement.

### 2.4 AuxCapture

A packet gets its index and a copy of the counters of `TraceContext` when it is parsed
(`NextPacket`), its callbacks store captures under them (`TraceBegin`, `TraceSurfaces`,
`TraceEnd`, then one step per capture, which may be given up), and the packet is
logged at the end of the iteration (`LogCommand`). `TraceBegin` goes through the texture stages:
`StoreTextureStage` reads the registers of the next one and has the layers of that stage to store.
`stored` and `logged` are what
this trace has written to the two streams. `SetRequest` and the push buffer are left to the
other modules: a detach only takes `working` away, and a failure of the iteration is
`TraceFails`. What the surface and texture registers hold is chosen when a
callback reads them, and the lengths and bytes of a capture are left out.
`DrawIndexExact` says what the draw index of every packet and record is in every configuration: `TraceEnd` returns
before it counts (591-595) unless a surface, PGRAPH or PFB capture is enabled. `DrawIndexCounts` is what the headers
say, and fails (`aux_draws`).

### 2.5 CircularBuffer

`CBCreate`, `CBWrite`, `CBWriteAvailable`, `CBRead`, `CBReadAvailable`, `CBDiscard` and `CBClear`,
one action per function, with `U32` for each addition and subtraction of `uint32_t`.
`Contents` reads the queue off the ring, and `ImplementsQueue` says that each call does to it what
`ByteQueue` says. One kind of call is excluded, by `Discardable`: a `CBDiscard` of all there is while
the write cursor is one past the last byte. Nothing in the repository calls `CBDiscard` but
its tests, none of which reaches that state; with it `NoFullLap` and `ImplementsQueue` would not hold.
`CircularBuffer` shares no variable with `TraceStream`, and `MCTraceStream` checks both in one run: the initial
state chooses which of them moves (`focus`).

### 2.6 DevHost

`DevHost` EXTENDS `TracerStateMachine` and puts a program in the place of the
debugger: `host` is where `TracerThreadMain` of `main.cpp` is. `Create` is `AttachBegin` of the
tracer's model, `Ask` is its `SetRequest`, `HostShutdown` its `DetachBegin`; `HostCall` lets
the library call run to its end, and `created` is what `TracerCreate` returned.
`AwaitIdle` looks at `seen`, the last notification, as `WaitForState` looks at
`tracer_state`; `AwaitRequest` looks at `request`. A result code of the tracer is never 0,
so `Ask` goes on to wait whether the request was accepted or refused, as the loops in
the code do. `RenderFrame` is `main`, of which the tracer thread needs the first frame.

### 2.7 Drawing

A vertex buffer is an address: a new one may get the address of one that was freed
(`AllocateVertexBuffer`, `Free`), and the GPU's cache does not notice. `valid` is
`cache_valid_`, `cached` is what the GPU holds of the normalized and of the linear copy of a
buffer, none, fresh or stale. `Define` and `Lock` change vertices; `Linearize` makes the linear copy anew and
leaves the flag, which `late` remembers. A draw call breaks the cache if the flag is not set
and sets it (`Kept`, `DrawCall`). `Batches`, `Vertices`, `InlineArray` (one vertex of it is `PushVertex`), `Elements16` and `Elements32`
are the loops of the five draw calls, as sequences of push buffer blocks, each a
sequence of pushes, each a sequence of vertices; `Triangles` is the conversion of a strip, and
`Strip` says what a strip means.

### 2.8 DepthSettings, ShaderConstants, TextureStages

*DepthSettings*: a matrix or a register is what it was made for. A setter stores and
recomputes the default matrices of whoever chose them last
(`HandleDepthBufferFormatChange`); `PrepareDepth` is `CommitSurfaceFormat` and `SetupControl0`;
`MainFrame` is a frame of `main`, which goes around the renderer for some of it.

*ShaderConstants*: `owner` is whose constants the GPU holds and `outdated` whether they were
changed since. `PrepareProgram` is `UploadConstants` under its flag. Coming
back to a program does not send its constants again, so a draw may find another
program's; `ConstantsCurrent` says in exactly which case.

*TextureStages*: of the registers with the offset of their stage the enable bit and the format are kept;
border color, bump environment and texgen are sent without the offset and are one register,
`colors`. Memory is counted in palettes: `TextureOffset` and `PaletteOffset` are those of the
constructor, which puts the palettes behind the texture of one stage, inside that of stage 1.
`TexturesKept` states that overlap and that there is no other.

## 3. Runs

| Run | Module | Expected | Shows |
| --- | --- | --- | --- |
| `tracer` | MCTracerStateMachine | pass | sessions, requests, buffers and addresses are kept, and `TracerService` is implemented with its liveness, under every interleaving with a patient client |
| `tracer_detach` | MCTracerStateMachine | violation | a detach can be overwritten by the tracer's next `SetState` |
| `tracer_impatient` | MCTracerStateMachine | violation | an attach too early starts a second tracer |
| `devhost` | MCDevHost | pass | the host's requests are never rejected, and its tracer thread ends whatever fails, but for two waits that the property names: `AskedTooLate`, and `IdleMissed`, which holds only when no notification is on its way any more |
| `devhost_idle` | MCDevHost | violation | the host may wait for ever for an `IDLE` whose notification was overtaken |
| `trace_stream` | MCTraceStream | pass | the ring is a bounded queue; both streams arrive whole but for reads that fail, each call of `WriteBuffer` returns, a finished trace is delivered |
| `aux_capture` | MCAuxCapture | pass | each record finds its packet in the other stream, with the same counters, draw indices are exact, and there is a buffer for each capture |
| `aux_draws` | MCAuxCapture | violation | with textures as the only capture the draw index stays 0 |
| `push_buffer` | MCPushBufferTracer | pass | until the pusher has moved in a stall workaround the GPU stays in step with the parser, frames are complete and requests end; late writes are kept and parameters freed always |
| `push_buffer_restore` | MCPushBufferTracer | violation | a shutdown may leave `DMA_PUT` or the PGRAPH FIFO other than the game would have them |
| `push_buffer_sub` | MCPushBufferTracer | violation | a subroutine that is not nested cannot be parsed |
| `renderer` | MCRenderer | pass | draws see current vertices and constants, draw calls send what they were asked for, registers agree with settings, textures are kept, for every order of the modelled calls |

Every property of a passing run has a mutant in `PROJECT.json`: an operator beside the
definition it changes, marked `Mutant` in the modules, that is the code with a plausible bug, for
which the property fails.

### 3.1 Bounds and why they are enough

* `tracer`: two thread identities and two blocks. The invariant that the proofs use
  allows one active thread; any other is at the end of `Shutdown`, where its only step is
  to go away, so that more identities add only more such threads; two blocks are one session's buffers, so that a
  leaked block keeps the next session from starting. All other state is finite in the
  code.
* `trace_stream`, the ring: a `size_t` of 0..5, so capacities 1..4 are all there is, the largest
  makes `size + write` wrap, and `MaxChunk = 3` crosses the end of the memory and
  exceeds most free spaces. Two values of a byte tell positions apart.
* `devhost`: one thread identity, since the host attaches once, and the two blocks of its session.
  Every allocation may fail, every hardware loop may fail, and the detach at the end may
  meet the tracer anywhere.
* `trace_stream`, the streams: a pgraph buffer of three bytes notified from two, an aux buffer of
  two notified always; headers of one and two bytes, payloads of up to two, so that records
  fit, do not fit and exceed the aux buffer; up to five and three bytes logged; reads of
  one or two bytes; the stall notification resent every third turn; one fault, which is a lost
  notification or a read that fails.
* `push_buffer`: a cache of two words, no room for parameters without the heap, so that each exit of an iteration
  that can have a command in hand has one with a heap copy, a flush after three words, a peek of two commands, one sleep and one
  workaround. The program is a ring of two frames: one ended the way the XDK does it, an increment
  and a stall with a jump before them and a method without parameters behind them, and one ended by
  an increment with a subroutine after it. The game writes `DMA_PUT` in five steps, each at the
  start of a command. These make each failing exit, each branch of the loop and both flips reachable.

* `aux_capture`: eight of the 64 configurations: the default, none, each group of flags
  alone, mixtures and all; the flags within a group are treated alike by the
  code. Traces of three packets have two draws with a dump between them; one capture
  is given up; one stage of up to two layers, since stages and layers only
  multiply records. `aux_draws` has the one configuration with textures alone.
* `renderer`: its four modules share no variable, so a step of one is a stuttering step of the
  others, and the initial state chooses which of them moves (`focus`). `SetDepthClip`, and a
  `CommitSurfaceFormat` that is not part of `PrepareDraw`, are not among the calls. Vertex buffers of three
  and of 14 vertices at two addresses; batches of 12 for the 120 of the code, blocks of more
  than two pushes for its 64, indices of three bits for 16, so that every draw call is cut and the
  last piece is full, short or odd; two programs; two texture stages, of which 1 is the one whose
  memory the palettes are in.

### 3.2 Fairness

* The tracer thread and the command thread are scheduled: weak fairness of
  `TracerStep(t)` and of `CommandStep`, which are a thread's whole next steps, so
  fairness never chooses among a step's outcomes. The debugger's choices
  (`ClientStep`, the game's `GameStep`) have none.
* PGRAPH executes what it is given when it may (weak fairness of `Execute`). The pusher
  gets something done in some of infinitely many kicks (strong fairness of `PushWord`): one kick may
  be too short, as `KickFIFO`'s timeout admits, but `RunFIFO` retries until it is through.
* In `TraceStream` the debugger reads each stream that it was told of until it gets
  `XBOX_E_DATA_NOT_AVAILABLE` (weak fairness of `ReaderStep`). The tracer's wait is
  without a limit in the code, so nothing weaker would do.

* In `DevHost` every thread is scheduled: weak fairness of `main`, of the host's thread,
  of the library call it is in and of each tracer thread. `main` draws and flips for
  ever, so the working loops end: strong fairness of the steps that leave them, whatever they
  leave for, a stable push buffer, a flip or a failure.

### 3.3 Assumptions about the surroundings

* `Patient`: the client attaches before the first session, or when the last one has reached
  `STATE_SHUTDOWN`. `tracer_impatient` is what happens otherwise.
* `Settled`: CACHE1 is drained when a frame request arrives. The tracer sleeps 10 ms
  before each fetch with PGRAPH enabled; if it were not so, `RunFIFO` would disable
  PGRAPH and then wait for it.
* `ProgramAssumption`: the game writes whole commands, each behind the one before or where a jump
  leads, and gives `DMA_PUT` the address of one. What the tracer parses as a command is then one.
* `Ring`: no part of the push buffer goes round by itself; whoever follows it long enough
  comes by every command there is. A game that writes only commands the parser knows and jumps back
  at the end of its buffer has one ring. In a loop of jumps that `DMA_PUT` never enters the GPU could be at the address
  the tracer sent it to with a lap still to go. `MCPushBufferTracer` assumes `MCRing == Ring` of its
  programs, which TLC evaluates.
* `ClientStep` of `PushBufferTracer` asks for a frame only in a stable state. A request for a
  partial frame is not checked by the code and is left to the client.
* A loop over the hardware ends, or goes on, in `TracerStateMachine`, as it likes; no
  liveness property there is about a loop that goes on.
* `Discardable`: see 2.5.
* `Drawable`: what the code asserts of a paletted stage before a draw. A strip that is converted has
  three vertices, a vertex index is of the buffer, and 16 bit indices fit: what the
  callers in the code keep to.

## 4. Proofs

`CircularBufferProofs` proves for every integer width, byte set and chunk length that
`CursorsOK` is inductive for `Spec`: the cursors are in `0..size`, a buffer that exists has at least
two cells, and the cursors are never `read = 0` and `write = size` together. That pair is the one
the code misreads: it takes the two ends of the memory for a full lap, although they are the same
place. A write keeps it away because it takes no more than `CBFreeSpace`, which is one cell
less than the way to the reader (`WriteKeepsCursors`); a read takes no more than
`CBAvailable`, which never takes it back to 0 while the writer is at the end
(`ReadKeepsCursors`). `Counts` shows that the wrap-arounds of `U32` cancel. From these follow
`NoFullLap`, `SpaceAccounted` and `AvailableWithinCapacity`.

The second half of the module adds the memory to it (`RingOK`) and follows the bytes. The i-th byte of the queue is in the
i-th cell from the read cursor (`ContentsAre`); a write puts its bytes into the cells behind the last one,
in one piece or two, and touches no other; a read takes the first ones out and leaves the rest in
place, whichever of the two names of the end of the memory the read cursor gets. Each call is then
the queue's call of that name, which gives `ImplementsQueue`, and `RingTypeOK` follows from
the queue: what a call hands over was written once.

`TraceStreamProofs` proves `StreamIntact` for buffers, thresholds, records and reads of every size, from

    StreamInv == StreamTyped /\ NothingElsewhere /\ DroppedWasLogged /\ StreamIntact

A stream is four sequences joined: received, in the reader's hands, in the buffer, to be written. Every step that moves bytes
takes them across one border between two neighbours (`Split`, `BorderLeft`), logging adds
the next bytes at the end (`NextBytes`), and a read that fails takes a piece out of the middle,
which leaves the order and removes its bytes (`DropMiddle`). `NothingElsewhere` is what keeps
the pieces neighbours: nothing is left to write when `WriteBuffer` is entered, and nothing is held when a
read begins.

`TracerStateMachineProofs` proves, for any set of threads and blocks, `TypeOK`
without assumption on the client, and for a patient client that

    IndInv == TypeOK /\ AttachInv /\ SessionInv /\ ServingInv
              /\ HeapInv /\ AddressInv /\ WorkingStateHasWorker

is inductive (TLC agrees on the small instance). The safety properties are not inductive by themselves: that there is one tracer
depends on `state` being `SHUTDOWN` or `UNINITIALIZED` only when no thread is active and on where the command thread is
between its check of the state and `CreateThread` (`AttachInv`, `SessionInv`); that a served request is
stable depends on attaches finding no handler running (`ServingInv`); that
buffers live depends on who owns them at each step of an attach and of a shutdown
(`HeapInv`). The proof goes action by action, each action once for the session
conjuncts and once for the buffer and address conjuncts. `FatalIsFinal` is an action property
from the same invariant.

The last part of `TracerStateMachineProofs` proves the safety half of `ImplementsFairService`: with `IndInv`, what the debugger sees
is a function of where the one active tracer is (`TracerSeen`), or, without one, of where the command thread is
(`NoneSeen`). Each step of a thread is then a step of the service or is not seen. The
one delicate step is the end of `Shutdown`, which must find the command thread outside `TracerCreate`
(`AttachSeesNoTracer`).

`DevHostProofs` first shows that each step of the host is a step of `TracerStateMachine` or a
stutter (`HostStep`, `HostIsAClient`), so that everything proved of the tracer holds for the host.
`NeverRejected` needs more: what is pending when the host has come to a given line, what
the tracer's program counter says of the request it serves, and that a completed wait
has valid addresses and a completed discard a new frame, unless the tracer is on
its way out. These are the conjuncts of

    HostInv == AskInv /\ CallInv /\ JobInv /\ WaitedInv /\ DiscardedInv /\ RejectInv

which is inductive together with `IndInv`. The proof splits a tracer's step into those that look at the
state, those that enter a handler and the rest.

`PushBufferTracerProofs` goes in two stages, over the same seven groups of actions. The first
invariant holds of every game:

    ThreadInv == PusherOK /\ CacheOK /\ RegistersOK /\ TraceOK /\ HistoryOK
                 /\ PlacesOK /\ CommandOK /\ IterationOK

It says where the pusher is inside a command (`PusherOK`: what is left of it ends at the next
command), which states and which of the trace's variables go with each place of the thread, and that a
callback is always that of the command at `pull`. `TypeOK` and `ParametersFreed` follow. The second holds until
the pusher has moved in a stall workaround, `Spec => [](~escaped => QuietInv)`, and of every game too:

    QuietInv == SettledOK /\ InStepOK /\ LoggedOK /\ PrefixOK /\ AlignedOK

`SettledOK` says who may move: once the push buffer is stable the pusher is on only in a kick and in the workaround, and CACHE1 has entries only
inside `RunFIFO`, but for those that were left at the stable state, which are all there is until the first frame request. Why what the GPU executes is what was parsed is in `AlignedOK`: from the
place of the GPU, following the parser's next addresses, one comes to the parser's own place, and the methods with parameters on that way
(`Ahead`), with the one being pushed and those in CACHE1 (`Queued`), are exactly the part of
`passed` that is not executed. The pusher walks the same way one word at a time, a jump of the
game's `DMA_PUT` does not change it, the parser makes it longer by one command, and a kick that is refused or times out
stays on it. `NothingUntraced` needs only this. That the way is empty when the two places
are equal needs `Ring` (`AheadArrived`): a way from a command to itself could else be a lap. With
it `RunFIFO` returns with everything executed (`AllExecuted`), which gives `CallbacksInStep`
and `FrameComplete`.

`LateWritesKept` follows from

    LateInv == Controlled => IF late THEN \/ put = GamePut /\ put # target
                                          \/ put = target /\ realPush = GamePut
                             ELSE put = target

which is not inductive for every game. `ExchangeDMAPushAddress` takes a register that still holds
`target_dma_push_addr` for one nobody wrote: a game that writes this very value while the tracer owns
`DMA_PUT` goes unnoticed, and `real_dma_push_addr` keeps an older value. The theorem has the condition
that this does not happen, `FreshWrites`, next to the property in `PushBufferTracer`. It holds in
the instance TLC checks, where the game only writes places the parser has not come to; in the code the game's pointer
would have to come round the whole ring to the command the tracer is at. `Ring` is
not needed, and a workaround does no harm.

`AuxCaptureProofs` proves the three properties of the captures for any set of captures, stages, layers and
packets from

    AuxInv == TypesOK /\ PlacesOK /\ CountersOK /\ TodoOK /\ StoredOK
              /\ RecordsDistinct /\ LoggedOK /\ DrawsOK /\ DrawIndexExact

`RecordsDistinct` alone is not inductive: a record is new when what it holds is not among the records of
this packet (`Fresh`: of an earlier stage, or before it in the list) and, for a surface, when
its dump counter is higher than that of every earlier one, which is so because `TraceSurfaces`
counts before it stores (`TodoOK`, `StoredOK`). Each record is that of the packet being
processed or of a packet in the log with the same counters (`LoggedOK`), since what a callback stores takes the
counters from the packet, not from the context, that has gone on by then (`CountersOK`). The draw index of a packet is
the number of ends logged before it (`DrawsOK`), where the end of the packet itself is counted
between its callback and its log; in a configuration that does not count it is 0 throughout.

`DrawingProofs` proves for any buffers, sizes, layouts and index lists that a buffer whose flag is set
has no stale vertices in the cache, unless it was linearized late (`CacheInv`): the flag of
ONE buffer is consulted to break the cache of ALL, which is sound because a change of any buffer resets
that buffer's flag.

The larger part of the module proves what the draw calls send, for buffers, layouts and index lists of every
size. The blocks are made by `FoldLeft` and flattened by `FlattenSeq`, recursive functions that are
hidden behind a `CHOOSE`; the library's induction theorems take an operator and cannot be used. So
the module states induction over the naturals with a set (`Induction`, from the least element
that a well-founded relation gives), and shows with it that such functions exist and what they compute:
the accumulators of a fold, one after the other (`FoldSteps`, and one lemma for each fold), and
a flattened sequence, one element after the other (`FlattenIs`, `FlattenAppend`). `IntoLast` and
`NewBlock` then say that a push is added at the end of what has been sent, into whatever block it
goes, and `FlattenCuts` that a sequence cut anywhere flattens to itself, for pairs, single
vertices and batches; `BatchBounds` is the arithmetic of where batches start and end.
The invariant on top is `SentInv`: the last draw call sent what it was asked for, and
one that is not whole was made of `Batches`.

`RendererProofs` proves `DepthAgrees` (with the types of the registers),
`ConstantsCurrent` (from `ConstantsInv`: what is outdated is marked to be sent, what is not marked was sent),
`StagesCommitted` for any number of stages, and `TexturesKept` for any number of
stages and any size of texture, from the arithmetic of the offsets (`Layout`, `Within`).

| Theorem | States |
| --- | --- |
| `TypeCorrect`, `Inductive` | the type invariant and the inductive invariant of the tracer |
| `AtMostOneTracer` | `OneTracer` |
| `ServedRequestIsStable` | `RequestStable` |
| `WorkingStatesAreWorked` | `WorkingStateHasWorker` |
| `AddressesAreValid` | `StableHasAddresses` |
| `BuffersAreManaged` | `BuffersManaged` |
| `FatalStatesAreFinal` | `FatalIsFinal` |
| `ThreadsImplementService` | the tracer's specification implies `TracerService`'s, without its fairness |
| `HostIsAClient` | the host's specification implies the tracer's |
| `HostHasOneTracer`, `HostTypeCorrect`, `HostIsNeverRejected` | `OneTracer`, `HostTypeOK`, `NeverRejected` for the host |
| `CursorsInvariant`, `NeverAFullLap`, `CountsAreRight`, `AvailableIsBounded` | the cursors and counts of the circular buffer |
| `RingImplementsQueue`, `RingTypeCorrect` | `ImplementsQueue`, `RingTypeOK` |
| `StreamsAreIntact`, `StreamTypeCorrect` | `StreamIntact`, `TypeOK` of `TraceStream` |
| `ThreadInvariant`, `TypeCorrect`, `HeapFreed` | `ThreadInv`, `TypeOK` and `ParametersFreed` of `PushBufferTracer`, for every game |
| `QuietInvariant`, `NothingUntracedHolds` | `QuietInv` and `NothingUntraced` until the pusher has moved in a stall workaround, for every game |
| `CallbacksInStepHolds`, `FrameCompleteHolds` | `CallbacksInStep`, `FrameComplete` until then, for a push buffer that is a `Ring` |
| `LateWritesKeptHolds` | `LateWritesKept`, for a game with `FreshWrites` |
| `AuxInvariant`, `AuxTypeCorrect` | `AuxInv`, `TypeOK` of `AuxCapture` |
| `CapturesHaveBufferHolds`, `CapturesMatchPacketsHolds`, `DrawIndexExactHolds` | `CapturesHaveBuffer`, `CapturesMatchPackets`, `DrawIndexExact` |
| `BufferHeld`, `VerticesAreCurrent` | `TypeOK` and `DrawsCurrentVertices` of `Drawing` |
| `AllIsDrawn`, `NoPrimitiveCut` | `DrawnAsAsked`, `PrimitivesWhole` |
| `DepthSettingsAgree`, `ConstantsAreCurrent` | `DepthAgrees`, `ConstantsCurrent` |
| `StagesAreCommitted`, `TexturesAreKept` | `StagesCommitted`, `TexturesKept` |

Only model-checked: every liveness property (liveness under fairness and `ENABLED` are out of
the prover's reach), and with it the fairness in `ImplementsFairService`. No module has a `RECURSIVE` operator.

## 5. Where the code and its documentation disagree

Each of the first six is a run that fails on purpose, with its line and its quotation in `PROJECT.json`.

1. **A detach can be lost** (`tracer_detach`). `SetState` does not look at what it
   replaces, so a tracer that passed its check before the detach and sets `STATE_IDLE`,
   a working state or a stable state after it erases `STATE_SHUTDOWN_REQUESTED`.
   `DetachHonoured` is what does hold. A detach sent once the state shows again that the
   tracer is up repairs it.
2. **Notifications can overtake one another** (`devhost_idle`). `TracerCreate` sends
   `INITIALIZED` after the thread it has started may have sent `IDLE`; the development host
   then waits for an `IDLE` it has already been told of.
3. **An early attach starts a second tracer** (`tracer_impatient`). `TracerCreate` refuses
   only states above `STATE_UNINITIALIZED`; a shutdown that was requested and a fatal state are
   below it, and the thread is still there.
4. **A shutdown does not restore everything** (`push_buffer_restore`).
5. **No subroutine can be traced** (`push_buffer_sub`). Each command is parsed with a
   return address that was just cleared.
6. **Draws may not be counted** (`aux_draws`). `TraceEnd` returns before it counts the end of a draw unless a
   surface, PGRAPH or PFB capture is enabled; with textures alone every draw index is 0.

Found while modelling, each stated by the exception a property makes for it:

* `CBDiscard` wraps at once where `CBRead` does not; a discard of everything from a buffer whose
  write cursor is at the end would leave an empty buffer that looks full (`Discardable`).
* A read whose response cannot be allocated frees the bytes it has taken, and the stream goes on in
  the middle of a record (`StreamIntact`, `dropped`).
* A game that writes in a stall workaround has its commands executed before they are parsed, and the
  trace then need not end (`escaped`).
* Words fetched between the last look at CACHE1 and the pause of the pusher are still in CACHE1 when the push buffer is
  called stable (`leftover`).
* A request that fails is completed like one that succeeds, and the host then asks a
  tracer that is no longer there (`AskedTooLate`).
* `Linearize` leaves the cache flag set, so the next draw with a linear texture may use the old copy
  (`DrawsCurrentVertices`, `late`).
* Activating a program does not send its constants (`ConstantsCurrent`).
* Palettes lie inside stage 1's texture, although room for them was added behind all four textures
  (`renderer.cpp:49`, `TexturesKept`); and `SetRawTexture` asserts `<`, which a texture of the
  maximum size does not meet.
* Border color, bump environment and texgen modes of any stage are sent to stage 0's registers
  (`StagesCommitted`).

## 6. What is not modelled, and the plan

Built so far, in this order: the state machine, its service and their proofs; the circular buffer
with its proofs; the streams; the push buffer tracer and the captures, with their proofs; the development host's tracer
thread and the state of its renderer, with their proofs. What could follow:

1. `AuxCapture`: the lengths and addresses of the captures. `StorePFB` stores 0x2000 bytes of
   a copy of 0x1000, and the layers of a swizzled texture are read with the wrong pitch: constants
   and sums that no order of steps changes. And `rdicap` alone captures nothing, against `cmd_attach.h`.
2. Reads with a `maxsize` smaller than the prefix, and the indices of `DefineBiTri`, which
   wrap for inputs that no caller in the repository gives.
3. Proofs: what makes a write of the game fresh, in terms of the ring and the order of its writes,
   instead of `FreshWrites`.

Left out for good: the parsing of command parameters and the texts of responses (XBDM's
business; they change no state); the bit fields of a push buffer header; the profiler; the
register combiners, clip, blend and other settings of the renderer that pack their arguments into one
register and keep no state; matrix arithmetic in floating point, texture format tables and generators,
and text output; and third-party code.
