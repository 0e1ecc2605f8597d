-------------------------- MODULE PushBufferTracer --------------------------
(* How the tracer takes the push buffer from a running game and feeds it to the *)
(* GPU command by command: WaitForStablePushBufferState, RunFIFO,               *)
(* TraceUntilFramebufferFlip and Shutdown of tracelib/tracer_state_machine.c,   *)
(* KickFIFO, and the parser of tracelib/pushbuffer_command.c.                   *)
(*                                                                              *)
(* Four agents share the registers of PFIFO: the game, which moves DMA_PUT      *)
(* forward; the pusher, which moves words from DMA_GET into CACHE1; PGRAPH,     *)
(* which executes them; and the tracer thread, whose steps are the accesses it  *)
(* makes to those registers.  Addresses count words.                            *)
EXTENDS Integers, Sequences, SequencesExt

CONSTANTS
  Program,       \* the words of the push buffer
  Commands,      \* the addresses of those at which a command starts
  Puts,          \* the values the game gives DMA_PUT, in order: bounds its writes
  CacheSize,     \* entries of CACHE1
  InlineParams,  \* most parameters PushBufferCommandParameters holds without a heap
  MaxQueueDepth, \* kMaxQueueDepthBeforeFlush, in words
  PeekDepth,     \* commands PeekAheadForFlipStall looks at
  MaxSleeps,     \* sleeps on an empty push buffer before the stall workaround
  MaxWorkarounds \* MAX_STALL_WORKAROUNDS

Addresses == DOMAIN Program
Kinds     == {"plain", "draw", "clear", "flip_inc", "flip_stall"}
Methods   == [op : {"method"}, kind : Kinds, count : Nat]
Branches  == [op : {"jump", "call"}, to : Addresses]
Others    == [op : {"return", "unknown", "data"}]

\* The words of a method behind its header.
Parameters(a) == (a + 1)..(a + Program[a].count)

\* The game writes whole commands, and another one comes after each.
ASSUME ProgramAssumption ==
  /\ Program \in Seq(Methods \cup Branches \cup Others)
  /\ Puts \in Seq(Commands) /\ Len(Puts) > 0
  /\ Commands \subseteq Addresses
  /\ \A a \in Commands :
       /\ Program[a].op = "method" =>
            a + 1 + Program[a].count \in Commands /\ Parameters(a) \cap Commands = {}
       /\ Program[a].op \in {"jump", "call"} => Program[a].to \in Commands
       /\ Program[a].op = "call" => a + 1 \in Commands
ASSUME BoundsAssumption ==
  /\ {CacheSize, MaxQueueDepth} \subseteq Nat \ {0}
  /\ {InlineParams, PeekDepth, MaxSleeps, MaxWorkarounds} \subseteq Nat

VARIABLES
  get, put,         \* DMA_GET and DMA_PUT
  header, left,     \* DMA_STATE: the method being pushed and its method_count
  sub,              \* DMA_SUBROUTINE
  pusher, pgraph,   \* the access bits of the pusher and of the PGRAPH FIFO
  cache,            \* CACHE1
  leftover,         \* the entries of CACHE1 that were there at the stable state
  executed,         \* the commands PGRAPH executes after those, until the shutdown
  escaped,          \* the pusher has moved in a stall workaround
  written,          \* how many of Puts the game has written
  late,             \* the game has written since the stable state
  state,            \* state_machine.state
  realPush,         \* state_machine.real_dma_push_addr
  realPull,         \* state_machine.real_dma_pull_addr
  target,           \* state_machine.target_dma_push_addr
  valid,            \* state_machine.dma_addresses_valid
  pc,               \* where the tracer thread is
  looked,           \* WaitForStable: dma_push_addr_real and dma_get_addr
  run,              \* RunFIFO: its argument and where it returns to
  working,          \* Trace: working_state, which says what discard is
  pull,             \* Trace: dma_pull_addr
  info,             \* Trace: the command parsed last
  heap,             \* Trace: info holds a heap buffer
  queued,           \* Trace: bytes_queued, in words
  push,             \* Trace: the iteration's copy of real_dma_push_addr
  flip,             \* Trace: is_flip
  stall,            \* Trace: last_push_addr, sleep_calls and stall_workarounds
  passed,           \* the methods with parameters that the parser has passed since
                    \* the stable state: PGRAPH sees nothing of the others
  traced,           \* the methods the parser has passed in traces
  logged            \* the methods given to LogCommand

hardware == <<get, header, left, sub, cache, leftover, executed, escaped>>
fifo     == <<pusher, pgraph>>
game     == <<written, late>>
saved    == <<realPush, realPull, target, valid>>
trace    == <<working, pull, info, heap, queued, push, flip, stall>>
history  == <<passed, traced, logged>>
vars     == <<hardware, put, fifo, game, state, saved, pc, looked, run, trace, history>>

GamePut == Puts[written]
Nowhere == [at |-> 0, push |-> 0]
NoInfo  == [valid |-> FALSE, kind |-> "plain", from |-> 0, next |-> 0]
NoRun   == [to |-> 0, then |-> "poll"]
NoStall == [last |-> 0, sleeps |-> 0, workarounds |-> 0]

Init ==
  /\ written = 1 /\ late = FALSE
  /\ get = Puts[1] /\ put = Puts[1]
  /\ header = 0 /\ left = 0 /\ sub = 0 /\ cache = <<>>
  /\ leftover = 0 /\ executed = <<>> /\ escaped = FALSE
  /\ pusher = TRUE /\ pgraph = TRUE
  /\ state = "IDLE" /\ pc = "poll"
  /\ realPush = 0 /\ realPull = 0 /\ target = 0 /\ valid = FALSE
  /\ looked = Nowhere /\ run = NoRun
  /\ working = "NONE" /\ pull = 0 /\ info = NoInfo /\ heap = FALSE /\ queued = 0
  /\ push = 0 /\ flip = FALSE /\ stall = NoStall
  /\ passed = <<>> /\ traced = <<>> /\ logged = <<>>

-----------------------------------------------------------------------------
(* The GPU and the game, as the code relies on them.                            *)

\* The pusher takes one word: the parameter of a method into CACHE1, or a header.  It
\* stops at a word it does not know, at a nested call and at a return from nowhere.  In
\* a stall workaround it moves only if the game has just written DMA_PUT.
PushWord ==
  /\ pusher /\ get # put /\ get \in Addresses /\ Len(cache) < CacheSize
  /\ LET w == Program[get] IN
     \/ /\ left > 0
        /\ cache' = Append(cache, [of |-> header, last |-> left = 1])
        /\ left' = left - 1 /\ get' = get + 1
        /\ UNCHANGED <<header, sub>>
     \/ /\ left = 0 /\ w.op = "method"
        /\ header' = get /\ left' = w.count /\ get' = get + 1
        /\ UNCHANGED <<cache, sub>>
     \/ /\ left = 0 /\ w.op \in {"jump", "call"} /\ (w.op = "call" => sub = 0)
        /\ get' = w.to
        /\ sub' = IF w.op = "call" THEN get + 1 ELSE sub
        /\ UNCHANGED <<cache, header, left>>
     \/ /\ left = 0 /\ w.op = "return" /\ sub # 0
        /\ get' = sub /\ sub' = 0
        /\ UNCHANGED <<cache, header, left>>
  /\ escaped' = (escaped \/ pc = "workaround")
  /\ UNCHANGED <<put, fifo, leftover, executed, game, state, saved, pc, looked, run, trace,
                 history>>

Execute ==
  /\ pgraph /\ cache # <<>>
  /\ cache' = Tail(cache)
  /\ leftover' = IF leftover > 0 THEN leftover - 1 ELSE 0
  /\ executed' = IF valid /\ leftover = 0 /\ Head(cache).last
                   THEN Append(executed, Head(cache).of) ELSE executed
  /\ UNCHANGED <<get, header, left, sub, escaped, put, fifo, game, state, saved, pc, looked,
                 run, trace, history>>

\* The game is stopped while KickFIFO has disabled interrupts.
GameWrites ==
  /\ written < Len(Puts)
  /\ pc # "kicking"
  /\ written' = written + 1 /\ put' = Puts[written + 1] /\ late' = valid
  /\ UNCHANGED <<hardware, fifo, state, saved, pc, looked, run, trace, history>>

-----------------------------------------------------------------------------
(* The parser.  A header of 0 stands for none: a failure.                       *)

\* ParsePushBufferCommand.
ParsePushBufferCommand(addr, subroutine_return_address) ==
  LET w == Program[addr] IN
  CASE w.op = "method" -> addr + 1 + w.count
    [] w.op = "jump"   -> w.to
    [] w.op = "call"   -> IF subroutine_return_address # 0 THEN 0 ELSE w.to
    [] w.op = "return" -> subroutine_return_address
    [] OTHER           -> addr

IsMethod(addr) == Program[addr].op = "method"
IsKind(addr, kind) == IsMethod(addr) /\ Program[addr].kind = kind

\* Every call starts with a fresh PushBufferCommandTraceInfo.
Parse(addr) == ParsePushBufferCommand(addr, 0)

\* Parameters that do not fit in the struct are copied to the heap.
NeedsHeap(addr) == IsMethod(addr) /\ Program[addr].count > InlineParams

\* PeekAheadForFlipStall: where it is after n commands, 0 once it has failed.
Peeked(from, limit) ==
  LET at[n \in 0..PeekDepth] ==
        IF n = 0 THEN from
        ELSE IF at[n - 1] \in {0, limit} THEN at[n - 1] ELSE Parse(at[n - 1])
  IN  at

FlipStallAhead(from, limit) ==
  \E n \in 0..(PeekDepth - 1) :
    /\ Peeked(from, limit)[n] \notin {0, limit}
    /\ IsKind(Peeked(from, limit)[n], "flip_stall")

PeekFails(from, limit) ==
  ~FlipStallAhead(from, limit) /\ Peeked(from, limit)[PeekDepth] = 0

-----------------------------------------------------------------------------
(* Steps of the tracer thread.                                                  *)

Goto(from, to) == pc = from /\ pc' = to

Look(from, to) ==
  /\ Goto(from, to)
  /\ UNCHANGED <<hardware, put, fifo, game, state, saved, looked, run, trace, history>>

SetFifo(p, g) == pusher' = p /\ pgraph' = g

Switch(from, to, p, g) ==
  /\ Goto(from, to) /\ SetFifo(p, g)
  /\ UNCHANGED <<hardware, put, game, state, saved, looked, run, trace, history>>

\* A request handler returns: its locals are gone, but not what info points to.
ForgetTrace ==
  /\ working' = "NONE" /\ pull' = 0 /\ info' = NoInfo
  /\ queued' = 0 /\ push' = 0 /\ flip' = FALSE /\ stall' = NoStall

Finish(from, new_state) ==
  /\ Goto(from, "poll")
  /\ state' = new_state
  /\ ForgetTrace
  /\ UNCHANGED <<hardware, put, fifo, game, saved, looked, run>>

\* TracerShutdown, which the command thread may call at any time.
Detach ==
  /\ state \notin {"SHUTDOWN_REQUESTED", "SHUTDOWN"}
  /\ state' = "SHUTDOWN_REQUESTED"
  /\ UNCHANGED <<hardware, put, fifo, game, saved, pc, looked, run, trace, history>>

Fatal == {"FATAL_PERMANENT_STALL", "FATAL_DISCARDING_FAILED",
          "FATAL_PROCESS_PUSH_BUFFER_COMMAND_FAILED"}
Working == {"DISCARDING_UNTIL_FLIP", "TRACING_UNTIL_FLIP"}
Stable  == {"IDLE_STABLE_PUSH_BUFFER", "IDLE_NEW_FRAME"}

-----------------------------------------------------------------------------
(* WaitForStablePushBufferState.                                                *)

WaitBegins ==
  /\ state = "IDLE"
  /\ Goto("poll", "wait_loop")
  /\ state' = "WAITING_FOR_STABLE_PUSH_BUFFER"
  /\ looked' = Nowhere
  /\ UNCHANGED <<hardware, put, fifo, game, saved, run, trace, history>>

WaitDisables ==
  state = "WAITING_FOR_STABLE_PUSH_BUFFER" /\ Switch("wait_loop", "wait_idle", pusher, FALSE)

WaitTimesOut == Look("wait_idle", "wait_loop")

\* MaybePopulateFIFOCache, and then PGRAPH is let at what it brought.
WaitFills  == Switch("wait_idle", "wait_fill", TRUE, pgraph)
WaitDrains == Switch("wait_fill", "wait_drain", FALSE, TRUE)

WaitLooks ==
  /\ cache = <<>>
  /\ Goto("wait_drain", "wait_hide")
  /\ looked' = [push |-> put, at |-> get + left]
  /\ UNCHANGED <<hardware, put, fifo, game, state, saved, run, trace, history>>

WaitHides ==
  /\ Goto("wait_hide", "wait_resume")
  /\ put' = looked.at
  /\ UNCHANGED <<hardware, fifo, game, state, saved, looked, run, trace, history>>

WaitResumes == Switch("wait_resume", "wait_drain_again", TRUE, pgraph)

\* CACHE1 was empty once: until it is paused the pusher may bring more.
WaitSeesEmpty == cache = <<>> /\ Look("wait_drain_again", "wait_pause")
WaitPauses    == Switch("wait_pause", "wait_check", FALSE, pgraph)

WaitAgain == (get # put \/ put # looked.at) /\ Look("wait_check", "wait_loop")

SaveDMAAddresses(push_addr, pull_addr) ==
  realPush' = push_addr /\ realPull' = pull_addr /\ valid' = TRUE

WaitSucceeds ==
  /\ get = put /\ put = looked.at
  /\ Goto("wait_check", "poll")
  /\ SaveDMAAddresses(looked.push, looked.at)
  /\ target' = looked.at
  /\ state' = "IDLE_STABLE_PUSH_BUFFER"
  /\ leftover' = Len(cache) /\ executed' = <<>> /\ late' = FALSE
  /\ passed' = <<>>
  /\ UNCHANGED <<get, header, left, sub, cache, escaped, put, fifo, written, looked, run, trace,
                 traced, logged>>

WaitAborts ==
  /\ state # "WAITING_FOR_STABLE_PUSH_BUFFER"
  /\ Goto("wait_loop", "poll")
  /\ SaveDMAAddresses(looked.push, looked.at)
  /\ UNCHANGED <<hardware, put, fifo, game, state, target, looked, run, trace, history>>

-----------------------------------------------------------------------------
(* ExchangeDMAPushAddress and RunFIFO.                                          *)

\* Mutant: a plain write, without a look at what was there.
WritePut(to) == put' = to /\ target' = to /\ UNCHANGED realPush

Exchange(to) ==
  /\ put' = to /\ target' = to
  /\ realPush' = IF put # target THEN put ELSE realPush

Call(from, to, then) == Goto(from, "run_enter") /\ run' = [to |-> to, then |-> then]

RunEnters ==
  /\ Goto("run_enter", "run_loop")
  /\ Exchange(run.to)
  /\ realPull' = get
  /\ UNCHANGED <<hardware, fifo, game, state, valid, looked, run, trace, history>>

RunDisables == realPull # run.to /\ Switch("run_loop", "run_wait", pusher, FALSE)

RunHides ==
  /\ cache = <<>>
  /\ Goto("run_wait", "run_kick")
  /\ Exchange(run.to)
  /\ UNCHANGED <<hardware, fifo, game, state, realPull, valid, looked, run, trace, history>>

\* KickFIFO: the pusher runs until the push buffer is empty or the loop times out.
KickRefused == put # run.to /\ Look("run_kick", "run_exec")
KickBegins  == put = run.to /\ Switch("run_kick", "kicking", TRUE, pgraph)

\* Mutant: the pusher is left running.
KickLeavesRunning == Look("kicking", "run_exec")

KickEnds    == Switch("kicking", "run_exec", FALSE, pgraph)

RunEnables == Switch("run_exec", "run_drain", pusher, TRUE)

\* Mutant: DMA_GET is trusted before CACHE1 has been drained.
RunMovesAhead ==
  /\ Goto("run_drain", "run_loop")
  /\ realPull' = get
  /\ UNCHANGED <<hardware, put, fifo, game, state, realPush, target, valid, looked, run,
                 trace, history>>

RunMoves ==
  /\ cache = <<>>
  /\ Goto("run_drain", "run_loop")
  /\ realPull' = get
  /\ UNCHANGED <<hardware, put, fifo, game, state, realPush, target, valid, looked, run,
                 trace, history>>

RunReturns ==
  /\ realPull = run.to
  /\ Goto("run_loop", run.then)
  /\ Exchange(run.to)
  /\ run' = NoRun
  /\ UNCHANGED <<hardware, fifo, game, state, realPull, valid, looked, trace, history>>

-----------------------------------------------------------------------------
(* TraceUntilFramebufferFlip.                                                   *)

\* Before a request comes the tracer has slept, and PGRAPH drained CACHE1: without
\* this RunFIFO would wait for a CACHE1 that it has itself cut off from PGRAPH.
Settled == cache = <<>>

TraceBegins(working_state) ==
  /\ Settled
  /\ state \in Stable
  /\ Goto("poll", "trace_loop")
  /\ state' = working_state /\ working' = working_state
  /\ pull' = realPull
  /\ UNCHANGED <<hardware, put, fifo, game, saved, looked, run, info, heap, queued, push,
                 flip, stall, history>>

DeletePushBufferCommandTraceInfo == heap' = FALSE

TraceStops ==
  /\ state # working /\ Finish("trace_loop", state) /\ UNCHANGED <<heap, history>>

discard == working = "DISCARDING_UNTIL_FLIP"

\* GetMethodProcessors.
HasPreCallback(kind)  == ~discard /\ kind = "draw"
HasPostCallback(kind) == ~discard /\ kind \in {"draw", "clear"}

\* ProcessPushBufferCommand, up to its first RunFIFO.
Process == pc = "trace_loop" /\ state = working

ProcessNothing ==
  /\ Process /\ pull = realPush
  /\ Goto("trace_loop", "parsed")
  /\ info' = NoInfo
  /\ UNCHANGED <<hardware, put, fifo, game, state, saved, looked, run, working, pull, heap,
                 queued, push, flip, stall, history>>

ProcessBranch ==
  /\ Process /\ pull # realPush
  /\ ~IsMethod(pull) /\ Parse(pull) # 0
  /\ Goto("trace_loop", "parsed")
  /\ info' = NoInfo
  /\ pull' = Parse(pull) /\ queued' = queued + 1
  /\ UNCHANGED <<hardware, put, fifo, game, state, saved, looked, run, working, heap, push,
                 flip, stall, history>>

ProcessMethod ==
  /\ Process /\ pull # realPush /\ IsMethod(pull)
  /\ LET w == Program[pull]
         cmd == [valid |-> TRUE, kind |-> w.kind, from |-> pull, next |-> Parse(pull)]
     IN
     /\ info' = cmd
     /\ heap' = (NeedsHeap(pull) /\ ~discard)
     /\ passed' = IF w.count = 0 THEN passed ELSE Append(passed, pull)
     /\ traced' = IF discard THEN traced ELSE Append(traced, pull)
     /\ \/ /\ HasPreCallback(w.kind)
           /\ Call("trace_loop", pull, "pre_callback")
           /\ UNCHANGED <<pull, queued>>
        \/ /\ ~HasPreCallback(w.kind) /\ HasPostCallback(w.kind)
           /\ Call("trace_loop", cmd.next, "post_callback")
           /\ UNCHANGED <<pull, queued>>
        \/ /\ ~HasPreCallback(w.kind) /\ ~HasPostCallback(w.kind)
           /\ Goto("trace_loop", "parsed")
           /\ pull' = cmd.next /\ queued' = queued + cmd.next - pull
           /\ UNCHANGED run
  /\ UNCHANGED <<hardware, put, fifo, game, state, saved, looked, working, push, flip, stall,
                 logged>>

PreCallback ==
  /\ pull # realPush
  /\ Call("pre_callback", info.next, "post_callback")
  /\ UNCHANGED <<hardware, put, fifo, game, state, saved, looked, trace, history>>

PostCallback ==
  /\ Goto("post_callback", "parsed")
  /\ pull' = info.next
  /\ UNCHANGED <<hardware, put, fifo, game, state, saved, looked, run, working, info, heap,
                 queued, push, flip, stall, history>>

\* An increment is a flip unless a stall follows it closely.
IsFlip(limit) ==
  info.valid /\ \/ info.kind = "flip_stall"
                \/ info.kind = "flip_inc" /\ ~FlipStallAhead(pull, limit)

PeekFailed == info.valid /\ info.kind = "flip_inc" /\ PeekFails(pull, realPush)

\* Mutant: a flip does not flush what is queued.
JudgeWithoutFlush ==
  /\ pc = "parsed" /\ ~PeekFailed
  /\ push' = realPush /\ flip' = IsFlip(realPush)
  /\ IF pull = realPush \/ queued >= MaxQueueDepth
       THEN Call("parsed", pull, "verify") /\ queued' = 0
       ELSE Goto("parsed", "verify") /\ UNCHANGED <<run, queued>>
  /\ UNCHANGED <<hardware, put, fifo, game, state, saved, looked, working, pull, info, heap,
                 stall, history>>

Judge ==
  /\ pc = "parsed" /\ ~PeekFailed
  /\ push' = realPush /\ flip' = IsFlip(realPush)
  /\ IF pull = realPush \/ IsFlip(realPush) \/ queued >= MaxQueueDepth
       THEN Call("parsed", pull, "verify") /\ queued' = 0
       ELSE Goto("parsed", "verify") /\ UNCHANGED <<run, queued>>
  /\ UNCHANGED <<hardware, put, fifo, game, state, saved, looked, working, pull, info, heap,
                 stall, history>>

InStep == queued = 0 => get = pull

\* A failed parse or no memory for the parameters, a push buffer that ends under the
\* command, a failed peek, a GPU that is not where the parser is.
FailsWith(s) ==
  \/ /\ s = "FATAL_PROCESS_PUSH_BUFFER_COMMAND_FAILED"
     /\ \/ /\ Process /\ pull # realPush
           /\ Parse(pull) = 0 \/ (NeedsHeap(pull) /\ ~discard)
        \/ pc = "pre_callback" /\ pull = realPush
        \/ pc = "parsed" /\ PeekFailed
  \/ s = "FATAL_DISCARDING_FAILED" /\ pc = "verify" /\ ~InStep

TraceFails ==
  /\ \E s \in Fatal : FailsWith(s) /\ Finish(pc, s)
  /\ DeletePushBufferCommandTraceInfo /\ UNCHANGED history

LogCommand == logged' = IF ~discard /\ info.valid THEN Append(logged, info.from) ELSE logged

\* Mutant: the frame ends without deleting info.
FrameEndsLeaking ==
  /\ InStep /\ flip
  /\ Finish("verify", "IDLE_NEW_FRAME")
  /\ LogCommand /\ UNCHANGED <<heap, passed, traced>>

FrameEnds ==
  /\ InStep /\ flip
  /\ Finish("verify", "IDLE_NEW_FRAME")
  /\ LogCommand /\ DeletePushBufferCommandTraceInfo /\ UNCHANGED <<passed, traced>>

\* The end of an iteration.
Iterate(to, p, g, new_stall) ==
  /\ InStep /\ ~flip
  /\ Goto("verify", to)
  /\ SetFifo(p, g)
  /\ LogCommand /\ DeletePushBufferCommandTraceInfo
  /\ info' = NoInfo /\ push' = 0
  /\ stall' = new_stall
  /\ UNCHANGED <<hardware, put, game, state, saved, looked, run, working, pull, queued,
                 flip, passed, traced>>

\* The iteration found the push buffer empty, where it was before, once too often.
IsEmpty   == pull = push
Unchanged == stall.last = push
TooLong   == stall.sleeps = MaxSleeps

IterateMore ==
  ~IsEmpty /\ Iterate("trace_loop", pusher, pgraph, [stall EXCEPT !.sleeps = 0])

IterateEmpty ==
  /\ IsEmpty /\ ~(Unchanged /\ TooLong)
  /\ Iterate("trace_loop", pusher, pgraph,
             IF Unchanged THEN [stall EXCEPT !.sleeps = @ + 1]
                          ELSE [stall EXCEPT !.last = push, !.sleeps = 0])

\* Mutants: the workarounds are not bounded, or not counted.
WorkaroundUnbounded ==
  /\ IsEmpty /\ Unchanged /\ TooLong /\ stall.workarounds <= MaxWorkarounds
  /\ Iterate("workaround", TRUE, TRUE,
             [stall EXCEPT !.sleeps = 0, !.workarounds = @ + 1])

WorkaroundUncounted ==
  /\ IsEmpty /\ Unchanged /\ TooLong /\ stall.workarounds < MaxWorkarounds
  /\ Iterate("workaround", TRUE, TRUE, [stall EXCEPT !.sleeps = 0])

\* The stall workaround lets the GPU run for a while.
WorkaroundBegins ==
  /\ IsEmpty /\ Unchanged /\ TooLong /\ stall.workarounds < MaxWorkarounds
  /\ Iterate("workaround", TRUE, TRUE,
             [stall EXCEPT !.sleeps = 0, !.workarounds = @ + 1])

WorkaroundEnds == Switch("workaround", "trace_loop", FALSE, FALSE)

StallIsPermanent ==
  /\ InStep /\ ~flip
  /\ IsEmpty /\ Unchanged /\ TooLong /\ stall.workarounds = MaxWorkarounds
  /\ Finish("verify", "FATAL_PERMANENT_STALL")
  /\ LogCommand /\ DeletePushBufferCommandTraceInfo /\ UNCHANGED <<passed, traced>>

-----------------------------------------------------------------------------
(* Shutdown.                                                                    *)

ShutdownBegins == state \in Fatal \cup {"SHUTDOWN_REQUESTED"} /\ Look("poll", "shutdown")

RestoreDMA ==
  /\ Goto("shutdown", "resume")
  /\ put' = IF valid THEN realPush ELSE put
  /\ valid' = FALSE
  /\ UNCHANGED <<hardware, fifo, game, state, realPush, realPull, target, looked, run, trace,
                 history>>

ShutdownEnds ==
  /\ Goto("resume", "gone")
  /\ SetFifo(TRUE, pgraph)
  /\ state' = "SHUTDOWN"
  /\ UNCHANGED <<hardware, put, game, saved, looked, run, trace, history>>

-----------------------------------------------------------------------------
\* What the debugger asks for.  It waits for a stable push buffer before it asks for
\* a frame.
ClientStep == Detach \/ WaitBegins \/ \E s \in Working : TraceBegins(s)

WaitStep == \/ WaitDisables \/ WaitTimesOut \/ WaitFills \/ WaitDrains \/ WaitLooks
            \/ WaitHides \/ WaitResumes \/ WaitSeesEmpty \/ WaitPauses \/ WaitAgain
            \/ WaitSucceeds \/ WaitAborts

RunStep == \/ RunEnters \/ RunDisables \/ RunHides \/ KickRefused \/ KickBegins
           \/ KickEnds \/ RunEnables \/ RunMoves \/ RunReturns

TraceStep == \/ TraceStops \/ TraceFails
             \/ ProcessNothing \/ ProcessBranch \/ ProcessMethod
             \/ PreCallback \/ PostCallback \/ Judge \/ FrameEnds
             \/ IterateMore \/ IterateEmpty
             \/ WorkaroundBegins \/ WorkaroundEnds \/ StallIsPermanent

TracerStep == \/ WaitStep \/ RunStep \/ TraceStep
              \/ ShutdownBegins \/ RestoreDMA \/ ShutdownEnds

Next == PushWord \/ Execute \/ GameWrites \/ ClientStep \/ TracerStep

Spec == Init /\ [][Next]_vars

\* The tracer thread is scheduled and PGRAPH executes what it is given; the pusher gets
\* something done in some of the kicks, which may each be too short for it.
FairSpec == Spec /\ WF_vars(TracerStep) /\ WF_vars(Execute) /\ SF_vars(PushWord)

-----------------------------------------------------------------------------
Positions == 0..(Len(Program) + 1)

\* Every variable stays in its type.
TypeOK ==
  /\ {get, put, sub, header, realPush, realPull, target, pull, push} \subseteq Positions
  /\ left \in Nat /\ queued \in 0..(MaxQueueDepth + Len(Program)) /\ Len(cache) <= CacheSize
  /\ written \in DOMAIN Puts
  /\ leftover \in 0..Len(cache)
  /\ {pusher, pgraph, late, escaped, valid, heap, flip} \subseteq BOOLEAN
  /\ working \in Working \cup {"NONE"}
  /\ stall.sleeps \in 0..MaxSleeps /\ stall.workarounds \in 0..MaxWorkarounds

Controlled == valid /\ target # 0

\* The push buffer is a ring: no part of it goes round by itself.
Ring == \A part \in SUBSET Commands :
          part # {} /\ (\A a \in part : Parse(a) \in part) => part = Commands

\* After what CACHE1 held when the push buffer became stable, the GPU executes no command
\* that the parser has not passed, and executes those in that order and none twice,
\* whatever the game writes: until a write in the middle of a stall workaround lets the
\* pusher go on by itself.
NothingUntraced == Controlled /\ ~escaped => IsPrefix(executed, passed)

\* How many of the methods that were passed come before the command being processed.
Before == IF Program[info.from].count = 0 THEN Len(passed) ELSE Len(passed) - 1

\* A pre-callback sees the GPU before its command, a post-callback after all of its
\* parameters: RunFIFO has left nothing half way in CACHE1.  And the tracer never finds
\* the GPU elsewhere than the parser.  All this while the pusher has not moved in a
\* stall workaround.
CallbacksInStep ==
  ~escaped =>
    /\ pc \in {"pre_callback", "post_callback"} =>
         /\ left = 0 /\ cache = <<>>
         /\ executed = IF pc = "pre_callback" THEN SubSeq(passed, 1, Before) ELSE passed
    /\ pc = "verify" => InStep

\* A new frame starts with the GPU exactly at the parser, everything executed, and
\* every command of the frames that were traced logged once, in order, while the pusher
\* has not moved in a stall workaround.
FrameComplete ==
  pc = "poll" /\ state = "IDLE_NEW_FRAME" /\ ~escaped =>
    /\ executed = passed
    /\ logged = traced
    /\ get = realPull

\* What the game writes to DMA_PUT while the tracer owns it is not lost: it is in the
\* register, or saved to be put back.
LateWritesKept == Controlled /\ late => GamePut \in {put, realPush}

\* What that needs of the game: while the tracer owns DMA_PUT, the game does not write
\* the very value that the tracer put there last.  ExchangeDMAPushAddress could not tell
\* such a write from none.
FreshWrites == [][GameWrites /\ Controlled => put' # target]_vars

\* The heap buffer of a command's parameters does not outlive its iteration, however that
\* one ends: at each of its ends DeletePushBufferCommandTraceInfo is a call of its own.
ParametersFreed == pc \in {"poll", "trace_loop", "workaround", "shutdown", "gone"} => ~heap

\* A frame request is answered, even when the game sends nothing more: RunFIFO reaches
\* its target and the stall detector gives up.  Only a pusher that has moved in a stall
\* workaround may be past the target for good.
RequestEnds == (working # "NONE") ~> (working = "NONE" \/ escaped)

-----------------------------------------------------------------------------
(* What the documentation says and the code does not do.                        *)

\* cmd_detach.h: a detach attempts to restore the xbox to a normal running state, in
\* which the GPU has all of the game's push buffer before it.
RestoredOnShutdown == pc = "gone" => put = GamePut /\ pusher /\ pgraph

\* pushbuffer_command.h: nested subroutines are unsupported, others are not said to be.
SubroutinesParsed == state # "FATAL_PROCESS_PUSH_BUFFER_COMMAND_FAILED"
=============================================================================
