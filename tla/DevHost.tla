------------------------------ MODULE DevHost ------------------------------
(* The development host, src/devhost/src/main.cpp: a program that links the    *)
(* tracer and traces one frame of its own.  Its tracer thread takes the place  *)
(* of the XBDM command thread: what TracerStateMachine leaves to a debugger is *)
(* done here by one program, that waits for states with the notifications it   *)
(* was sent and for requests by polling.                                       *)
EXTENDS TracerStateMachine

VARIABLES
  rendered,  \* has_rendered_frame
  host,      \* where TracerThreadMain of main.cpp is
  created    \* what TracerCreate returns

hostOnly == <<rendered, host, created>>
hostVars == <<vars, hostOnly>>

HostInit == Init /\ rendered = FALSE /\ host = "frame" /\ created = FALSE

\* No call of the tracer library is under way in the host's thread.
Free == pc[Cmd] = "idle" /\ note[Cmd] = NoNote

HostGoto(from, to) ==
  /\ host = from /\ host' = to
  /\ UNCHANGED <<rendered, created>>

-----------------------------------------------------------------------------
\* The thread of main: it draws frames for ever.
RenderFrame ==
  /\ rendered' = TRUE
  /\ UNCHANGED <<vars, host, created>>

AwaitFrame ==
  /\ rendered
  /\ HostGoto("frame", "create")
  /\ UNCHANGED vars

Create == HostGoto("create", "creating") /\ AttachBegin

CreateReturns ==
  /\ Free
  /\ HostGoto("creating", IF created THEN "wait_idle" ELSE "ended")
  /\ UNCHANGED vars

\* WaitForState: tracer_state is the state of the last notification.
AwaitIdle ==
  /\ seen = "IDLE"
  /\ HostGoto("wait_idle", "ask_wait")
  /\ UNCHANGED vars

\* Mutant: the state that is wanted is passed for the request that leads to it.
AskForState(from, r, to) ==
  /\ HostGoto(from, to)
  /\ Goto(Cmd, "idle", "idle")
  /\ request' = "IDLE_NEW_FRAME"
  /\ UNCHANGED <<state, dmaValid, buffers, job, note, seen>>

\* The request functions return XBOX_S_OK or an error, neither of which is 0: a
\* request that is refused is waited for all the same.
Ask(from, r, to) ==
  /\ HostGoto(from, to)
  /\ Free
  /\ IF request \in {NoRequest, r} THEN SetRequest(r) ELSE UNCHANGED vars

\* WaitForRequestComplete.
AwaitRequest(from, to) ==
  /\ request = NoRequest
  /\ HostGoto(from, to)
  /\ UNCHANGED vars

\* Mutant: the frame is traced before one has begun.
RequestsUnordered ==
  \/ Ask("ask_wait", "WAIT_FOR_STABLE_PUSH_BUFFER", "waiting")
  \/ AwaitRequest("waiting", "ask_trace")
  \/ Ask("ask_trace", "TRACE_UNTIL_FLIP", "tracing")
  \/ AwaitRequest("tracing", "shutdown")

Requesting ==
  \/ Ask("ask_wait", "WAIT_FOR_STABLE_PUSH_BUFFER", "waiting")
  \/ AwaitRequest("waiting", "ask_discard")
  \/ Ask("ask_discard", "DISCARD_UNTIL_NEXT_FLIP", "discarding")
  \/ AwaitRequest("discarding", "ask_trace")
  \/ Ask("ask_trace", "TRACE_UNTIL_FLIP", "tracing")
  \/ AwaitRequest("tracing", "shutdown")

\* TracerShutdown.
HostShutdown ==
  /\ HostGoto("shutdown", "stopping")
  /\ Free
  /\ IF state \in {"UNINITIALIZED", "SHUTDOWN"} THEN UNCHANGED vars ELSE DetachBegin

ShutdownReturns ==
  /\ Free
  /\ HostGoto("stopping", "ended")
  /\ UNCHANGED vars

HostThread ==
  \/ AwaitFrame \/ Create \/ CreateReturns \/ AwaitIdle
  \/ Requesting \/ HostShutdown \/ ShutdownReturns

\* A step of the call the host's thread is in.
HostCall ==
  /\ CommandStep
  /\ created' = (created \/ AttachDone)
  /\ UNCHANGED <<rendered, host>>

HostTracer(t) == TracerStep(t) /\ UNCHANGED hostOnly

HostNext == RenderFrame \/ HostThread \/ HostCall \/ \E t \in Tracers : HostTracer(t)

HostSpec == HostInit /\ [][HostNext]_hostVars

\* Every thread is scheduled.  main draws and flips for ever, so the working loops
\* do not go round for ever: a push buffer becomes stable, a flip is found, or the
\* loop fails.
LeavesLoop(t) == pc[t] \in {"wait_body", "trace_body"} /\ pc'[t] \notin {"wait_loop", "trace_loop"}

HostFairness ==
  /\ WF_hostVars(RenderFrame)
  /\ WF_hostVars(HostThread)
  /\ WF_hostVars(HostCall)
  /\ \A t \in Tracers : WF_hostVars(HostTracer(t))
  /\ \A t \in Tracers : SF_hostVars(HostTracer(t) /\ LeavesLoop(t))

HostFairSpec == HostSpec /\ HostFairness

-----------------------------------------------------------------------------
HostPC == {"frame", "create", "creating", "wait_idle", "ask_wait", "waiting",
           "ask_discard", "discarding", "ask_trace", "tracing", "shutdown",
           "stopping", "ended"}

\* Every variable stays in its type.
HostTypeOK == TypeOK /\ rendered \in BOOLEAN /\ host \in HostPC /\ created \in BOOLEAN

Asking == {"ask_wait", "ask_discard", "ask_trace"}

\* The host asks in the right order: none of its requests meets another one that is
\* pending, and the tracer never rejects one for the state it is in.
NeverRejected ==
  /\ host \in Asking => request = NoRequest
  /\ state \notin {"FATAL_NOT_IN_STABLE_STATE", "FATAL_NOT_IN_NEW_FRAME_STATE"}

\* What the host waits for is the last notification.  The IDLE of the tracer thread
\* may arrive before the INITIALIZED of TracerCreate, which is sent outside the lock:
\* when both have arrived and none is on its way, the idle tracer is never seen idle.
IdleMissed ==
  /\ host = "wait_idle" /\ state = "IDLE" /\ seen = "INITIALIZED"
  /\ \A t \in Threads : note[t] = NoNote

\* A request that fails is completed like one that succeeds, so the next one may be
\* made of a session that is over, where nobody will complete it.
AskedTooLate == host = "tracing" /\ request # NoRequest /\ NoTracer

\* Those two apart the thread comes to its end, whatever fails: an attach that is
\* refused memory, a stalled push buffer, a discard or a trace that goes wrong.
HostFinishes == (host = "create") ~> (host = "ended" \/ IdleMissed \/ AskedTooLate)

\* main.cpp: "Create a tracer instance and wait for it to stabilize."  A tracer
\* that was created is seen idle and asked for its first request.
IdleIsSeen == (host = "wait_idle") ~> (host = "ask_wait")

-----------------------------------------------------------------------------
(* Why no request is rejected: the parts of an inductive invariant.             *)

\* Which of its requests the host may still find pending.
AskInv ==
  /\ host \notin {"waiting", "discarding", "tracing"} => request = NoRequest
  /\ host = "waiting"    => request \in {NoRequest, "WAIT_FOR_STABLE_PUSH_BUFFER"}
  /\ host = "discarding" => request \in {NoRequest, "DISCARD_UNTIL_NEXT_FLIP"}
  /\ host = "tracing"    => request \in {NoRequest, "TRACE_UNTIL_FLIP"}

\* Which of its calls the host can be in.
CallInv ==
  /\ pc[Cmd] = "detach_set" => host = "stopping"
  /\ pc[Cmd] \notin {"idle", "detach_set"} => host = "creating"

\* Each handler is entered for requests of its kind, and the loop is left when the
\* state is no longer that of the loop.
JobInv ==
  \A t \in Tracers :
    /\ pc[t] \in {"wait_entry", "wait_set", "wait_abort"} \cup WaitPC =>
         job[t] = "WAIT_FOR_STABLE_PUSH_BUFFER"
    /\ pc[t] \in {"discard_entry", "discard_check"} => job[t] \in DiscardRequests
    /\ pc[t] \in {"trace_entry", "trace_set"} \cup TracePC =>
         job[t] \in DiscardRequests \cup TraceRequests
    /\ pc[t] \in TracePC => state \in {WorkingState(job[t])} \cup Down
    /\ pc[t] = "complete" /\ job[t] # "WAIT_FOR_STABLE_PUSH_BUFFER" =>
         state \in {"IDLE_NEW_FRAME"} \cup Down

\* The wait was completed; then the addresses are valid.
Waited ==
  \/ host \in {"ask_discard", "discarding", "ask_trace", "tracing"}
  \/ host = "waiting" /\ request = NoRequest
WaitedInv ==
  /\ state = "IDLE_NEW_FRAME" => dmaValid
  /\ \A t \in Tracers :
       /\ pc[t] = "complete" /\ job[t] = "WAIT_FOR_STABLE_PUSH_BUFFER" => dmaValid
       /\ Waited /\ Up(t) => dmaValid /\ pc[t] \notin {"start", "check", "enter"}

\* The discard was completed; then a new frame has begun, or the tracer is on its way
\* out.
Discarded ==
  \/ host \in {"ask_trace", "tracing"}
  \/ host = "discarding" /\ request = NoRequest
DiscardedInv ==
  Discarded => \A t \in Tracers :
    /\ pc[t] \in {"fetch", "trace_entry"} => state = "IDLE_NEW_FRAME"
    /\ pc[t] \in {"poll", "processed"} => state \in {"IDLE_NEW_FRAME"} \cup Down

RejectInv ==
  /\ state \notin {"FATAL_NOT_IN_STABLE_STATE", "FATAL_NOT_IN_NEW_FRAME_STATE"}
  /\ \A t \in Tracers : pc[t] \notin {"discard_reject", "trace_reject"}

HostInv == AskInv /\ CallInv /\ JobInv /\ WaitedInv /\ DiscardedInv /\ RejectInv
=============================================================================
