--------------------------- MODULE DevHostProofs ---------------------------
(* The development host is one of the clients TracerStateMachine allows, so    *)
(* what is proved of every client holds for its sessions.                      *)
EXTENDS DevHost, TracerStateMachineProofs

\* A step of the host program is one of the client, of the call it is in, of a tracer
\* thread, or none of the tracer's.
LEMMA HostStep == [HostNext]_hostVars => [Next]_vars
<1>. SUFFICES ASSUME [HostNext]_hostVars PROVE [Next]_vars
  OBVIOUS
<1>1. CASE RenderFrame
  BY <1>1 DEF RenderFrame
<1>2. CASE AwaitFrame \/ CreateReturns \/ AwaitIdle \/ ShutdownReturns
  BY <1>2 DEF AwaitFrame, CreateReturns, AwaitIdle, ShutdownReturns
<1>3. CASE Create
  BY <1>3 DEF Create, Next, ClientStep
<1>4. CASE Requesting
  <2>1. ASSUME NEW from, NEW r \in Requests, NEW to, Ask(from, r, to) PROVE [Next]_vars
    BY <2>1 DEF Ask, Next, ClientStep
  <2>2. ASSUME NEW from, NEW to, AwaitRequest(from, to) PROVE [Next]_vars
    BY <2>2 DEF AwaitRequest
  <2>3. {"WAIT_FOR_STABLE_PUSH_BUFFER", "DISCARD_UNTIL_NEXT_FLIP", "TRACE_UNTIL_FLIP"}
          \subseteq Requests
    BY DEF Requests, DiscardRequests, TraceRequests
  <2>. QED
    BY <1>4, <2>1, <2>2, <2>3 DEF Requesting
<1>5. CASE HostShutdown
  BY <1>5 DEF HostShutdown, Next, ClientStep
<1>6. CASE HostCall
  BY <1>6 DEF HostCall, Next
<1>7. ASSUME NEW t \in Tracers, HostTracer(t) PROVE [Next]_vars
  BY <1>7 DEF HostTracer, Next
<1>8. CASE UNCHANGED hostVars
  BY <1>8 DEF hostVars
<1>. QED
  BY <1>1, <1>2, <1>3, <1>4, <1>5, <1>6, <1>7, <1>8 DEF HostNext, HostThread

\* The sessions of the development host are sessions of TracerStateMachine: nothing it
\* does is outside of what the model of the debugger allows.
THEOREM HostIsAClient == HostSpec => Spec
<1>1. HostInit => Init
  BY DEF HostInit
<1>. QED
  BY <1>1, HostStep, PTL DEF HostSpec, Spec

\* So its tracer threads are at most one, however its waits end.
THEOREM HostHasOneTracer == ASSUME Patient PROVE HostSpec => []OneTracer
BY HostIsAClient, AtMostOneTracer, PTL

\* The types of the host's own variables and of the tracer's.
THEOREM HostTypeCorrect == HostSpec => []HostTypeOK
<1>. DEFINE Own == rendered \in BOOLEAN /\ host \in HostPC /\ created \in BOOLEAN
<1>1. HostInit => Own
  BY DEF HostInit, HostPC
<1>2. Own /\ [HostNext]_hostVars => Own'
  <2>. SUFFICES ASSUME Own, [HostNext]_hostVars PROVE Own'
    OBVIOUS
  <2>. USE DEF HostGoto, HostPC
  <2>1. CASE RenderFrame
    BY <2>1 DEF RenderFrame
  <2>2. CASE AwaitFrame \/ Create \/ CreateReturns \/ AwaitIdle
    BY <2>2 DEF AwaitFrame, Create, CreateReturns, AwaitIdle
  <2>3. CASE Requesting
    BY <2>3 DEF Requesting, Ask, AwaitRequest
  <2>4. CASE HostShutdown \/ ShutdownReturns
    BY <2>4 DEF HostShutdown, ShutdownReturns
  <2>5. CASE HostCall
    <3>1. created' \in BOOLEAN
      BY <2>5 DEF HostCall
    <3>. QED
      BY <2>5, <3>1 DEF HostCall
  <2>6. ASSUME NEW t \in Tracers, HostTracer(t) PROVE Own'
    BY <2>6 DEF HostTracer, hostOnly
  <2>7. CASE UNCHANGED hostVars
    BY <2>7 DEF hostVars, hostOnly
  <2>. QED
    BY <2>1, <2>2, <2>3, <2>4, <2>5, <2>6, <2>7 DEF HostNext, HostThread
<1>3. TypeOK /\ Own => HostTypeOK
  BY DEF HostTypeOK
<1>. QED
  BY <1>1, <1>2, <1>3, HostIsAClient, TypeCorrect, PTL DEF HostSpec

-----------------------------------------------------------------------------
(* No request is rejected.                                                     *)

WaitHandlerPC  == {"wait_entry", "wait_set", "wait_abort"} \cup WaitPC
TraceHandlerPC == {"trace_entry", "trace_set"} \cup TracePC

\* A tracer that looks at the state stays in the handler of its request, and while
\* there is a new frame goes on with it.
LEMMA HostLook ==
  ASSUME IndInv, HostInv, UNCHANGED hostOnly, NEW t \in Tracers,
         NEW from \in UpPC, NEW to \in UpPC \cup {"restore"}, Look(t, from, to),
         to \in WaitHandlerPC => job[t] = "WAIT_FOR_STABLE_PUSH_BUFFER",
         to \in {"discard_entry", "discard_check"} => job[t] \in DiscardRequests,
         to \in TraceHandlerPC => job[t] \in DiscardRequests \cup TraceRequests,
         to \in TracePC => state \in {WorkingState(job[t])} \cup Down,
         to \in {"check", "enter"} => from \in {"start", "check"},
         to \notin {"start", "complete", "discard_reject", "trace_reject"},
         Discarded /\ to \in {"fetch", "trace_entry"} => state = "IDLE_NEW_FRAME",
         Discarded /\ to \in {"poll", "processed"} =>
           state \in {"IDLE_NEW_FRAME"} \cup Down
  PROVE  HostInv'
<1>. t # Cmd /\ t \in Threads /\ Cmd \in Threads
  BY ThreadsAssumption DEF Threads
<1>. OneTracer /\ TypeOK /\ ServingInv /\ SessionInv /\ AddressInv
  BY DEF IndInv, SessionInv
<1>. USE DEF HostInv, AskInv, CallInv, JobInv, WaitedInv, Waited, DiscardedInv, Discarded,
         RejectInv, Up, Active, Goto, Look, Enter, SetState, buffers, hostOnly, TypeOK,
         WaitPC, TracePC, HandlerPC, ShutdownPC, Running, Down, Fatal,
         DiscardRequests, TraceRequests, WorkingState, NoRequest
<1>. USE DEF OneTracer, ServingInv, AddressInv, StableHasAddresses
<1>. USE DEF WaitHandlerPC, TraceHandlerPC, UpPC
<1>1. AskInv' OBVIOUS
<1>2. CallInv' OBVIOUS
<1>3. JobInv' OBVIOUS
<1>4. WaitedInv' OBVIOUS
<1>5. DiscardedInv' OBVIOUS
<1>6. RejectInv' OBVIOUS
<1>. QED BY <1>1, <1>2, <1>3, <1>4, <1>5, <1>6

\* One that sets it sets none of the states of a rejection.
LEMMA HostEnter ==
  ASSUME IndInv, HostInv, UNCHANGED hostOnly, NEW t \in Tracers,
         NEW from \in UpPC,
         NEW to \in {"poll", "wait_loop", "trace_loop", "complete", "processed"},
         NEW s \in TracerState, Enter(t, from, to, s),
         s \notin {"FATAL_NOT_IN_STABLE_STATE", "FATAL_NOT_IN_NEW_FRAME_STATE"},
         s = "IDLE_NEW_FRAME" => dmaValid,
         to = "wait_loop" => job[t] = "WAIT_FOR_STABLE_PUSH_BUFFER",
         to = "trace_loop" => /\ job[t] \in DiscardRequests \cup TraceRequests
                              /\ s = WorkingState(job[t]),
         to = "complete" => IF job[t] = "WAIT_FOR_STABLE_PUSH_BUFFER"
                              THEN dmaValid ELSE s \in {"IDLE_NEW_FRAME"} \cup Down,
         Discarded => to \notin {"poll", "processed"}
  PROVE  HostInv'
<1>. t # Cmd /\ t \in Threads /\ Cmd \in Threads
  BY ThreadsAssumption DEF Threads
<1>. OneTracer /\ TypeOK /\ ServingInv /\ SessionInv /\ AddressInv
  BY DEF IndInv, SessionInv
<1>. USE DEF HostInv, AskInv, CallInv, JobInv, WaitedInv, Waited, DiscardedInv, Discarded,
         RejectInv, Up, Active, Goto, Look, Enter, SetState, buffers, hostOnly, TypeOK,
         WaitPC, TracePC, HandlerPC, ShutdownPC, Running, Down, Fatal,
         DiscardRequests, TraceRequests, WorkingState, NoRequest
<1>. USE DEF OneTracer, ServingInv, AddressInv, StableHasAddresses
<1>. USE DEF UpPC
<1>1. AskInv' OBVIOUS
<1>2. CallInv' OBVIOUS
<1>3. JobInv' OBVIOUS
<1>4. WaitedInv' OBVIOUS
<1>5. DiscardedInv' OBVIOUS
<1>6. RejectInv' OBVIOUS
<1>. QED BY <1>1, <1>2, <1>3, <1>4, <1>5, <1>6

\* The tracer's other steps.
LEMMA HostField ==
  ASSUME IndInv, HostInv, UNCHANGED hostOnly, NEW t \in Tracers,
         \/ NotifyStateChanged(t) \/ Fetch(t)
         \/ CompleteRequest(t) \/ RequestProcessed(t)
         \/ AlreadyThere(t, "wait_entry") /\ state \in {"IDLE_STABLE_PUSH_BUFFER", "IDLE_NEW_FRAME"}
         \/ AlreadyThere(t, "discard_entry") /\ state = "IDLE_NEW_FRAME"
         \/ SaveDMAAddresses(t, "wait_body", "wait_done")
         \/ SaveDMAAddresses(t, "wait_abort", "processed")
         \/ Shutdown(t)
  PROVE  HostInv'
<1>. t # Cmd /\ t \in Threads /\ Cmd \in Threads
  BY ThreadsAssumption DEF Threads
<1>. OneTracer /\ TypeOK /\ ServingInv /\ SessionInv /\ AddressInv
  BY DEF IndInv, SessionInv
<1>. USE DEF HostInv, AskInv, CallInv, JobInv, WaitedInv, Waited, DiscardedInv, Discarded,
         RejectInv, Up, Active, Goto, Look, Enter, SetState, buffers, hostOnly, TypeOK,
         WaitPC, TracePC, HandlerPC, ShutdownPC, Running, Down, Fatal,
         DiscardRequests, TraceRequests, WorkingState, NoRequest
<1>. USE DEF OneTracer, ServingInv, AddressInv, StableHasAddresses
<1>1. CASE NotifyStateChanged(t)
  BY <1>1 DEF NotifyStateChanged
<1>2. CASE Fetch(t)
  BY <1>2 DEF Fetch, HandlerOf, Requests
<1>3. CASE CompleteRequest(t)
  BY <1>3 DEF CompleteRequest
<1>4. CASE RequestProcessed(t)
  BY <1>4 DEF RequestProcessed
<1>5. CASE /\ AlreadyThere(t, "wait_entry")
          /\ state \in {"IDLE_STABLE_PUSH_BUFFER", "IDLE_NEW_FRAME"}
  BY <1>5 DEF AlreadyThere
<1>6. CASE AlreadyThere(t, "discard_entry") /\ state = "IDLE_NEW_FRAME"
  BY <1>6 DEF AlreadyThere
<1>7. CASE SaveDMAAddresses(t, "wait_body", "wait_done")
  BY <1>7 DEF SaveDMAAddresses
<1>8. CASE SaveDMAAddresses(t, "wait_abort", "processed")
  BY <1>8 DEF SaveDMAAddresses
<1>9. CASE RestoreDMA(t)
  BY <1>9 DEF RestoreDMA, SessionInv
<1>10. CASE DestroyAux(t)
  BY <1>10 DEF DestroyAux, DestroyBuffer
<1>11. CASE DestroyPGRAPH(t)
  BY <1>11 DEF DestroyPGRAPH, DestroyBuffer
<1>12. CASE Enter(t, "shutdown_set", "delete_sections", "SHUTDOWN")
  BY <1>12 DEF Enter
<1>13. CASE Look(t, "delete_sections", "gone")
  BY <1>13 DEF Look
<1>. QED
  BY <1>1, <1>2, <1>3, <1>4, <1>5, <1>6, <1>7, <1>8, <1>9, <1>10, <1>11, <1>12, <1>13 DEF Shutdown

\* The steps of a tracer thread.
LEMMA HostTracerInd ==
  ASSUME IndInv, HostInv, NEW t \in Tracers, TracerStep(t), UNCHANGED hostOnly
  PROVE  HostInv'
<1>. TypeOK /\ ServingInv /\ AddressInv
  BY DEF IndInv
<1>. AskInv /\ JobInv /\ WaitedInv /\ DiscardedInv /\ RejectInv
  BY DEF HostInv
<1>. USE DEF UpPC, TracerPC, HandlerPC, WaitPC, TracePC, ShutdownPC, WaitHandlerPC,
             TraceHandlerPC, AskInv, JobInv, WaitedInv, Waited, DiscardedInv,
             Discarded, RejectInv, ServingInv, AddressInv, Up, Active, TracerState,
             Running, Down, Fatal, DiscardRequests, TraceRequests, NoRequest
<1>1. /\ \A from, to : Look(t, from, to) => pc[t] = from
      /\ \A from, to, s : Enter(t, from, to, s) => pc[t] = from
  BY DEF Look, Enter, Goto
<1>2. CASE Start(t)
  <2>1. CASE state # "INITIALIZING" /\ Look(t, "start", "check")
    BY <2>1, <1>1, HostLook
  <2>2. CASE state = "INITIALIZED" /\ Look(t, "check", "enter")
    BY <2>2, <1>1, HostLook
  <2>3. CASE state # "INITIALIZED" /\ Look(t, "check", "restore")
    BY <2>3, <1>1, HostLook
  <2>4. CASE Enter(t, "enter", "poll", "IDLE")
    BY <2>4, <1>1, HostEnter
  <2>. QED
    BY <1>2, <2>1, <2>2, <2>3, <2>4 DEF Start
<1>3. CASE Poll(t)
  <2>1. CASE state \in Down /\ Look(t, "poll", "restore")
    BY <2>1, <1>1, HostLook
  <2>2. CASE state \notin Down /\ Look(t, "poll", "fetch")
    BY <2>2, <1>1, HostLook
  <2>. QED
    BY <1>3, <2>1, <2>2 DEF Poll
<1>4. CASE WaitEntry(t)
  <2>1. CASE /\ state \in {"IDLE_STABLE_PUSH_BUFFER", "IDLE_NEW_FRAME"}
            /\ AlreadyThere(t, "wait_entry")
    BY <2>1, HostField
  <2>2. CASE Look(t, "wait_entry", "wait_set")
    BY <2>2, <1>1, HostLook
  <2>3. CASE Enter(t, "wait_set", "wait_loop", "WAITING_FOR_STABLE_PUSH_BUFFER")
    BY <2>3, <1>1, HostEnter
  <2>. QED
    BY <1>4, <2>1, <2>2, <2>3 DEF WaitEntry
<1>5. CASE WaitLoop(t)
  <2>1. CASE Look(t, "wait_loop", "wait_body") \/ Look(t, "wait_body", "wait_loop")
    BY <2>1, <1>1, HostLook
  <2>2. CASE Look(t, "wait_loop", "wait_abort")
    BY <2>2, <1>1, HostLook
  <2>3. CASE \/ SaveDMAAddresses(t, "wait_body", "wait_done")
            \/ SaveDMAAddresses(t, "wait_abort", "processed")
    BY <2>3, HostField
  <2>4. CASE Enter(t, "wait_done", "complete", "IDLE_STABLE_PUSH_BUFFER")
    BY <2>4, <1>1, HostEnter
  <2>. QED
    BY <1>5, <2>1, <2>2, <2>3, <2>4 DEF WaitLoop
<1>6. CASE Discard(t)
  <2>1. CASE state = "IDLE_NEW_FRAME" /\ AlreadyThere(t, "discard_entry")
    BY <2>1, HostField
  <2>2. CASE Look(t, "discard_entry", "discard_check")
    BY <2>2, <1>1, HostLook
  <2>3. CASE Look(t, "discard_check", "trace_entry")
    BY <2>3, <1>1, HostLook
  <2>4. CASE ~dmaValid /\ Look(t, "discard_check", "discard_reject")
    BY <2>4, <1>1, HostLook
  <2>5. CASE Enter(t, "discard_reject", "processed", "FATAL_NOT_IN_STABLE_STATE")
    BY <2>5, <1>1
  <2>. QED
    BY <1>6, <2>1, <2>2, <2>3, <2>4, <2>5 DEF Discard
<1>7. CASE TraceEntry(t)
  <2>1. CASE /\ job[t] = "TRACE_UNTIL_FLIP" /\ state # "IDLE_NEW_FRAME"
            /\ Look(t, "trace_entry", "trace_reject")
    BY <2>1, <1>1, HostLook
  <2>2. CASE Look(t, "trace_entry", "trace_set")
    BY <2>2, <1>1, HostLook
  <2>3. CASE Enter(t, "trace_reject", "complete", "FATAL_NOT_IN_NEW_FRAME_STATE")
    BY <2>3, <1>1
  <2>4. CASE Enter(t, "trace_set", "trace_loop", WorkingState(job[t]))
    BY <2>4, <1>1, HostEnter DEF WorkingState
  <2>. QED
    BY <1>7, <2>1, <2>2, <2>3, <2>4 DEF TraceEntry
<1>8. CASE TraceLoop(t)
  <2>1. CASE state = WorkingState(job[t]) /\ Look(t, "trace_loop", "trace_body")
    BY <2>1, <1>1, HostLook
  <2>2. CASE state # WorkingState(job[t]) /\ Look(t, "trace_loop", "processed")
    BY <2>2, <1>1, HostLook
  <2>3. CASE Look(t, "trace_body", "trace_loop")
    BY <2>3, <1>1, HostLook
  <2>4. CASE \E s \in LoopFailures \cup {"IDLE_NEW_FRAME"} : Enter(t, "trace_body", "complete", s)
    BY <2>4, <1>1, HostEnter DEF LoopFailures
  <2>. QED
    BY <1>8, <2>1, <2>2, <2>3, <2>4 DEF TraceLoop
<1>. QED
  BY <1>2, <1>3, <1>4, <1>5, <1>6, <1>7, <1>8, HostField DEF TracerStep

\* The steps of a call of the tracer library.
LEMMA HostCallInd ==
  ASSUME IndInv, HostInv, HostCall
  PROVE  HostInv'
<1>. Cmd \in Threads /\ \A t \in Tracers : t # Cmd /\ t \in Threads
  BY ThreadsAssumption DEF Threads
<1>. TypeOK /\ AttachInv /\ SessionInv /\ ServingInv
  BY DEF IndInv
<1>. CommandStep /\ UNCHANGED <<rendered, host>>
  BY DEF HostCall
<1>. USE DEF HostInv, AskInv, CallInv, JobInv, WaitedInv, Waited, DiscardedInv, Discarded,
         RejectInv, Up, Active, Goto, Look, Enter, SetState, buffers, hostOnly, TypeOK,
         WaitPC, TracePC, HandlerPC, ShutdownPC, Running, Down, Fatal,
         DiscardRequests, TraceRequests, WorkingState, NoRequest
<1>. USE DEF AttachInv, SessionInv, ServingInv, NoTracer
<1>1. CASE NotifyStateChanged(Cmd)
  BY <1>1 DEF NotifyStateChanged
<1>2. CASE AttachSetState
  BY <1>2 DEF AttachSetState
<1>3. CASE AttachResetRequest
  BY <1>3 DEF AttachResetRequest
<1>4. CASE AttachAuxBuffer
  BY <1>4 DEF AttachAuxBuffer
<1>5. CASE AttachPGRAPHBuffer
  BY <1>5 DEF AttachPGRAPHBuffer
<1>6. CASE \E t \in Tracers : AttachCreateThread(t)
  BY <1>6 DEF AttachCreateThread
<1>7. CASE AttachThreadFailed
  BY <1>7 DEF AttachThreadFailed
<1>8. CASE AttachUndo
  BY <1>8 DEF AttachUndo
<1>9. CASE AttachDone
  BY <1>9 DEF AttachDone
<1>10. CASE DetachSetState
  BY <1>10 DEF DetachSetState
<1>. QED
  BY <1>1, <1>2, <1>3, <1>4, <1>5, <1>6, <1>7, <1>8, <1>9, <1>10 DEF CommandStep

\* The steps of the host itself.
LEMMA HostThreadInd ==
  ASSUME IndInv, HostInv, RenderFrame \/ HostThread
  PROVE  HostInv'
<1>. Cmd \in Threads /\ \A t \in Tracers : t # Cmd /\ t \in Threads
  BY ThreadsAssumption DEF Threads
<1>. TypeOK /\ ServingInv /\ SessionInv
  BY DEF IndInv
<1>. USE DEF HostInv, AskInv, CallInv, JobInv, WaitedInv, Waited, DiscardedInv, Discarded,
         RejectInv, Up, Active, Goto, Look, Enter, SetState, buffers, hostOnly, TypeOK,
         WaitPC, TracePC, HandlerPC, ShutdownPC, Running, Down, Fatal,
         DiscardRequests, TraceRequests, WorkingState, NoRequest
<1>. USE DEF ServingInv, HostGoto, Free, vars
<1>1. CASE RenderFrame
  BY <1>1 DEF RenderFrame
<1>2. CASE AwaitFrame
  BY <1>2 DEF AwaitFrame
<1>3. CASE Create
  BY <1>3 DEF Create, AttachBegin
<1>4. CASE CreateReturns
  BY <1>4 DEF CreateReturns
<1>5. CASE AwaitIdle
  BY <1>5 DEF AwaitIdle
<1>6. CASE Ask("ask_wait", "WAIT_FOR_STABLE_PUSH_BUFFER", "waiting")
  BY <1>6 DEF Ask, SetRequest
<1>7. CASE AwaitRequest("waiting", "ask_discard")
  BY <1>7 DEF AwaitRequest
<1>8. CASE Ask("ask_discard", "DISCARD_UNTIL_NEXT_FLIP", "discarding")
  BY <1>8 DEF Ask, SetRequest
<1>9. CASE AwaitRequest("discarding", "ask_trace")
  BY <1>9 DEF AwaitRequest
<1>10. CASE Ask("ask_trace", "TRACE_UNTIL_FLIP", "tracing")
  BY <1>10 DEF Ask, SetRequest
<1>11. CASE AwaitRequest("tracing", "shutdown")
  BY <1>11 DEF AwaitRequest
<1>12. CASE HostShutdown
  BY <1>12 DEF HostShutdown, DetachBegin
<1>13. CASE ShutdownReturns
  BY <1>13 DEF ShutdownReturns
<1>. QED
  BY <1>1, <1>2, <1>3, <1>4, <1>5, <1>6, <1>7, <1>8, <1>9, <1>10, <1>11, <1>12, <1>13
     DEF HostThread, Requesting

\* Whatever the waits of the host run into, it asks for one thing at a time, and for
\* nothing the tracer refuses in the state it is in.
THEOREM HostIsNeverRejected == ASSUME Patient PROVE HostSpec => []NeverRejected
<1>1. HostInit => HostInv
  BY ThreadsAssumption
     DEF HostInit, Init, HostInv, AskInv, CallInv, JobInv, WaitedInv, Waited, DiscardedInv,
         Discarded, RejectInv, Threads, WaitPC, TracePC
<1>2. IndInv /\ HostInv /\ [HostNext]_hostVars => HostInv'
  <2>. SUFFICES ASSUME IndInv, HostInv, [HostNext]_hostVars PROVE HostInv'
    OBVIOUS
  <2>1. CASE UNCHANGED hostVars
    BY <2>1
       DEF hostVars, hostOnly, vars, HostInv, AskInv, CallInv, JobInv, WaitedInv, Waited,
           DiscardedInv, Discarded, RejectInv, Up, Active
  <2>. QED
    BY <2>1, HostTracerInd, HostCallInd, HostThreadInd DEF HostNext, HostTracer
<1>3. HostInv => NeverRejected
  BY DEF HostInv, AskInv, RejectInv, NeverRejected, Asking
<1>. QED
  BY <1>1, <1>2, <1>3, HostIsAClient, Inductive, PTL DEF HostSpec
=============================================================================
