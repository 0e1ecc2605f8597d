---------------------- MODULE TracerStateMachineProofs ----------------------
(* For any number of thread identities and buffers: the type invariant and,    *)
(* for a client that waits for the end of a session before it attaches again,  *)
(* an inductive invariant with the safety properties that follow from it.      *)
EXTENDS TracerStateMachine, TLAPS

\* Where a thread of each kind may be.
PCOf(th) == IF th = Cmd THEN CommandPC ELSE TracerPC

-----------------------------------------------------------------------------
(* The type invariant.                                                         *)

\* A step that only moves a thread keeps the type invariant.
LEMMA LookType ==
  ASSUME TypeOK, NEW th \in Threads, NEW from, NEW to \in PCOf(th), Look(th, from, to)
  PROVE  TypeOK'
BY ThreadsAssumption DEF TypeOK, Look, Goto, PCOf, Threads, buffers

\* So does a call of SetState.
LEMMA EnterType ==
  ASSUME TypeOK, NEW th \in Threads, NEW from, NEW to \in PCOf(th),
         NEW s \in TracerState, Enter(th, from, to, s)
  PROVE  TypeOK'
BY ThreadsAssumption DEF TypeOK, Enter, Goto, SetState, PCOf, Threads, buffers

\* And a notification.
LEMMA NotifyType ==
  ASSUME TypeOK, NEW th \in Threads, NotifyStateChanged(th)
  PROVE  TypeOK'
BY DEF TypeOK, NotifyStateChanged, buffers

\* The steps of the command thread.
LEMMA CommandType ==
  ASSUME TypeOK, ClientStep \/ CommandStep
  PROVE  TypeOK'
<1>. Cmd \in Threads /\ CommandPC \subseteq PCOf(Cmd)
  BY DEF Threads, PCOf
<1>. USE ThreadsAssumption, NullAssumption
<1>1. CASE AttachBegin
  BY <1>1, LookType DEF AttachBegin, CommandPC
<1>2. CASE DetachBegin
  BY <1>2, LookType DEF DetachBegin, CommandPC
<1>3. ASSUME NEW r \in Requests, SetRequest(r)
      PROVE  TypeOK'
  BY <1>3 DEF TypeOK, SetRequest, Goto, Threads, CommandPC, buffers
<1>4. CASE NotifyStateChanged(Cmd)
  BY <1>4, NotifyType
<1>5. CASE AttachSetState
  BY <1>5, EnterType DEF AttachSetState, CommandPC, TracerState
<1>6. CASE AttachResetRequest
  BY <1>6 DEF TypeOK, AttachResetRequest, Goto, Threads, CommandPC, buffers
<1>7. CASE AttachAuxBuffer
  BY <1>7 DEF TypeOK, AttachAuxBuffer, Goto, Threads, CommandPC
<1>8. CASE AttachPGRAPHBuffer
  BY <1>8 DEF TypeOK, AttachPGRAPHBuffer, Goto, Threads, CommandPC
<1>9. ASSUME NEW t \in Tracers, AttachCreateThread(t)
      PROVE  TypeOK'
  BY <1>9 DEF TypeOK, AttachCreateThread, Threads, CommandPC, TracerPC, buffers
<1>10. CASE AttachThreadFailed
  BY <1>10, EnterType DEF AttachThreadFailed, CommandPC, TracerState, Down
<1>11. CASE AttachUndo
  BY <1>11 DEF TypeOK, AttachUndo, Goto, Threads, CommandPC
<1>12. CASE AttachDone
  BY <1>12, EnterType DEF AttachDone, CommandPC, TracerState, Running
<1>13. CASE DetachSetState
  BY <1>13, EnterType DEF DetachSetState, CommandPC, TracerState, Down
<1>. QED
  BY <1>1, <1>2, <1>3, <1>4, <1>5, <1>6, <1>7, <1>8, <1>9, <1>10, <1>11, <1>12, <1>13
     DEF ClientStep, CommandStep

\* The steps of a tracer thread that change something besides pc and the state.
LEMMA TracerFieldType ==
  ASSUME TypeOK, NEW t \in Tracers,
         \/ Fetch(t)
         \/ CompleteRequest(t)
         \/ RequestProcessed(t)
         \/ \E from \in HandlerPC : AlreadyThere(t, from)
         \/ \E from, to \in TracerPC : SaveDMAAddresses(t, from, to)
         \/ RestoreDMA(t)
         \/ DestroyAux(t)
         \/ DestroyPGRAPH(t)
  PROVE  TypeOK'
<1>. t \in Threads /\ t # Cmd
  BY ThreadsAssumption DEF Threads
<1>. USE DEF Goto, buffers
<1>1. CASE Fetch(t)
  <2>. HandlerOf(request) \in TracerPC
    BY DEF TypeOK, HandlerOf, TracerPC, HandlerPC, Requests, NoRequest
  <2>. QED
    BY <1>1 DEF TypeOK, Fetch
<1>2. CASE CompleteRequest(t)
  BY <1>2 DEF TypeOK, CompleteRequest, TracerPC
<1>3. CASE RequestProcessed(t)
  BY <1>3 DEF TypeOK, RequestProcessed, TracerPC
<1>4. ASSUME NEW from \in HandlerPC, AlreadyThere(t, from)
      PROVE  TypeOK'
  BY <1>4 DEF TypeOK, AlreadyThere, TracerPC, HandlerPC
<1>5. ASSUME NEW from \in TracerPC, NEW to \in TracerPC, SaveDMAAddresses(t, from, to)
      PROVE  TypeOK'
  BY <1>5 DEF TypeOK, SaveDMAAddresses
<1>6. CASE RestoreDMA(t)
  <2>1. dmaValid' \in BOOLEAN
    BY <1>6 DEF RestoreDMA
  <2>2. /\ pc' = [pc EXCEPT ![t] = "free_aux"]
        /\ UNCHANGED <<state, request, auxBuf, pgraphBuf, heap, job, note, seen>>
    BY <1>6 DEF RestoreDMA
  <2>. QED
    BY <2>1, <2>2 DEF TypeOK, TracerPC, ShutdownPC
<1>7. CASE DestroyAux(t)
  BY <1>7 DEF TypeOK, DestroyAux, DestroyBuffer, TracerPC, ShutdownPC
<1>8. CASE DestroyPGRAPH(t)
  BY <1>8 DEF TypeOK, DestroyPGRAPH, DestroyBuffer, TracerPC, ShutdownPC
<1>. QED
  BY <1>1, <1>2, <1>3, <1>4, <1>5, <1>6, <1>7, <1>8

\* The steps of a tracer thread.
LEMMA TracerType ==
  ASSUME TypeOK, NEW t \in Tracers, TracerStep(t)
  PROVE  TypeOK'
<1>. t \in Threads /\ PCOf(t) = TracerPC
  BY ThreadsAssumption DEF Threads, PCOf
<1>. USE DEF TracerPC, HandlerPC, WaitPC, TracePC, ShutdownPC
<1>1. CASE NotifyStateChanged(t)
  BY <1>1, NotifyType
<1>2. CASE Start(t)
  BY <1>2, LookType, EnterType DEF Start, TracerState, Running
<1>3. CASE Poll(t)
  BY <1>3, LookType DEF Poll
<1>4. CASE WaitEntry(t)
  BY <1>4, LookType, EnterType, TracerFieldType DEF WaitEntry, TracerState, Running
<1>5. CASE WaitLoop(t)
  BY <1>5, LookType, EnterType, TracerFieldType DEF WaitLoop, TracerState, Running
<1>6. CASE Discard(t)
  BY <1>6, LookType, EnterType, TracerFieldType DEF Discard, TracerState, Down, Fatal
<1>7. CASE TraceEntry(t)
  BY <1>7, LookType, EnterType DEF TraceEntry, WorkingState, TracerState, Running, Down, Fatal
<1>8. CASE TraceLoop(t)
  BY <1>8, LookType, EnterType
     DEF TraceLoop, LoopFailures, TracerState, Running, Down, Fatal
<1>9. CASE Shutdown(t)
  BY <1>9, LookType, EnterType, TracerFieldType DEF Shutdown, TracerState, Down
<1>. QED
  BY <1>1, <1>2, <1>3, <1>4, <1>5, <1>6, <1>7, <1>8, <1>9, TracerFieldType DEF TracerStep

\* Every variable stays in its type, whatever the client does.
THEOREM TypeCorrect == Spec => []TypeOK
<1>1. Init => TypeOK
  BY ThreadsAssumption
     DEF Init, TypeOK, Threads, TracerState, Down, CommandPC, TracerPC
<1>2. TypeOK /\ [Next]_vars => TypeOK'
  <2>1. ASSUME TypeOK, Next
        PROVE  TypeOK'
    BY <2>1, CommandType, TracerType DEF Next
  <2>2. ASSUME TypeOK, UNCHANGED vars
        PROVE  TypeOK'
    BY <2>2 DEF TypeOK, vars
  <2>. QED
    BY <2>1, <2>2
<1>. QED
  BY <1>1, <1>2, PTL DEF Spec

-----------------------------------------------------------------------------
(* The inductive invariant.  Most steps of a tracer only move it, or set the    *)
(* state, while it is neither gone nor shutting down: for those, what matters is *)
(* where it goes and which state it sets.                                       *)

UpPC == TracerPC \ (ShutdownPC \cup {"gone", "delete_sections"})

\* A tracer that looks at the state leaves a loop only when the state is another one,
\* and shuts down only when the state says so.
LEMMA LookInd ==
  ASSUME IndInv, TypeOK', NEW t \in Tracers, NEW from \in UpPC,
         NEW to \in UpPC \cup {"restore"}, Look(t, from, to),
         to \notin {"start", "wait_done"},
         to \in HandlerPC => from \in HandlerPC,
         from = "start" => state # "INITIALIZING",
         to = "check" => from = "start",
         to = "restore" => state \in Down,
         from \in {"complete", "processed", "poll"} =>
           to \in {"processed", "poll", "restore"} \/ state \notin Fatal,
         to = "trace_entry" => dmaValid,
         to = "trace_set" => from = "trace_entry",
         from \in WaitPC /\ to \notin WaitPC => state # "WAITING_FOR_STABLE_PUSH_BUFFER",
         from \in TracePC /\ to \notin TracePC => state # WorkingState(job[t])
  PROVE  IndInv'
<1>. t # Cmd /\ t \in Threads /\ Cmd \in Threads
  BY ThreadsAssumption DEF Threads
<1>. USE NullAssumption
     DEF IndInv, TypeOK, AttachInv, SessionInv, ServingInv, HeapInv, AddressInv,
         WorkingStateHasWorker, StableHasAddresses, OneTracer, Active, NoTracer, Up,
         Holding, Goto, Look, Enter, SetState, ShutdownPC, buffers,
         WaitPC, TracePC, HandlerPC, UpPC, TracerPC, Running, Down, Fatal,
         DiscardRequests, WorkingState, NoNote
<1>1. AttachInv' OBVIOUS
<1>2. SessionInv' OBVIOUS
<1>3. ServingInv' OBVIOUS
<1>4. HeapInv' OBVIOUS
<1>5. AddressInv' OBVIOUS
<1>6. WorkingStateHasWorker' OBVIOUS
<1>. QED BY <1>1, <1>2, <1>3, <1>4, <1>5, <1>6

\* A tracer that sets a working state goes to the loop that answers to it, and one that
\* sets a fatal state goes to the end of its request.
LEMMA EnterInd ==
  ASSUME IndInv, TypeOK', NEW t \in Tracers,
         NEW from \in UpPC \ {"start", "check"},
         NEW to \in UpPC \ {"start", "check", "wait_done", "trace_entry", "trace_set"},
         NEW s \in (Running \cup Fatal), Enter(t, from, to, s),
         to \in HandlerPC => from \in HandlerPC,
         s \in Fatal => to \in {"complete", "processed"},
         s = "WAITING_FOR_STABLE_PUSH_BUFFER" => to \in WaitPC,
         s \in {"DISCARDING_UNTIL_FLIP", "TRACING_UNTIL_FLIP"} =>
           to \in TracePC /\ s = WorkingState(job[t]),
         s = "IDLE_STABLE_PUSH_BUFFER" => from = "wait_done",
         s = "DISCARDING_UNTIL_FLIP" => from = "trace_set"
  PROVE  IndInv'
<1>. t # Cmd /\ t \in Threads /\ Cmd \in Threads
  BY ThreadsAssumption DEF Threads
<1>. USE NullAssumption
     DEF IndInv, TypeOK, AttachInv, SessionInv, ServingInv, HeapInv, AddressInv,
         WorkingStateHasWorker, StableHasAddresses, OneTracer, Active, NoTracer, Up,
         Holding, Goto, Look, Enter, SetState, ShutdownPC, buffers,
         WaitPC, TracePC, HandlerPC, UpPC, TracerPC, Running, Down, Fatal,
         DiscardRequests, WorkingState, NoNote
<1>1. AttachInv' OBVIOUS
<1>2. SessionInv' OBVIOUS
<1>3. ServingInv' OBVIOUS
<1>4. HeapInv' OBVIOUS
<1>5. AddressInv' OBVIOUS
<1>6. WorkingStateHasWorker' OBVIOUS
<1>. QED BY <1>1, <1>2, <1>3, <1>4, <1>5, <1>6

\* The tracer's other steps.
LEMMA TracerFieldInd ==
  ASSUME IndInv, TypeOK', NEW t \in Tracers,
         \/ Fetch(t)
         \/ CompleteRequest(t)
         \/ RequestProcessed(t)
         \/ \E from \in {"wait_entry", "discard_entry"} : AlreadyThere(t, from)
         \/ SaveDMAAddresses(t, "wait_body", "wait_done")
         \/ SaveDMAAddresses(t, "wait_abort", "processed")
         \/ Shutdown(t)
  PROVE  IndInv'
<1>. t # Cmd /\ t \in Threads /\ Cmd \in Threads
  BY ThreadsAssumption DEF Threads
<1>. USE NullAssumption
     DEF IndInv, TypeOK, AttachInv, SessionInv, ServingInv, HeapInv, AddressInv,
         WorkingStateHasWorker, StableHasAddresses, OneTracer, Active, NoTracer, Up,
         Holding, Goto, Look, Enter, SetState, ShutdownPC, buffers,
         WaitPC, TracePC, HandlerPC, Running, Down, Fatal, Requests, DiscardRequests,
         TraceRequests, NoRequest, WorkingState, NoNote
<1>1. CASE Fetch(t)
  <2>1. AttachInv' BY <1>1 DEF Fetch, HandlerOf
  <2>2. SessionInv' BY <1>1 DEF Fetch, HandlerOf
  <2>3. ServingInv' BY <1>1 DEF Fetch, HandlerOf
  <2>4. HeapInv' BY <1>1 DEF Fetch, HandlerOf
  <2>5. AddressInv' BY <1>1 DEF Fetch, HandlerOf
  <2>6. WorkingStateHasWorker' BY <1>1 DEF Fetch, HandlerOf
  <2>. QED BY <2>1, <2>2, <2>3, <2>4, <2>5, <2>6
<1>2. CASE CompleteRequest(t)
  <2>1. AttachInv' BY <1>2 DEF CompleteRequest
  <2>2. SessionInv' BY <1>2 DEF CompleteRequest
  <2>3. ServingInv' BY <1>2 DEF CompleteRequest
  <2>4. HeapInv' BY <1>2 DEF CompleteRequest
  <2>5. AddressInv' BY <1>2 DEF CompleteRequest
  <2>6. WorkingStateHasWorker' BY <1>2 DEF CompleteRequest
  <2>. QED BY <2>1, <2>2, <2>3, <2>4, <2>5, <2>6
<1>3. CASE RequestProcessed(t)
  <2>1. AttachInv' BY <1>3 DEF RequestProcessed
  <2>2. SessionInv' BY <1>3 DEF RequestProcessed
  <2>3. ServingInv' BY <1>3 DEF RequestProcessed
  <2>4. HeapInv' BY <1>3 DEF RequestProcessed
  <2>5. AddressInv' BY <1>3 DEF RequestProcessed
  <2>6. WorkingStateHasWorker' BY <1>3 DEF RequestProcessed
  <2>. QED BY <2>1, <2>2, <2>3, <2>4, <2>5, <2>6
<1>4. ASSUME NEW from \in {"wait_entry", "discard_entry"}, AlreadyThere(t, from)
      PROVE  IndInv'
  <2>1. AttachInv' BY <1>4 DEF AlreadyThere
  <2>2. SessionInv' BY <1>4 DEF AlreadyThere
  <2>3. ServingInv' BY <1>4 DEF AlreadyThere
  <2>4. HeapInv' BY <1>4 DEF AlreadyThere
  <2>5. AddressInv' BY <1>4 DEF AlreadyThere
  <2>6. WorkingStateHasWorker' BY <1>4 DEF AlreadyThere
  <2>. QED BY <2>1, <2>2, <2>3, <2>4, <2>5, <2>6
<1>5. CASE SaveDMAAddresses(t, "wait_body", "wait_done")
  <2>1. AttachInv' BY <1>5 DEF SaveDMAAddresses
  <2>2. SessionInv' BY <1>5 DEF SaveDMAAddresses
  <2>3. ServingInv' BY <1>5 DEF SaveDMAAddresses
  <2>4. HeapInv' BY <1>5 DEF SaveDMAAddresses
  <2>5. AddressInv' BY <1>5 DEF SaveDMAAddresses
  <2>6. WorkingStateHasWorker' BY <1>5 DEF SaveDMAAddresses
  <2>. QED BY <2>1, <2>2, <2>3, <2>4, <2>5, <2>6
<1>6. CASE SaveDMAAddresses(t, "wait_abort", "processed")
  <2>1. AttachInv' BY <1>6 DEF SaveDMAAddresses
  <2>2. SessionInv' BY <1>6 DEF SaveDMAAddresses
  <2>3. ServingInv' BY <1>6 DEF SaveDMAAddresses
  <2>4. HeapInv' BY <1>6 DEF SaveDMAAddresses
  <2>5. AddressInv' BY <1>6 DEF SaveDMAAddresses
  <2>6. WorkingStateHasWorker' BY <1>6 DEF SaveDMAAddresses
  <2>. QED BY <2>1, <2>2, <2>3, <2>4, <2>5, <2>6
<1>7. CASE RestoreDMA(t)
  <2>1. AttachInv' BY <1>7 DEF RestoreDMA
  <2>2. SessionInv' BY <1>7 DEF RestoreDMA
  <2>3. ServingInv' BY <1>7 DEF RestoreDMA
  <2>4. HeapInv' BY <1>7 DEF RestoreDMA
  <2>5. AddressInv' BY <1>7 DEF RestoreDMA
  <2>6. WorkingStateHasWorker' BY <1>7 DEF RestoreDMA
  <2>. QED BY <2>1, <2>2, <2>3, <2>4, <2>5, <2>6
<1>8. CASE DestroyAux(t)
  <2>1. AttachInv' BY <1>8 DEF DestroyAux, DestroyBuffer
  <2>2. SessionInv' BY <1>8 DEF DestroyAux, DestroyBuffer
  <2>3. ServingInv' BY <1>8 DEF DestroyAux, DestroyBuffer
  <2>4. HeapInv' BY <1>8 DEF DestroyAux, DestroyBuffer
  <2>5. AddressInv' BY <1>8 DEF DestroyAux, DestroyBuffer
  <2>6. WorkingStateHasWorker' BY <1>8 DEF DestroyAux, DestroyBuffer
  <2>. QED BY <2>1, <2>2, <2>3, <2>4, <2>5, <2>6
<1>9. CASE DestroyPGRAPH(t)
  <2>1. AttachInv' BY <1>9 DEF DestroyPGRAPH, DestroyBuffer
  <2>2. SessionInv' BY <1>9 DEF DestroyPGRAPH, DestroyBuffer
  <2>3. ServingInv' BY <1>9 DEF DestroyPGRAPH, DestroyBuffer
  <2>4. HeapInv' BY <1>9 DEF DestroyPGRAPH, DestroyBuffer
  <2>5. AddressInv' BY <1>9 DEF DestroyPGRAPH, DestroyBuffer
  <2>6. WorkingStateHasWorker' BY <1>9 DEF DestroyPGRAPH, DestroyBuffer
  <2>. QED BY <2>1, <2>2, <2>3, <2>4, <2>5, <2>6
<1>10. CASE Enter(t, "shutdown_set", "delete_sections", "SHUTDOWN")
  <2>1. AttachInv' BY <1>10
  <2>2. SessionInv' BY <1>10
  <2>3. ServingInv' BY <1>10
  <2>4. HeapInv' BY <1>10
  <2>5. AddressInv' BY <1>10
  <2>6. WorkingStateHasWorker' BY <1>10
  <2>. QED BY <2>1, <2>2, <2>3, <2>4, <2>5, <2>6
<1>11. CASE Look(t, "delete_sections", "gone")
  <2>1. AttachInv' BY <1>11
  <2>2. SessionInv' BY <1>11
  <2>3. ServingInv' BY <1>11
  <2>4. HeapInv' BY <1>11
  <2>5. AddressInv' BY <1>11
  <2>6. WorkingStateHasWorker' BY <1>11
  <2>. QED BY <2>1, <2>2, <2>3, <2>4, <2>5, <2>6
<1>. QED
  BY <1>1, <1>2, <1>3, <1>4, <1>5, <1>6, <1>7, <1>8, <1>9, <1>10, <1>11 DEF Shutdown

\* A notification changes nothing the invariant speaks of.
LEMMA NotifyInd ==
  ASSUME IndInv, TypeOK', NEW th \in Threads, NotifyStateChanged(th)
  PROVE  IndInv'
<1>. USE NullAssumption
     DEF IndInv, TypeOK, AttachInv, SessionInv, ServingInv, HeapInv, AddressInv,
         WorkingStateHasWorker, StableHasAddresses, OneTracer, Active, NoTracer, Up,
         Holding, Goto, Look, Enter, SetState, ShutdownPC, buffers, NotifyStateChanged
<1>1. AttachInv' OBVIOUS
<1>2. SessionInv' OBVIOUS
<1>3. ServingInv' OBVIOUS
<1>4. HeapInv' OBVIOUS
<1>5. AddressInv' OBVIOUS
<1>6. WorkingStateHasWorker' OBVIOUS
<1>. QED BY <1>1, <1>2, <1>3, <1>4, <1>5, <1>6

\* The steps of a tracer thread.
LEMMA TracerInd ==
  ASSUME IndInv, NEW t \in Tracers, TracerStep(t)
  PROVE  IndInv'
<1>. TypeOK'
  BY TracerType DEF IndInv
<1>. t \in Threads
  BY DEF Threads
<1>. USE DEF UpPC, TracerPC, HandlerPC, WaitPC, TracePC, ShutdownPC
<1>1. CASE NotifyStateChanged(t)
  BY <1>1, NotifyInd
<1>2. CASE Start(t)
  <2>1. CASE state # "INITIALIZING" /\ Look(t, "start", "check")
    BY <2>1, LookInd
  <2>2. CASE state = "INITIALIZED" /\ Look(t, "check", "enter")
    BY <2>2, LookInd DEF Fatal
  <2>3. CASE state # "INITIALIZED" /\ Look(t, "check", "restore")
    <3>. state \in Down
      BY <2>3 DEF Look, Goto, IndInv, SessionInv, Down
    <3>. QED
      BY <2>3, LookInd
  <2>4. CASE Enter(t, "enter", "poll", "IDLE")
    BY <2>4, EnterInd DEF Running, Fatal
  <2>. QED
    BY <1>2, <2>1, <2>2, <2>3, <2>4 DEF Start
<1>3. CASE Poll(t)
  BY <1>3, LookInd, EnterInd, TracerFieldInd
     DEF Poll, WorkingState, LoopFailures, Running, Down, Fatal
<1>4. CASE WaitEntry(t)
  BY <1>4, LookInd, EnterInd, TracerFieldInd
     DEF WaitEntry, WorkingState, LoopFailures, Running, Down, Fatal
<1>5. CASE WaitLoop(t)
  BY <1>5, LookInd, EnterInd, TracerFieldInd
     DEF WaitLoop, WorkingState, LoopFailures, Running, Down, Fatal
<1>6. CASE Discard(t)
  BY <1>6, LookInd, EnterInd, TracerFieldInd
     DEF Discard, WorkingState, LoopFailures, Running, Down, Fatal
<1>7. CASE TraceEntry(t)
  BY <1>7, LookInd, EnterInd, TracerFieldInd
     DEF TraceEntry, WorkingState, LoopFailures, Running, Down, Fatal
<1>8. CASE TraceLoop(t)
  BY <1>8, LookInd, EnterInd, TracerFieldInd
     DEF TraceLoop, WorkingState, LoopFailures, Running, Down, Fatal
<1>. QED
  BY <1>1, <1>2, <1>3, <1>4, <1>5, <1>6, <1>7, <1>8, TracerFieldInd DEF TracerStep

\* The steps of the command thread, with a client that attaches when it may.
LEMMA CommandInd ==
  ASSUME IndInv, Patient, ClientStep \/ CommandStep
  PROVE  IndInv'
<1>. TypeOK'
  BY CommandType DEF IndInv
<1>. Cmd \in Threads /\ Cmd \notin Tracers /\ Tracers \subseteq Threads
  BY ThreadsAssumption DEF Threads
<1>. USE NullAssumption
     DEF IndInv, TypeOK, AttachInv, SessionInv, ServingInv, HeapInv, AddressInv,
         WorkingStateHasWorker, StableHasAddresses, OneTracer, Active, NoTracer, Up,
         Holding, Goto, Look, Enter, SetState, ShutdownPC, buffers,
         WaitPC, TracePC, HandlerPC, Running, Down, Fatal, Requests, NoRequest, NoNote
<1>1. CASE AttachBegin
  <2>1. AttachInv' BY <1>1 DEF AttachBegin
  <2>2. SessionInv' BY <1>1 DEF AttachBegin
  <2>3. ServingInv' BY <1>1 DEF AttachBegin
  <2>4. HeapInv' BY <1>1 DEF AttachBegin
  <2>5. AddressInv' BY <1>1 DEF AttachBegin
  <2>6. WorkingStateHasWorker' BY <1>1 DEF AttachBegin
  <2>. QED BY <2>1, <2>2, <2>3, <2>4, <2>5, <2>6
<1>2. CASE DetachBegin
  <2>1. AttachInv' BY <1>2 DEF DetachBegin
  <2>2. SessionInv' BY <1>2 DEF DetachBegin
  <2>3. ServingInv' BY <1>2 DEF DetachBegin
  <2>4. HeapInv' BY <1>2 DEF DetachBegin
  <2>5. AddressInv' BY <1>2 DEF DetachBegin
  <2>6. WorkingStateHasWorker' BY <1>2 DEF DetachBegin
  <2>. QED BY <2>1, <2>2, <2>3, <2>4, <2>5, <2>6
<1>3. ASSUME NEW r \in Requests, SetRequest(r)
      PROVE  IndInv'
  <2>1. AttachInv' BY <1>3 DEF SetRequest
  <2>2. SessionInv' BY <1>3 DEF SetRequest
  <2>3. ServingInv' BY <1>3 DEF SetRequest
  <2>4. HeapInv' BY <1>3 DEF SetRequest
  <2>5. AddressInv' BY <1>3 DEF SetRequest
  <2>6. WorkingStateHasWorker' BY <1>3 DEF SetRequest
  <2>. QED BY <2>1, <2>2, <2>3, <2>4, <2>5, <2>6
<1>4. CASE AttachSetState
  <2>1. AttachInv' BY <1>4 DEF AttachSetState
  <2>2. SessionInv' BY <1>4 DEF AttachSetState
  <2>3. ServingInv' BY <1>4 DEF AttachSetState
  <2>4. HeapInv' BY <1>4 DEF AttachSetState
  <2>5. AddressInv' BY <1>4 DEF AttachSetState
  <2>6. WorkingStateHasWorker' BY <1>4 DEF AttachSetState
  <2>. QED BY <2>1, <2>2, <2>3, <2>4, <2>5, <2>6
<1>5. CASE AttachResetRequest
  <2>1. AttachInv' BY <1>5 DEF AttachResetRequest
  <2>2. SessionInv' BY <1>5 DEF AttachResetRequest
  <2>3. ServingInv' BY <1>5 DEF AttachResetRequest
  <2>4. HeapInv' BY <1>5 DEF AttachResetRequest
  <2>5. AddressInv' BY <1>5 DEF AttachResetRequest
  <2>6. WorkingStateHasWorker' BY <1>5 DEF AttachResetRequest
  <2>. QED BY <2>1, <2>2, <2>3, <2>4, <2>5, <2>6
<1>6. CASE AttachAuxBuffer
  <2>1. AttachInv' BY <1>6 DEF AttachAuxBuffer
  <2>2. SessionInv' BY <1>6 DEF AttachAuxBuffer
  <2>3. ServingInv' BY <1>6 DEF AttachAuxBuffer
  <2>4. HeapInv' BY <1>6 DEF AttachAuxBuffer
  <2>5. AddressInv' BY <1>6 DEF AttachAuxBuffer
  <2>6. WorkingStateHasWorker' BY <1>6 DEF AttachAuxBuffer
  <2>. QED BY <2>1, <2>2, <2>3, <2>4, <2>5, <2>6
<1>7. CASE AttachPGRAPHBuffer
  <2>1. AttachInv' BY <1>7 DEF AttachPGRAPHBuffer
  <2>2. SessionInv' BY <1>7 DEF AttachPGRAPHBuffer
  <2>3. ServingInv' BY <1>7 DEF AttachPGRAPHBuffer
  <2>4. HeapInv' BY <1>7 DEF AttachPGRAPHBuffer
  <2>5. AddressInv' BY <1>7 DEF AttachPGRAPHBuffer
  <2>6. WorkingStateHasWorker' BY <1>7 DEF AttachPGRAPHBuffer
  <2>. QED BY <2>1, <2>2, <2>3, <2>4, <2>5, <2>6
<1>8. ASSUME NEW t \in Tracers, AttachCreateThread(t)
      PROVE  IndInv'
  <2>1. AttachInv' BY <1>8 DEF AttachCreateThread
  <2>2. SessionInv' BY <1>8 DEF AttachCreateThread
  <2>3. ServingInv' BY <1>8 DEF AttachCreateThread
  <2>4. HeapInv' BY <1>8 DEF AttachCreateThread
  <2>5. AddressInv' BY <1>8 DEF AttachCreateThread
  <2>6. WorkingStateHasWorker' BY <1>8 DEF AttachCreateThread
  <2>. QED BY <2>1, <2>2, <2>3, <2>4, <2>5, <2>6
<1>9. CASE AttachThreadFailed
  <2>1. AttachInv' BY <1>9 DEF AttachThreadFailed
  <2>2. SessionInv' BY <1>9 DEF AttachThreadFailed
  <2>3. ServingInv' BY <1>9 DEF AttachThreadFailed
  <2>4. HeapInv' BY <1>9 DEF AttachThreadFailed
  <2>5. AddressInv' BY <1>9 DEF AttachThreadFailed
  <2>6. WorkingStateHasWorker' BY <1>9 DEF AttachThreadFailed
  <2>. QED BY <2>1, <2>2, <2>3, <2>4, <2>5, <2>6
<1>10. CASE AttachUndo
  <2>1. AttachInv' BY <1>10 DEF AttachUndo
  <2>2. SessionInv' BY <1>10 DEF AttachUndo
  <2>3. ServingInv' BY <1>10 DEF AttachUndo
  <2>4. HeapInv' BY <1>10 DEF AttachUndo
  <2>5. AddressInv' BY <1>10 DEF AttachUndo
  <2>6. WorkingStateHasWorker' BY <1>10 DEF AttachUndo
  <2>. QED BY <2>1, <2>2, <2>3, <2>4, <2>5, <2>6
<1>11. CASE AttachDone
  <2>1. AttachInv' BY <1>11 DEF AttachDone
  <2>2. SessionInv' BY <1>11 DEF AttachDone
  <2>3. ServingInv' BY <1>11 DEF AttachDone
  <2>4. HeapInv' BY <1>11 DEF AttachDone
  <2>5. AddressInv' BY <1>11 DEF AttachDone
  <2>6. WorkingStateHasWorker' BY <1>11 DEF AttachDone
  <2>. QED BY <2>1, <2>2, <2>3, <2>4, <2>5, <2>6
<1>12. CASE DetachSetState
  <2>1. AttachInv' BY <1>12 DEF DetachSetState
  <2>2. SessionInv' BY <1>12 DEF DetachSetState
  <2>3. ServingInv' BY <1>12 DEF DetachSetState
  <2>4. HeapInv' BY <1>12 DEF DetachSetState
  <2>5. AddressInv' BY <1>12 DEF DetachSetState
  <2>6. WorkingStateHasWorker' BY <1>12 DEF DetachSetState
  <2>. QED BY <2>1, <2>2, <2>3, <2>4, <2>5, <2>6
<1>13. CASE NotifyStateChanged(Cmd)
  BY <1>13, NotifyInd
<1>. QED
  BY <1>1, <1>2, <1>3, <1>4, <1>5, <1>6, <1>7, <1>8, <1>9, <1>10, <1>11, <1>12, <1>13 DEF ClientStep, CommandStep

-----------------------------------------------------------------------------
(* What follows for a client that waits for the end of a session before it       *)
(* attaches again.                                                              *)

\* The invariant is one of every behaviour.
THEOREM Inductive == ASSUME Patient PROVE Spec => []IndInv
<1>1. Init => IndInv
  BY ThreadsAssumption
     DEF Init, IndInv, TypeOK, AttachInv, SessionInv, ServingInv, HeapInv, AddressInv,
         WorkingStateHasWorker, StableHasAddresses, OneTracer, Active, NoTracer, Up,
         Holding, Threads, TracerState, Running, Down, Fatal, CommandPC, TracerPC,
         HandlerPC, WaitPC, TracePC, ShutdownPC
<1>2. IndInv /\ [Next]_vars => IndInv'
  <2>1. ASSUME IndInv, Next
        PROVE  IndInv'
    BY <2>1, CommandInd, TracerInd DEF Next
  <2>2. ASSUME IndInv, UNCHANGED vars
        PROVE  IndInv'
    BY <2>2
       DEF vars, IndInv, TypeOK, AttachInv, SessionInv, ServingInv, HeapInv, AddressInv,
           WorkingStateHasWorker, StableHasAddresses, OneTracer, Active, NoTracer, Up,
           Holding
  <2>. QED
    BY <2>1, <2>2
<1>. QED
  BY <1>1, <1>2, PTL DEF Spec

\* No interleaving of attaches, detaches and a dying tracer thread leaves two tracer
\* threads at work.
THEOREM AtMostOneTracer == ASSUME Patient PROVE Spec => []OneTracer
<1>1. IndInv => OneTracer
  BY DEF IndInv, SessionInv
<1>. QED
  BY <1>1, Inductive, PTL

\* What CompleteRequest completes is the request the tracer fetched.
THEOREM ServedRequestIsStable == ASSUME Patient PROVE Spec => []RequestStable
<1>1. IndInv => RequestStable
  BY DEF IndInv, ServingInv, RequestStable
<1>. QED
  BY <1>1, Inductive, PTL

\* A working state has a tracer in the loop that answers to it.
THEOREM WorkingStatesAreWorked == ASSUME Patient PROVE Spec => []WorkingStateHasWorker
<1>1. IndInv => WorkingStateHasWorker
  BY DEF IndInv
<1>. QED
  BY <1>1, Inductive, PTL

\* A stable or discarding state has valid DMA addresses.
THEOREM AddressesAreValid == ASSUME Patient PROVE Spec => []StableHasAddresses
<1>1. IndInv => StableHasAddresses
  BY DEF IndInv, AddressInv
<1>. QED
  BY <1>1, Inductive, PTL

\* The circular buffers live while the tracer is up, are destroyed once, are not leaked
\* by a failed attach, and are gone after the shutdown.
THEOREM BuffersAreManaged == ASSUME Patient PROVE Spec => []BuffersManaged
<1>1. IndInv => BuffersManaged
  <2>. SUFFICES ASSUME IndInv PROVE BuffersManaged
    OBVIOUS
  <2>. USE NullAssumption
       DEF IndInv, TypeOK, AttachInv, SessionInv, HeapInv, AddressInv, Up, Holding, Active,
           NoTracer, ShutdownPC
  <2>1. BuffersLive
    BY DEF BuffersLive
  <2>2. DestroyedOnce
    BY DEF DestroyedOnce
  <2>3. NoBufferLeak
    BY DEF NoBufferLeak
  <2>4. ReleasedWhenShutdown
    BY DEF ReleasedWhenShutdown
  <2>. QED
    BY <2>1, <2>2, <2>3, <2>4 DEF BuffersManaged
<1>. QED
  BY <1>1, Inductive, PTL

\* A tracer that fails shuts down: no step puts a fatal state back to life.
THEOREM FatalStatesAreFinal == ASSUME Patient PROVE Spec => FatalIsFinal
<1>. DEFINE Final == state \in Fatal => state' \in {state, "SHUTDOWN_REQUESTED", "SHUTDOWN"}
<1>1. ASSUME IndInv, ClientStep \/ CommandStep
      PROVE  Final
  BY <1>1
     DEF IndInv, AttachInv, Fatal, ClientStep, CommandStep, AttachBegin, DetachBegin,
         SetRequest, NotifyStateChanged, AttachSetState, AttachResetRequest,
         AttachAuxBuffer, AttachPGRAPHBuffer, AttachCreateThread, AttachThreadFailed,
         AttachUndo, AttachDone, DetachSetState, Enter, Look, Goto, SetState
<1>2. ASSUME IndInv, NEW t \in Tracers, TracerStep(t)
      PROVE  Final
  BY <1>2
     DEF IndInv, SessionInv, Active, ShutdownPC, Fatal, TracerStep, NotifyStateChanged,
         Start, Poll, Fetch, WaitEntry, WaitLoop, Discard, TraceEntry, TraceLoop,
         CompleteRequest, RequestProcessed, Shutdown, RestoreDMA, DestroyAux,
         DestroyPGRAPH, DestroyBuffer, AlreadyThere, SaveDMAAddresses, Enter, Look,
         Goto, SetState
<1>3. IndInv /\ [Next]_vars => [Final]_vars
  BY <1>1, <1>2 DEF Next
<1>. QED
  BY <1>3, Inductive, PTL DEF Spec, FatalIsFinal

-----------------------------------------------------------------------------
(* For any number of thread identities and buffers, and a patient client: each *)
(* step of the threads is one of the service they promise the debugger, or     *)
(* none.                                                                       *)

\* Where the command thread is outside TracerCreate.
NotAttaching == {"idle", "detach_set"}

\* What the debugger sees, read off the one active tracer, if there is one.
ViewOfTracer ==
  \A t \in Tracers : Active(t) =>
    /\ Phase = IF pc[t] \in ShutdownPC THEN "stopping" ELSE "up"
    /\ Serving = IF pc[t] \in HandlerPC THEN job[t] ELSE NoRequest

ViewOfNone ==
  NoTracer => /\ Phase = IF pc[Cmd] \in NotAttaching THEN "down" ELSE "starting"
              /\ Serving = NoRequest

LEMMA TracerSeen == IndInv => ViewOfTracer
<1>. SUFFICES ASSUME IndInv, NEW t \in Tracers, Active(t)
              PROVE  /\ Phase = IF pc[t] \in ShutdownPC THEN "stopping" ELSE "up"
                     /\ Serving = IF pc[t] \in HandlerPC THEN job[t] ELSE NoRequest
  BY DEF ViewOfTracer
<1>1. \A u \in Tracers : Active(u) => u = t
  BY DEF IndInv, SessionInv, OneTracer
<1>2. Phase = IF pc[t] \in ShutdownPC THEN "stopping" ELSE "up"
  BY <1>1 DEF Phase
<1>3. \A u \in Tracers : pc[u] \in HandlerPC => u = t
  BY <1>1 DEF Active, HandlerPC, WaitPC, TracePC
<1>4. CASE pc[t] \in HandlerPC
  <2>1. (CHOOSE u \in Tracers : pc[u] \in HandlerPC) = t
    BY <1>3, <1>4
  <2>. QED
    BY <1>2, <1>4, <2>1 DEF Serving
<1>5. CASE pc[t] \notin HandlerPC
  BY <1>2, <1>3, <1>5 DEF Serving
<1>. QED
  BY <1>4, <1>5

LEMMA NoneSeen == IndInv => ViewOfNone
<1>. SUFFICES ASSUME IndInv, NoTracer
              PROVE  /\ Phase = IF pc[Cmd] \in NotAttaching THEN "down" ELSE "starting"
                     /\ Serving = NoRequest
  BY DEF ViewOfNone
<1>1. \A t \in Tracers : ~Active(t) /\ pc[t] \notin HandlerPC
  BY DEF NoTracer, Active, HandlerPC, WaitPC, TracePC
<1>2. pc[Cmd] \in CommandPC
  BY DEF IndInv, TypeOK
<1>. QED
  BY <1>1, <1>2 DEF Phase, Serving, NotAttaching

\* Both hold after a step as well.
LEMMA ViewAfter == IndInv' => ViewOfTracer' /\ ViewOfNone'
BY TracerSeen, NoneSeen, PTL

\* While a tracer is active, an attach is at most at its last statement; before that
\* statement there is none.
LEMMA AttachSeesNoTracer ==
  IndInv => /\ pc[Cmd] \notin NotAttaching \cup {"attach_done"} => NoTracer
            /\ pc[Cmd] = "attach_done" => \E t \in Tracers : pc[t] = "start"
<1>. SUFFICES ASSUME IndInv
              PROVE  /\ pc[Cmd] \notin NotAttaching \cup {"attach_done"} => NoTracer
                     /\ pc[Cmd] = "attach_done" => \E t \in Tracers : pc[t] = "start"
  OBVIOUS
<1>1. pc[Cmd] \in CommandPC
  BY DEF IndInv, TypeOK
<1>. QED
  BY <1>1 DEF IndInv, AttachInv, SessionInv, CommandPC, NotAttaching

-----------------------------------------------------------------------------
(* Steps the debugger does not see.                                            *)

\* The active tracers, where they are and what they work for stay the same, and so does
\* the command thread's being in an attach, if it matters.
LEMMA Unseen ==
  ASSUME IndInv, IndInv', request' = request,
         \A t \in Tracers : Active(t)' = Active(t),
         \A t \in Tracers : Active(t) => pc'[t] = pc[t] /\ job'[t] = job[t],
         NoTracer => (pc'[Cmd] \in NotAttaching <=> pc[Cmd] \in NotAttaching)
  PROVE  UNCHANGED Service!vars
<1>1. ViewOfTracer /\ ViewOfNone /\ ViewOfTracer' /\ ViewOfNone'
  BY TracerSeen, NoneSeen, ViewAfter
<1>2. CASE NoTracer
  <2>1. NoTracer'
    BY <1>2 DEF NoTracer
  <2>. QED
    BY <1>1, <1>2, <2>1 DEF ViewOfNone, Service!vars
<1>3. CASE ~NoTracer
  <2>1. PICK t \in Tracers : Active(t)
    BY <1>3 DEF NoTracer
  <2>2. Active(t)' /\ pc'[t] = pc[t] /\ job'[t] = job[t]
    BY <2>1
  <2>. QED
    BY <1>1, <2>1, <2>2 DEF ViewOfTracer, Service!vars
<1>. QED
  BY <1>2, <1>3

\* The active tracer moves on within its handler, within its shutdown or between them.
LEMMA UnseenMove ==
  ASSUME IndInv, IndInv', request' = request,
         NEW t \in Tracers, NEW to \in TracerPC, pc' = [pc EXCEPT ![t] = to],
         Active(t), to \notin {"gone", "delete_sections"},
         pc[t] \in ShutdownPC <=> to \in ShutdownPC,
         pc[t] \in HandlerPC <=> to \in HandlerPC,
         to \in HandlerPC => job'[t] = job[t]
  PROVE  UNCHANGED Service!vars
<1>1. ViewOfTracer /\ ViewOfTracer'
  BY TracerSeen, ViewAfter
<1>2. pc'[t] = to
  BY ThreadsAssumption DEF IndInv, TypeOK, Threads
<1>3. Active(t)'
  BY <1>2 DEF Active
<1>. QED
  BY <1>1, <1>2, <1>3 DEF ViewOfTracer, Service!vars

-----------------------------------------------------------------------------
(* The steps of a tracer.                                                      *)

\* What is seen of the active tracer before it moves and after.
LEMMA SeenMove ==
  ASSUME IndInv, IndInv', NEW t \in Tracers, NEW to \in TracerPC, pc' = [pc EXCEPT ![t] = to],
         Active(t)
  PROVE  /\ Phase = IF pc[t] \in ShutdownPC THEN "stopping" ELSE "up"
         /\ Serving = IF pc[t] \in HandlerPC THEN job[t] ELSE NoRequest
         /\ pc[t] \in HandlerPC => Serving = request /\ Serving # NoRequest
         /\ to \notin {"gone", "delete_sections"} =>
              /\ Phase' = IF to \in ShutdownPC THEN "stopping" ELSE "up"
              /\ Serving' = IF to \in HandlerPC THEN job'[t] ELSE NoRequest
<1>1. ViewOfTracer /\ ViewOfTracer'
  BY TracerSeen, ViewAfter
<1>2. pc'[t] = to
  BY ThreadsAssumption DEF IndInv, TypeOK, Threads
<1>3. to \notin {"gone", "delete_sections"} => Active(t)'
  BY <1>2 DEF Active
<1>4. pc[t] \in HandlerPC => job[t] = request /\ job[t] # NoRequest
  BY DEF IndInv, ServingInv
<1>. QED
  BY <1>1, <1>2, <1>3, <1>4 DEF ViewOfTracer

\* A tracer that looks at the state, or sets it, within a handler or outside, is unseen.
LEMMA StepUnseen ==
  ASSUME IndInv, IndInv', NEW t \in Tracers, NEW from \in TracerPC, NEW to \in TracerPC,
         Look(t, from, to) \/ \E s \in TracerState : Enter(t, from, to, s),
         {from, to} \cap {"gone", "delete_sections"} = {},
         from \in ShutdownPC <=> to \in ShutdownPC,
         from \in HandlerPC <=> to \in HandlerPC
  PROVE  UNCHANGED Service!vars
<1>1. pc[t] = from /\ pc' = [pc EXCEPT ![t] = to] /\ request' = request /\ job' = job
  BY DEF Look, Enter, Goto
<1>2. Active(t)
  BY <1>1 DEF Active
<1>. QED
  BY <1>1, <1>2, UnseenMove

\* A tracer that leaves its handler without CompleteRequest abandons the request.
LEMMA StepAbandons ==
  ASSUME IndInv, IndInv', NEW t \in Tracers, NEW from \in HandlerPC,
         pc[t] = from, pc' = [pc EXCEPT ![t] = "processed"], request' = request
  PROVE  Service!Abandon
<1>1. /\ Active(t) /\ "processed" \in TracerPC \ (HandlerPC \cup ShutdownPC)
      /\ from \notin ShutdownPC
  BY DEF Active, HandlerPC, WaitPC, TracePC, TracerPC, ShutdownPC
<1>. QED
  BY <1>1, SeenMove DEF Service!Abandon

\* A tracer that finds the state down stops the session.
LEMMA StepStops ==
  ASSUME IndInv, IndInv', NEW t \in Tracers, NEW from \in {"check", "poll"},
         Look(t, from, "restore")
  PROVE  Service!Stop
<1>1. pc[t] = from /\ pc' = [pc EXCEPT ![t] = "restore"] /\ request' = request
  BY DEF Look, Goto
<1>2. /\ Active(t) /\ from \notin ShutdownPC \cup HandlerPC
      /\ "restore" \in TracerPC \cap ShutdownPC /\ "restore" \notin HandlerPC
  BY <1>1 DEF Active, HandlerPC, WaitPC, TracePC, TracerPC, ShutdownPC
<1>. QED
  BY <1>1, <1>2, SeenMove DEF Service!Stop

\* Fetching a request takes it; fetching none is unseen.
LEMMA FetchSeen ==
  ASSUME IndInv, IndInv', NEW t \in Tracers, Fetch(t)
  PROVE  Service!Take \/ UNCHANGED Service!vars
<1>1. /\ pc[t] = "fetch" /\ pc' = [pc EXCEPT ![t] = HandlerOf(request)]
      /\ request' = request /\ job'[t] = request
  BY DEF Fetch, Goto, IndInv, TypeOK
<1>2. Active(t) /\ "fetch" \notin HandlerPC \cup ShutdownPC
  BY <1>1 DEF Active, HandlerPC, WaitPC, TracePC, ShutdownPC
<1>3. CASE request = NoRequest
  <2>1. HandlerOf(request) = "poll" /\ "poll" \in TracerPC \ (HandlerPC \cup ShutdownPC)
    BY <1>3 DEF HandlerOf, NoRequest, DiscardRequests, TraceRequests, TracerPC, HandlerPC, WaitPC,
                TracePC, ShutdownPC
  <2>. QED
    BY <1>1, <1>2, <2>1, UnseenMove
<1>4. CASE request # NoRequest
  <2>1. HandlerOf(request) \in (HandlerPC \cap TracerPC) \ ShutdownPC
    <3>1. request \in Requests
      BY <1>4 DEF IndInv, TypeOK
    <3>. QED
      BY <1>4, <3>1 DEF HandlerOf, Requests, DiscardRequests, TraceRequests, NoRequest, TracerPC,
                        HandlerPC, WaitPC, TracePC, ShutdownPC
  <2>2. HandlerOf(request) \notin {"gone", "delete_sections"}
    BY <2>1 DEF HandlerPC, WaitPC, TracePC
  <2>. QED
    BY <1>1, <1>2, <1>4, <2>1, <2>2, SeenMove DEF Service!Take
<1>. QED
  BY <1>3, <1>4

\* CompleteRequest completes the request that is served.
LEMMA CompletionSeen ==
  ASSUME IndInv, IndInv', NEW t \in Tracers, CompleteRequest(t)
  PROVE  Service!Complete
<1>1. /\ pc[t] = "complete" /\ pc' = [pc EXCEPT ![t] = "processed"] /\ request' = NoRequest
  BY DEF CompleteRequest, Goto
<1>2. /\ Active(t) /\ "complete" \in HandlerPC \ ShutdownPC
      /\ "processed" \in TracerPC \ (HandlerPC \cup ShutdownPC)
  BY <1>1 DEF Active, HandlerPC, WaitPC, TracePC, TracerPC, ShutdownPC
<1>. QED
  BY <1>1, <1>2, SeenMove DEF Service!Complete

\* Setting STATE_SHUTDOWN brings the session down: nobody is attaching then.
LEMMA ShutdownSeen ==
  ASSUME IndInv, IndInv', NEW t \in Tracers, Shutdown(t)
  PROVE  Service!Stopped \/ UNCHANGED Service!vars
<1>. USE DEF ShutdownPC, HandlerPC, WaitPC, TracePC, TracerPC, Active
<1>1. ASSUME NEW from \in ShutdownPC, NEW to \in ShutdownPC,
             Goto(t, from, to), request' = request, job' = job
      PROVE  UNCHANGED Service!vars
  BY <1>1, UnseenMove DEF Goto
<1>2. CASE RestoreDMA(t) \/ DestroyAux(t) \/ DestroyPGRAPH(t)
  BY <1>1, <1>2 DEF RestoreDMA, DestroyAux, DestroyPGRAPH, DestroyBuffer
<1>3. CASE Enter(t, "shutdown_set", "delete_sections", "SHUTDOWN")
  <2>1. /\ pc[t] = "shutdown_set" /\ pc' = [pc EXCEPT ![t] = "delete_sections"]
        /\ request' = request
    BY <1>3 DEF Enter, Goto
  <2>2. Active(t)
    BY <2>1
  <2>3. Phase = "stopping" /\ Serving = NoRequest
    BY <2>1, <2>2, TracerSeen DEF ViewOfTracer
  <2>4. \A u \in Tracers : Active(u) => u = t
    BY <2>2 DEF IndInv, SessionInv, OneTracer
  <2>5. pc[Cmd] \in NotAttaching
    BY <2>1, <2>2, <2>4, AttachSeesNoTracer DEF NoTracer
  <2>6. NoTracer' /\ pc'[Cmd] = pc[Cmd]
    BY <2>1, <2>4, ThreadsAssumption DEF NoTracer, IndInv, TypeOK, Threads
  <2>. QED
    BY <2>1, <2>3, <2>5, <2>6, ViewAfter DEF ViewOfNone, Service!Stopped
<1>4. CASE Look(t, "delete_sections", "gone")
  <2>1. /\ pc[t] = "delete_sections" /\ pc' = [pc EXCEPT ![t] = "gone"]
        /\ request' = request /\ job' = job
    BY <1>4 DEF Look, Goto
  <2>2. pc'[t] = "gone" /\ \A th \in Threads : th # t => pc'[th] = pc[th]
    BY <2>1, ThreadsAssumption DEF IndInv, TypeOK, Threads
  <2>. QED
    BY <2>1, <2>2, Unseen, ThreadsAssumption DEF Threads
<1>. QED
  BY <1>2, <1>3, <1>4 DEF Shutdown

\* What the service calls a step of a tracer.
TracerView == \/ Service!Take \/ Service!Complete \/ Service!Abandon
              \/ Service!Stop \/ Service!Stopped \/ UNCHANGED Service!vars

LEMMA TracerSteps ==
  ASSUME IndInv, IndInv', NEW t \in Tracers, TracerStep(t)
  PROVE  TracerView
<1>. USE DEF TracerView, ShutdownPC, HandlerPC, WaitPC, TracePC, TracerPC
<1>1. CASE NotifyStateChanged(t)
  BY <1>1, Unseen DEF NotifyStateChanged, Active
<1>2. CASE Start(t)
  BY <1>2, StepUnseen, StepStops DEF Start, TracerState, Running
<1>3. CASE Poll(t)
  BY <1>3, StepUnseen, StepStops DEF Poll
<1>4. CASE Fetch(t)
  BY <1>4, FetchSeen
<1>5. ASSUME NEW from \in HandlerPC, NEW to \in HandlerPC \cup {"processed"},
             \/ AlreadyThere(t, from) /\ to = "complete"
             \/ SaveDMAAddresses(t, from, to)
      PROVE  TracerView
  <2>1. /\ pc[t] = from /\ pc' = [pc EXCEPT ![t] = to] /\ request' = request /\ job' = job
    BY <1>5 DEF AlreadyThere, SaveDMAAddresses, Goto
  <2>2. CASE to = "processed"
    BY <2>1, <2>2, StepAbandons
  <2>3. CASE to # "processed"
    BY <2>1, <2>3, UnseenMove DEF Active
  <2>. QED
    BY <2>2, <2>3
<1>6. CASE WaitEntry(t)
  BY <1>5, <1>6, StepUnseen DEF WaitEntry, TracerState, Running
<1>7. CASE WaitLoop(t)
  BY <1>5, <1>7, StepUnseen DEF WaitLoop, TracerState, Running
<1>8. ASSUME NEW from \in HandlerPC,
             Look(t, from, "processed") \/ \E s \in TracerState : Enter(t, from, "processed", s)
      PROVE  TracerView
  BY <1>8, StepAbandons DEF Look, Enter, Goto
<1>9. CASE Discard(t)
  BY <1>5, <1>8, <1>9, StepUnseen DEF Discard, TracerState, Down, Fatal
<1>10. ASSUME NEW from \in HandlerPC, NEW to \in HandlerPC, NEW s,
              Look(t, from, to) \/ Enter(t, from, to, s)
       PROVE  TracerView
  BY <1>10, UnseenMove DEF Look, Enter, Goto, Active
<1>11. CASE TraceEntry(t) \/ TraceLoop(t)
  BY <1>8, <1>10, <1>11 DEF TraceEntry, TraceLoop
<1>12. CASE CompleteRequest(t)
  BY <1>12, CompletionSeen
<1>13. CASE RequestProcessed(t)
  <2>1. pc[t] = "processed" /\ pc' = [pc EXCEPT ![t] = "poll"] /\ request' = request
    BY <1>13 DEF RequestProcessed, Goto
  <2>. QED
    BY <2>1, UnseenMove DEF Active
<1>14. CASE Shutdown(t)
  BY <1>14, ShutdownSeen
<1>. QED
  BY <1>1, <1>2, <1>3, <1>4, <1>6, <1>7, <1>9, <1>11, <1>12, <1>13, <1>14 DEF TracerStep

-----------------------------------------------------------------------------
(* The steps of the command thread.                                            *)

\* What the service calls a step of the command thread.
CommandView == \/ Service!BeginAttach \/ Service!ForgetRequest \/ Service!AttachFails
               \/ Service!Attached \/ (\E r \in Requests : Service!Accept(r))
               \/ UNCHANGED Service!vars

\* The command thread goes on, and leaves the tracers and the request alone.
LEMMA CommandMove ==
  ASSUME IndInv, IndInv', NEW from \in CommandPC, NEW to \in CommandPC,
         Goto(Cmd, from, to), request' = request, job' = job
  PROVE  /\ NoTracer => NoTracer' /\ Serving = NoRequest /\ Serving' = NoRequest
         /\ NoTracer => Phase = IF from \in NotAttaching THEN "down" ELSE "starting"
         /\ NoTracer => Phase' = IF to \in NotAttaching THEN "down" ELSE "starting"
         /\ ~NoTracer \/ (from \in NotAttaching <=> to \in NotAttaching) => UNCHANGED Service!vars
<1>1. pc[Cmd] = from /\ pc'[Cmd] = to /\ \A t \in Tracers : pc'[t] = pc[t]
  BY ThreadsAssumption DEF Goto, IndInv, TypeOK, Threads
<1>2. \A t \in Tracers : Active(t)' = Active(t)
  BY <1>1 DEF Active
<1>3. NoTracer => NoTracer'
  BY <1>2 DEF NoTracer
<1>4. ViewOfNone /\ ViewOfNone'
  BY NoneSeen, ViewAfter
<1>5. ~NoTracer \/ (from \in NotAttaching <=> to \in NotAttaching) => UNCHANGED Service!vars
  BY <1>1, <1>2, Unseen
<1>. QED
  BY <1>1, <1>3, <1>4, <1>5 DEF ViewOfNone

\* Making the thread brings the session up.
LEMMA ThreadSeen ==
  ASSUME IndInv, IndInv', NEW t \in Tracers, AttachCreateThread(t)
  PROVE  Service!Attached
<1>1. /\ pc[Cmd] = "attach_thread" /\ pc'[t] = "start" /\ request' = request
  BY ThreadsAssumption DEF AttachCreateThread, IndInv, TypeOK, Threads
<1>2. NoTracer
  BY <1>1, AttachSeesNoTracer DEF NotAttaching
<1>3. Phase = "starting" /\ Serving = NoRequest
  BY <1>1, <1>2, NoneSeen DEF ViewOfNone, NotAttaching
<1>4. Active(t)'
  BY <1>1 DEF Active
<1>5. Phase' = "up" /\ Serving' = NoRequest
  BY <1>1, <1>4, ViewAfter DEF ViewOfTracer, ShutdownPC, HandlerPC, WaitPC, TracePC
<1>. QED
  BY <1>1, <1>3, <1>5 DEF Service!Attached

LEMMA CommandSteps ==
  ASSUME Patient, IndInv, IndInv', ClientStep \/ CommandStep
  PROVE  CommandView
<1>. USE DEF CommandView, CommandPC, NotAttaching
<1>1. CASE AttachBegin
  <2>1. NoTracer
    BY <1>1 DEF AttachBegin, IndInv, SessionInv
  <2>2. Goto(Cmd, "idle", "attach_set") /\ request' = request /\ job' = job
    BY <1>1 DEF AttachBegin, Look
  <2>. QED
    BY <2>1, <2>2, CommandMove DEF Service!BeginAttach
<1>2. CASE DetachBegin
  BY <1>2, CommandMove DEF DetachBegin, Look
<1>3. ASSUME NEW r \in Requests, SetRequest(r) PROVE CommandView
  <2>1. /\ pc' = pc /\ job' = job /\ request' = r /\ request \in {NoRequest, r}
    BY <1>3 DEF SetRequest, Goto, IndInv, TypeOK
  <2>2. Phase' = Phase /\ Serving' = Serving
    BY <2>1 DEF Phase, Serving, Active
  <2>. QED
    BY <2>1, <2>2 DEF Service!Accept, Service!vars
<1>4. CASE NotifyStateChanged(Cmd)
  BY <1>4, Unseen DEF NotifyStateChanged, Active
<1>5. CASE AttachSetState
  BY <1>5, CommandMove DEF AttachSetState, Enter
<1>6. CASE AttachResetRequest
  <2>1. /\ pc[Cmd] = "attach_reset" /\ pc' = [pc EXCEPT ![Cmd] = "attach_aux"]
        /\ request' = NoRequest
    BY <1>6 DEF AttachResetRequest, Goto
  <2>2. NoTracer
    BY <2>1, AttachSeesNoTracer
  <2>3. pc'[Cmd] = "attach_aux" /\ \A t \in Tracers : pc'[t] = pc[t]
    BY <2>1, ThreadsAssumption DEF IndInv, TypeOK, Threads
  <2>4. NoTracer'
    BY <2>2, <2>3 DEF NoTracer, Active
  <2>. QED
    BY <2>1, <2>2, <2>3, <2>4, NoneSeen, ViewAfter DEF ViewOfNone, Service!ForgetRequest
<1>7. ASSUME NEW from \in {"attach_aux", "attach_pgraph", "attach_undo"},
             Goto(Cmd, from, "idle"), request' = request, job' = job
      PROVE  CommandView
  <2>1. NoTracer
    BY <1>7, AttachSeesNoTracer DEF Goto
  <2>. QED
    BY <1>7, <2>1, CommandMove DEF Service!AttachFails
<1>8. CASE AttachAuxBuffer
  BY <1>7, <1>8, CommandMove DEF AttachAuxBuffer
<1>9. CASE AttachPGRAPHBuffer
  BY <1>7, <1>9, CommandMove DEF AttachPGRAPHBuffer
<1>10. ASSUME NEW t \in Tracers, AttachCreateThread(t) PROVE CommandView
  BY <1>10, ThreadSeen
<1>11. CASE AttachThreadFailed
  BY <1>11, CommandMove DEF AttachThreadFailed, Enter
<1>12. CASE AttachUndo
  BY <1>7, <1>12 DEF AttachUndo
<1>13. CASE AttachDone
  <2>1. Goto(Cmd, "attach_done", "idle") /\ request' = request /\ job' = job
    BY <1>13 DEF AttachDone, Enter
  <2>2. ~NoTracer
    BY <2>1, AttachSeesNoTracer DEF Goto, NoTracer, Active
  <2>. QED
    BY <2>1, <2>2, CommandMove
<1>14. CASE DetachSetState
  BY <1>14, CommandMove DEF DetachSetState, Enter
<1>. QED
  BY <1>1, <1>2, <1>3, <1>4, <1>5, <1>6, <1>8, <1>9, <1>10, <1>11, <1>12, <1>13, <1>14
     DEF ClientStep, CommandStep

-----------------------------------------------------------------------------
\* The threads implement the service: no interleaving of the command thread and a tracer
\* shows the debugger two sessions at once, a request replaced while it is served, or one
\* served twice.
THEOREM ThreadsImplementService == ASSUME Patient PROVE Spec => Service!Spec
<1>1. Init => Service!Init
  <2>. SUFFICES ASSUME Init PROVE Service!Init
    OBVIOUS
  <2>1. /\ pc[Cmd] = "idle" /\ \A t \in Tracers : pc[t] = "gone"
        /\ request = NoRequest
    BY ThreadsAssumption DEF Init, Threads
  <2>2. \A t \in Tracers : ~Active(t) /\ pc[t] \notin HandlerPC
    BY <2>1 DEF Active, HandlerPC, WaitPC, TracePC
  <2>. QED
    BY <2>1, <2>2 DEF Phase, Serving, Service!Init
<1>2. IndInv /\ IndInv' /\ [Next]_vars => [Service!Next]_(Service!vars)
  <2>. SUFFICES ASSUME IndInv, IndInv', [Next]_vars PROVE [Service!Next]_(Service!vars)
    OBVIOUS
  <2>1. CASE ClientStep \/ CommandStep
    BY <2>1, CommandSteps DEF CommandView, Service!Next
  <2>2. ASSUME NEW t \in Tracers, TracerStep(t)
        PROVE  [Service!Next]_(Service!vars)
    BY <2>2, TracerSteps DEF TracerView, Service!Next
  <2>3. CASE UNCHANGED vars
    BY <2>3, Unseen DEF vars, Active
  <2>. QED
    BY <2>1, <2>2, <2>3 DEF Next
<1>. QED
  BY <1>1, <1>2, Inductive, PTL DEF Spec, Service!Spec
=============================================================================
