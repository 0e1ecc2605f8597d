------------------------- MODULE TracerStateMachine -------------------------
(* The life of the tracer: src/src/tracelib/tracer_state_machine.c, as it is   *)
(* driven by the XBDM commands of src/src/cmd_*.c.                             *)
(*                                                                             *)
(* Two kinds of threads share one static TracerStateMachine: the XBDM command  *)
(* thread Cmd, which runs one command handler at a time, and the tracer thread *)
(* that TracerCreate starts.  A thread is a program counter, and a step is one *)
(* critical section, one unlocked access to a shared field or one call that    *)
(* the other thread can be interleaved with.  SetState is two steps: the       *)
(* assignment under the lock, then the notification outside it.                *)
(*                                                                             *)
(* What the hardware and the push buffer do inside the two working loops is    *)
(* abstracted to the outcome of an iteration: once more, done or failed.       *)
EXTENDS FiniteSets

CONSTANTS
  Cmd,      \* the XBDM command thread
  Tracers,  \* identities for threads made by CreateThread: bounds those alive
  Blocks,   \* circular buffers the pool has room for: bounds those alive
  Null,     \* the NULL buffer
  Patient   \* TRUE: the client attaches only before the first session or
            \* once the previous one has reached STATE_SHUTDOWN

ASSUME ThreadsAssumption == Cmd \notin Tracers
ASSUME NullAssumption    == Null \notin Blocks
ASSUME PatientAssumption == Patient \in BOOLEAN

Threads == Tracers \cup {Cmd}

-----------------------------------------------------------------------------
(* TracerState, grouped the way the code compares it with numbers.             *)

Fatal == {"FATAL_PERMANENT_STALL", "FATAL_NOT_IN_NEW_FRAME_STATE",
          "FATAL_NOT_IN_STABLE_STATE", "FATAL_DISCARDING_FAILED",
          "FATAL_PROCESS_PUSH_BUFFER_COMMAND_FAILED"}

\* state > STATE_INITIALIZING
Running == {"INITIALIZED", "IDLE", "IDLE_STABLE_PUSH_BUFFER", "IDLE_NEW_FRAME",
            "WAITING_FOR_STABLE_PUSH_BUFFER", "DISCARDING_UNTIL_FLIP",
            "TRACING_UNTIL_FLIP"}

\* state < STATE_INITIALIZING
Down == Fatal \cup {"SHUTDOWN_REQUESTED", "SHUTDOWN", "UNINITIALIZED"}

TracerState == Running \cup Down \cup {"INITIALIZING"}

\* What an iteration of the working loop can fail with.
LoopFailures == {"FATAL_PERMANENT_STALL", "FATAL_DISCARDING_FAILED",
                 "FATAL_PROCESS_PUSH_BUFFER_COMMAND_FAILED"}

DiscardRequests == {"DISCARD_UNTIL_FRAME_START", "DISCARD_UNTIL_NEXT_FLIP"}
TraceRequests   == {"TRACE_UNTIL_FLIP", "TRACE_UNTIL_FLIP_FROM_ARBITRARY_STATE"}
Requests        == {"WAIT_FOR_STABLE_PUSH_BUFFER"} \cup DiscardRequests
                                                   \cup TraceRequests
NoRequest == "NONE"
NoNote    == "NO_NOTE"

VARIABLES
  state,      \* state_machine.state
  request,    \* state_machine.request
  dmaValid,   \* state_machine.dma_addresses_valid
  auxBuf,     \* state_machine.aux_buffer
  pgraphBuf,  \* state_machine.pgraph_buffer
  heap,       \* the circular buffers that are allocated
  pc,         \* where each thread is
  job,        \* the request a tracer thread fetched and is working on
  note,       \* the state a thread has set and not yet notified
  seen        \* the state the debugger was last notified of

vars    == <<state, request, dmaValid, auxBuf, pgraphBuf, heap, pc, job, note, seen>>
buffers == <<auxBuf, pgraphBuf, heap>>

Init ==
  /\ state = "UNINITIALIZED"
  /\ request = NoRequest
  /\ dmaValid = FALSE
  /\ auxBuf = Null /\ pgraphBuf = Null /\ heap = {}
  /\ pc = [th \in Threads |-> IF th = Cmd THEN "idle" ELSE "gone"]
  /\ job = [t \in Tracers |-> NoRequest]
  /\ note = [th \in Threads |-> NoNote]
  /\ seen = "UNINITIALIZED"

-----------------------------------------------------------------------------
(* Steps of a thread.                                                          *)

\* A thread that has nothing to notify moves on.
Goto(th, from, to) ==
  /\ pc[th] = from
  /\ note[th] = NoNote
  /\ pc' = [pc EXCEPT ![th] = to]

SetState(th, new_state) ==
  /\ state' = new_state
  /\ note' = IF state = new_state THEN note ELSE [note EXCEPT ![th] = new_state]

\* Mutant: a notification that nothing asked for.
NotifyAnything(th) ==
  /\ seen' = note[th]
  /\ note' = [note EXCEPT ![th] = NoNote]
  /\ UNCHANGED <<state, request, dmaValid, buffers, pc, job>>

NotifyStateChanged(th) ==
  /\ note[th] # NoNote
  /\ seen' = note[th]
  /\ note' = [note EXCEPT ![th] = NoNote]
  /\ UNCHANGED <<state, request, dmaValid, buffers, pc, job>>

\* A step that only looks at the shared state.
Look(th, from, to) ==
  /\ Goto(th, from, to)
  /\ UNCHANGED <<state, request, dmaValid, buffers, job, note, seen>>

\* A step that is a call of SetState.
Enter(th, from, to, new_state) ==
  /\ Goto(th, from, to)
  /\ SetState(th, new_state)
  /\ UNCHANGED <<request, dmaValid, buffers, job, seen>>

-----------------------------------------------------------------------------
(* TracerCreate.  Refusing an attach changes nothing and is not a step.        *)

AttachBegin ==
  /\ state \in Down
  /\ Patient => state \in {"UNINITIALIZED", "SHUTDOWN"}
  /\ Look(Cmd, "idle", "attach_set")

AttachSetState == Enter(Cmd, "attach_set", "attach_reset", "INITIALIZING")

AttachResetRequest ==
  /\ Goto(Cmd, "attach_reset", "attach_aux")
  /\ request' = NoRequest
  /\ UNCHANGED <<state, dmaValid, buffers, job, note, seen>>

\* The buffers are made by CBCreateEx, which may find no memory: the attach then
\* returns at once and the state stays INITIALIZING.
AttachAuxBuffer ==
  /\ \/ /\ Goto(Cmd, "attach_aux", "attach_pgraph")
        /\ \/ \E b \in Blocks \ heap : auxBuf' = b /\ heap' = heap \cup {b}
           \/ auxBuf' = Null /\ heap' = heap    \* no aux capture is enabled
     \/ /\ Goto(Cmd, "attach_aux", "idle")
        /\ auxBuf' = Null /\ heap' = heap
  /\ UNCHANGED <<state, request, dmaValid, pgraphBuf, job, note, seen>>

AttachPGRAPHBuffer ==
  /\ \/ /\ Goto(Cmd, "attach_pgraph", "attach_thread")
        /\ \E b \in Blocks \ heap : pgraphBuf' = b /\ heap' = heap \cup {b}
     \/ /\ Goto(Cmd, "attach_pgraph", "idle")
        /\ pgraphBuf' = Null /\ heap' = heap \ {auxBuf}
  /\ UNCHANGED <<state, request, dmaValid, auxBuf, job, note, seen>>

AttachCreateThread(t) ==
  /\ pc[Cmd] = "attach_thread" /\ note[Cmd] = NoNote
  /\ pc[t] = "gone"
  /\ pc' = [pc EXCEPT ![Cmd] = "attach_done", ![t] = "start"]
  /\ UNCHANGED <<state, request, dmaValid, buffers, job, note, seen>>

AttachThreadFailed == Enter(Cmd, "attach_thread", "attach_undo", "UNINITIALIZED")

\* Mutant: the failed attach keeps its pgraph buffer.
AttachUndoLeaks ==
  /\ Goto(Cmd, "attach_undo", "idle")
  /\ heap' = heap \ {auxBuf}
  /\ UNCHANGED <<state, request, dmaValid, auxBuf, pgraphBuf, job, note, seen>>

AttachUndo ==
  /\ Goto(Cmd, "attach_undo", "idle")
  /\ heap' = heap \ {auxBuf, pgraphBuf}
  /\ UNCHANGED <<state, request, dmaValid, auxBuf, pgraphBuf, job, note, seen>>

AttachDone == Enter(Cmd, "attach_done", "idle", "INITIALIZED")

\* TracerShutdown.  Only the command thread writes UNINITIALIZED, so its two
\* reads of the state are one step; the assignment is another.
DetachBegin ==
  /\ state \notin {"UNINITIALIZED", "SHUTDOWN"}
  /\ Look(Cmd, "idle", "detach_set")

\* Mutant: a detach that does not wait for the tracer to confirm.
DetachAtOnce == Enter(Cmd, "detach_set", "idle", "SHUTDOWN")

DetachSetState == Enter(Cmd, "detach_set", "idle", "SHUTDOWN_REQUESTED")

\* Mutant: a request replaces the one that is being served.
ReplaceRequest(r) ==
  /\ Goto(Cmd, "idle", "idle")
  /\ request' = r
  /\ UNCHANGED <<state, dmaValid, buffers, job, note, seen>>

\* TracerBegin*, TracerTraceCurrentFrame: SetRequest in one critical section,
\* whatever the state of the tracer.  A refusal is not a step.
SetRequest(r) ==
  /\ Goto(Cmd, "idle", "idle")
  /\ request \in {NoRequest, r}
  /\ request' = r
  /\ UNCHANGED <<state, dmaValid, buffers, job, note, seen>>

-----------------------------------------------------------------------------
(* TracerThreadMain.                                                           *)

\* Mutant: the thread waits for a state that a detach may have replaced already.
StartWaits(t) ==
  \/ state = "INITIALIZED" /\ Look(t, "start", "enter")
  \/ Enter(t, "enter", "poll", "IDLE")

Start(t) ==
  \/ state # "INITIALIZING" /\ Look(t, "start", "check")
  \/ state = "INITIALIZED"  /\ Look(t, "check", "enter")
  \/ state # "INITIALIZED"  /\ Look(t, "check", "restore")
  \/ Enter(t, "enter", "poll", "IDLE")

\* Mutant: fatal states do not end the thread.
PollThroughFatal(t) ==
  \/ state \in Down \ Fatal    /\ Look(t, "poll", "restore")
  \/ state \notin Down \ Fatal /\ Look(t, "poll", "fetch")

Poll(t) ==
  \/ state \in Down    /\ Look(t, "poll", "restore")
  \/ state \notin Down /\ Look(t, "poll", "fetch")

HandlerOf(r) == CASE r = NoRequest                     -> "poll"
                  [] r = "WAIT_FOR_STABLE_PUSH_BUFFER" -> "wait_entry"
                  [] r \in DiscardRequests             -> "discard_entry"
                  [] r \in TraceRequests               -> "trace_entry"

Fetch(t) ==
  /\ Goto(t, "fetch", HandlerOf(request))
  /\ job' = [job EXCEPT ![t] = request]
  /\ UNCHANGED <<state, request, dmaValid, buffers, note, seen>>

\* The handlers' common end.  CompleteRequest first, on the paths that call it.
CompleteRequest(t) ==
  /\ Goto(t, "complete", "processed")
  /\ request' = NoRequest
  /\ UNCHANGED <<state, dmaValid, buffers, job, note, seen>>

RequestProcessed(t) ==
  /\ Goto(t, "processed", "poll")
  /\ job' = [job EXCEPT ![t] = NoRequest]
  /\ UNCHANGED <<state, request, dmaValid, buffers, note, seen>>

\* NotifyStateChanged(current_state) when there is nothing to do.
AlreadyThere(t, from) ==
  /\ Goto(t, from, "complete")
  /\ note' = [note EXCEPT ![t] = state]
  /\ UNCHANGED <<state, request, dmaValid, buffers, job, seen>>

-----------------------------------------------------------------------------
(* WaitForStablePushBufferState.                                               *)

SaveDMAAddresses(t, from, to) ==
  /\ Goto(t, from, to)
  /\ dmaValid' = TRUE
  /\ UNCHANGED <<state, request, buffers, job, note, seen>>

WaitEntry(t) ==
  \/ /\ state \in {"IDLE_STABLE_PUSH_BUFFER", "IDLE_NEW_FRAME"}
     /\ AlreadyThere(t, "wait_entry")
  \/ /\ state \notin {"IDLE_STABLE_PUSH_BUFFER", "IDLE_NEW_FRAME"}
     /\ Look(t, "wait_entry", "wait_set")
  \/ Enter(t, "wait_set", "wait_loop", "WAITING_FOR_STABLE_PUSH_BUFFER")

WaitLoop(t) ==
  \/ /\ state = "WAITING_FOR_STABLE_PUSH_BUFFER"
     /\ Look(t, "wait_loop", "wait_body")
  \/ /\ state # "WAITING_FOR_STABLE_PUSH_BUFFER"
     /\ Look(t, "wait_loop", "wait_abort")
  \/ Look(t, "wait_body", "wait_loop")    \* one of the three continues
  \/ SaveDMAAddresses(t, "wait_body", "wait_done")
  \/ Enter(t, "wait_done", "complete", "IDLE_STABLE_PUSH_BUFFER")
  \/ SaveDMAAddresses(t, "wait_abort", "processed")

(* DiscardUntilFramebufferFlip.                                                *)

\* Mutant: discarding without saved addresses.
DiscardUnchecked(t) ==
  \/ /\ job[t] = "DISCARD_UNTIL_FRAME_START" /\ state = "IDLE_NEW_FRAME"
     /\ AlreadyThere(t, "discard_entry")
  \/ /\ job[t] = "DISCARD_UNTIL_FRAME_START" => state # "IDLE_NEW_FRAME"
     /\ Look(t, "discard_entry", "trace_entry")

Discard(t) ==
  \/ /\ job[t] = "DISCARD_UNTIL_FRAME_START" /\ state = "IDLE_NEW_FRAME"
     /\ AlreadyThere(t, "discard_entry")
  \/ /\ job[t] = "DISCARD_UNTIL_FRAME_START" => state # "IDLE_NEW_FRAME"
     /\ Look(t, "discard_entry", "discard_check")
  \/ dmaValid  /\ Look(t, "discard_check", "trace_entry")
  \/ ~dmaValid /\ Look(t, "discard_check", "discard_reject")
  \/ Enter(t, "discard_reject", "processed", "FATAL_NOT_IN_STABLE_STATE")

(* TraceUntilFramebufferFlip, for both kinds of request.                       *)

WorkingState(r) == IF r \in DiscardRequests THEN "DISCARDING_UNTIL_FLIP"
                                            ELSE "TRACING_UNTIL_FLIP"

TraceEntry(t) ==
  \/ /\ job[t] = "TRACE_UNTIL_FLIP" /\ state # "IDLE_NEW_FRAME"
     /\ Look(t, "trace_entry", "trace_reject")
  \/ /\ job[t] = "TRACE_UNTIL_FLIP" => state = "IDLE_NEW_FRAME"
     /\ Look(t, "trace_entry", "trace_set")
  \/ Enter(t, "trace_reject", "complete", "FATAL_NOT_IN_NEW_FRAME_STATE")
  \/ Enter(t, "trace_set", "trace_loop", WorkingState(job[t]))

\* Mutant: a failure that forgets to set its state.
TraceLoopSilent(t) ==
  \/ state = WorkingState(job[t]) /\ Look(t, "trace_loop", "trace_body")
  \/ state # WorkingState(job[t]) /\ Look(t, "trace_loop", "processed")
  \/ Look(t, "trace_body", "complete")

\* Mutant: the request is not completed when the loop ends.
TraceLoopUncompleted(t) ==
  \/ state = WorkingState(job[t]) /\ Look(t, "trace_loop", "trace_body")
  \/ state # WorkingState(job[t]) /\ Look(t, "trace_loop", "processed")
  \/ Look(t, "trace_body", "trace_loop")
  \/ \E s \in LoopFailures \cup {"IDLE_NEW_FRAME"} :
       Enter(t, "trace_body", "processed", s)

TraceLoop(t) ==
  \/ state = WorkingState(job[t]) /\ Look(t, "trace_loop", "trace_body")
  \/ state # WorkingState(job[t]) /\ Look(t, "trace_loop", "processed")
  \/ Look(t, "trace_body", "trace_loop")
  \/ \E s \in LoopFailures \cup {"IDLE_NEW_FRAME"} :
       Enter(t, "trace_body", "complete", s)

-----------------------------------------------------------------------------
(* Shutdown.                                                                   *)

\* The real DMA_PUT is written back and the pusher resumed.
RestoreDMA(t) ==
  /\ Goto(t, "restore", "free_aux")
  /\ dmaValid' = FALSE
  /\ UNCHANGED <<state, request, buffers, job, note, seen>>

DestroyBuffer(t, from, to, buf) ==
  /\ Goto(t, from, to)
  /\ heap' = heap \ {buf}
  /\ UNCHANGED <<state, request, dmaValid, auxBuf, pgraphBuf, job, note, seen>>

DestroyAux(t)    == DestroyBuffer(t, "free_aux", "free_pgraph", auxBuf)
DestroyPGRAPH(t) == DestroyBuffer(t, "free_pgraph", "shutdown_set", pgraphBuf)

\* The critical sections are deleted after the last notification.
Shutdown(t) ==
  \/ RestoreDMA(t)
  \/ DestroyAux(t)
  \/ DestroyPGRAPH(t)
  \/ Enter(t, "shutdown_set", "delete_sections", "SHUTDOWN")
  \/ Look(t, "delete_sections", "gone")

-----------------------------------------------------------------------------
\* What the debugger may ask for when the command thread is free.
ClientStep == AttachBegin \/ DetachBegin \/ \E r \in Requests : SetRequest(r)

\* The rest of a command handler.
CommandStep ==
  \/ NotifyStateChanged(Cmd)
  \/ AttachSetState \/ AttachResetRequest
  \/ AttachAuxBuffer \/ AttachPGRAPHBuffer
  \/ (\E t \in Tracers : AttachCreateThread(t))
  \/ AttachThreadFailed \/ AttachUndo \/ AttachDone
  \/ DetachSetState

TracerStep(t) ==
  \/ NotifyStateChanged(t)
  \/ Start(t) \/ Poll(t) \/ Fetch(t)
  \/ WaitEntry(t) \/ WaitLoop(t)
  \/ Discard(t) \/ TraceEntry(t) \/ TraceLoop(t)
  \/ CompleteRequest(t) \/ RequestProcessed(t)
  \/ Shutdown(t)

Next == ClientStep \/ CommandStep \/ \E t \in Tracers : TracerStep(t)

Spec == Init /\ [][Next]_vars

\* Every thread is scheduled; the debugger need not send anything.
Fairness == /\ WF_vars(CommandStep)
            /\ \A t \in Tracers : WF_vars(TracerStep(t))

FairSpec == Spec /\ Fairness

-----------------------------------------------------------------------------
CommandPC == {"idle", "attach_set", "attach_reset", "attach_aux", "attach_pgraph",
              "attach_thread", "attach_undo", "attach_done", "detach_set"}

\* Where a tracer works for the request it fetched.
WaitPC    == {"wait_loop", "wait_body", "wait_done"}
TracePC   == {"trace_loop", "trace_body"}
HandlerPC == {"wait_entry", "wait_set", "wait_abort", "discard_entry",
              "discard_check", "discard_reject", "trace_entry", "trace_reject",
              "trace_set", "complete"} \cup WaitPC \cup TracePC

ShutdownPC == {"restore", "free_aux", "free_pgraph", "shutdown_set"}
TracerPC   == {"gone", "start", "check", "enter", "poll", "fetch", "processed",
               "delete_sections"} \cup HandlerPC \cup ShutdownPC

\* Every variable stays in its type.
TypeOK ==
  /\ state \in TracerState
  /\ request \in Requests \cup {NoRequest}
  /\ dmaValid \in BOOLEAN
  /\ auxBuf \in Blocks \cup {Null} /\ pgraphBuf \in Blocks \cup {Null}
  /\ heap \in SUBSET Blocks
  /\ pc \in [Threads -> CommandPC \cup TracerPC]
  /\ pc[Cmd] \in CommandPC /\ \A t \in Tracers : pc[t] \in TracerPC
  /\ job \in [Tracers -> Requests \cup {NoRequest}]
  /\ note \in [Threads -> TracerState \cup {NoNote}]
  /\ seen \in TracerState

-----------------------------------------------------------------------------
(* Safety.                                                                     *)

\* A tracer that may still touch the hardware or the shared fields.
Active(t) == pc[t] \notin {"gone", "delete_sections"}

\* TracerCreate never leaves two tracer threads working on the one static state
\* machine and the one nv2a.
OneTracer == \A t, u \in Tracers : Active(t) /\ Active(u) => t = u

\* From the fetch of a request to its CompleteRequest the request field cannot be
\* changed by a command, so CompleteRequest ends the request that was served.
RequestStable == \A t \in Tracers : pc[t] \in HandlerPC => request = job[t]

\* A state that says the tracer is waiting, discarding or tracing is shown only
\* while a tracer is in the loop that answers to it, and for a request of that kind.
WorkingStateHasWorker ==
  /\ state = "WAITING_FOR_STABLE_PUSH_BUFFER" =>
       \E t \in Tracers : pc[t] \in WaitPC
  /\ state \in {"DISCARDING_UNTIL_FLIP", "TRACING_UNTIL_FLIP"} =>
       \E t \in Tracers : pc[t] \in TracePC /\ state = WorkingState(job[t])

\* The saved DMA addresses are valid whenever the state promises a stable push
\* buffer or commands are being discarded up to the saved push address.
StableHasAddresses ==
  state \in {"IDLE_STABLE_PUSH_BUFFER", "DISCARDING_UNTIL_FLIP"} => dmaValid

\* While the state says the tracer is up its buffers exist: read_pgraph, read_aux
\* and LogCommand never use one that CBDestroy has freed.
BuffersLive == state \in Running => pgraphBuf \in heap /\ auxBuf \in heap \cup {Null}

\* CBDestroy is never called on a buffer that is already destroyed, neither by
\* Shutdown nor by the undo of TracerCreate.
DestroyedOnce ==
  /\ \A t \in Tracers :
       /\ pc[t] = "free_aux"    => auxBuf \in heap \cup {Null}
       /\ pc[t] = "free_pgraph" => pgraphBuf \in heap \cup {Null}
  /\ pc[Cmd] = "attach_undo" => {auxBuf, pgraphBuf} \subseteq heap \cup {Null}

\* A finished session has given back everything: no buffer is left allocated and
\* no saved DMA address is left to be restored by the next one.
ReleasedWhenShutdown == state = "SHUTDOWN" => heap = {} /\ ~dmaValid

\* No attach, failed or not, loses the only pointer to an allocated buffer.
NoBufferLeak == heap \subseteq {auxBuf, pgraphBuf}

\* The life of the buffers over sessions, failed attaches and overlapping shutdowns:
\* there while the state says the tracer is up, destroyed once, given back and never
\* leaked.  Of a reader in a session that is already on its way out it says nothing.
BuffersManaged == BuffersLive /\ DestroyedOnce /\ ReleasedWhenShutdown /\ NoBufferLeak

\* A fatal state is left only for the shutdown: no handler that is still on its
\* way out turns it back into an idle or working state.
FatalIsFinal ==
  [][(state \in Fatal) => state' \in {state, "SHUTDOWN_REQUESTED", "SHUTDOWN"}]_vars

-----------------------------------------------------------------------------
(* Liveness, of FairSpec.                                                      *)

\* After a fatal error the tracer thread gives everything back and says so.
FatalLeadsToShutdown == (state \in Fatal) ~> (state = "SHUTDOWN")

\* A detach is honoured when it lands while the tracer's next access to the state
\* is a read of it: before its first poll, between polls and at the head of the
\* working loops.
ReadsStateNext == {"start", "check", "poll", "wait_loop", "trace_loop",
                   "complete", "processed"}
DetachHonoured ==
  \A t \in Tracers : (state = "SHUTDOWN_REQUESTED" /\ pc[t] \in ReadsStateNext)
                       ~> (state = "SHUTDOWN")

-----------------------------------------------------------------------------
(* Why the safety properties hold for a patient client: the parts of an         *)
(* inductive invariant.                                                         *)

NoTracer   == \A t \in Tracers : ~Active(t)
Up(t)      == Active(t) /\ pc[t] \notin ShutdownPC
Holding(t) == Active(t) /\ pc[t] \notin {"free_pgraph", "shutdown_set"}

\* Where the command thread is in TracerCreate, what the state is.
AttachInv ==
  /\ pc[Cmd] = "attach_set" => state \in {"UNINITIALIZED", "SHUTDOWN"}
  /\ pc[Cmd] \in {"attach_reset", "attach_aux", "attach_pgraph", "attach_thread"} =>
       state = "INITIALIZING" /\ NoTracer
  /\ pc[Cmd] = "attach_undo" => state = "UNINITIALIZED"
  /\ pc[Cmd] = "attach_done" =>
       state = "INITIALIZING" /\ \E t \in Tracers : pc[t] = "start"

\* Which states a tracer can be alive in, and where it can be in them.
SessionInv ==
  /\ OneTracer
  /\ state \in {"UNINITIALIZED", "SHUTDOWN"} => NoTracer
  /\ state \in Running => \E t \in Tracers : Up(t)
  /\ \A t \in Tracers :
       /\ pc[t] = "start" => state \in {"INITIALIZING", "INITIALIZED", "SHUTDOWN_REQUESTED"}
       /\ pc[t] = "check" => state \in {"INITIALIZED", "SHUTDOWN_REQUESTED"}
       /\ pc[t] \in ShutdownPC => state \in Down
       /\ state = "INITIALIZING" /\ Active(t) => pc[t] = "start" /\ pc[Cmd] = "attach_done"
       /\ state \in Fatal /\ Active(t) =>
            pc[t] \in {"complete", "processed", "poll"} \cup ShutdownPC

ServingInv ==
  \A t \in Tracers : pc[t] \in HandlerPC => request = job[t] /\ request # NoRequest

\* Who owns the buffers, from CBCreateEx to CBDestroy.
HeapInv ==
  /\ heap # {} => \/ pc[Cmd] \in {"attach_pgraph", "attach_thread", "attach_undo"}
                  \/ \E t \in Tracers : Active(t)
  /\ pc[Cmd] = "attach_pgraph" => heap = {auxBuf} \ {Null}
  /\ pc[Cmd] \in {"attach_thread", "attach_undo"} \/ (\E t \in Tracers : Holding(t)) =>
       /\ pgraphBuf \in heap /\ auxBuf # pgraphBuf
       /\ auxBuf \in heap \cup {Null} /\ heap \subseteq {auxBuf, pgraphBuf}
  /\ \A t \in Tracers : /\ pc[t] = "free_pgraph"  => heap = {pgraphBuf}
                        /\ pc[t] = "shutdown_set" => heap = {}

\* When the saved DMA addresses are valid.
AddressInv ==
  /\ StableHasAddresses
  /\ dmaValid => \E t \in Tracers : Active(t)
  /\ \A t \in Tracers :
       /\ pc[t] \in {"free_aux", "free_pgraph", "shutdown_set"} => ~dmaValid
       /\ pc[t] = "wait_done" => dmaValid
       /\ pc[t] \in {"trace_entry", "trace_set"} /\ job[t] \in DiscardRequests => dmaValid

IndInv == /\ TypeOK /\ AttachInv /\ SessionInv /\ ServingInv
          /\ HeapInv /\ AddressInv /\ WorkingStateHasWorker

-----------------------------------------------------------------------------
(* The promise to the debugger.                                                *)

Phase ==
  IF \E t \in Tracers : Active(t) /\ pc[t] \notin ShutdownPC THEN "up"
  ELSE IF \E t \in Tracers : Active(t) THEN "stopping"
  ELSE IF pc[Cmd] \in CommandPC \ {"idle", "detach_set"} THEN "starting"
  ELSE "down"

Serving == IF \E t \in Tracers : pc[t] \in HandlerPC
             THEN job[CHOOSE t \in Tracers : pc[t] \in HandlerPC]
             ELSE NoRequest

Service == INSTANCE TracerService WITH phase <- Phase, serving <- Serving

\* The threads implement the service: no interleaving of the command thread and a
\* tracer thread shows the debugger two sessions at once, a request replaced while
\* it is served, or one served twice; and under fair scheduling no session is left half
\* stopped and no request waiting in a session that stays up.
ImplementsFairService == Service!FairSpec

-----------------------------------------------------------------------------
(* What the documentation says and the code does not do.                       *)

\* cmd_detach.h: a detach exits the tracer.  A SetState the tracer was about to make
\* when the detach landed overwrites SHUTDOWN_REQUESTED.
DetachCompletes ==
  (state = "SHUTDOWN_REQUESTED" /\ \E t \in Tracers : Active(t))
    ~> (state = "SHUTDOWN")
=============================================================================
