--------------------------- MODULE TracerService ---------------------------
(* What the tracer promises the debugger, without threads, locks or states:    *)
(* sessions follow one another, a session serves one request at a time, and a  *)
(* request that is being served is neither replaced nor taken twice.           *)
CONSTANTS Requests, NoRequest

VARIABLES
  phase,    \* of the session: down, starting, up or stopping
  request,  \* the request that is accepted and not yet completed
  serving   \* the request the session is working on

vars == <<phase, request, serving>>

Init == phase = "down" /\ request = NoRequest /\ serving = NoRequest

BeginAttach == phase = "down" /\ phase' = "starting" /\ UNCHANGED <<request, serving>>

\* An attach forgets what was requested before it, never what is being served.
ForgetRequest ==
  /\ phase = "starting" /\ serving = NoRequest
  /\ request' = NoRequest
  /\ UNCHANGED <<phase, serving>>

AttachFails == phase = "starting" /\ phase' = "down" /\ UNCHANGED <<request, serving>>

Attached == phase = "starting" /\ phase' = "up" /\ UNCHANGED <<request, serving>>

\* Requests are accepted in every phase, one at a time.
Accept(r) ==
  /\ request = NoRequest
  /\ request' = r
  /\ UNCHANGED <<phase, serving>>

Take ==
  /\ phase = "up" /\ serving = NoRequest /\ request # NoRequest
  /\ serving' = request
  /\ UNCHANGED <<phase, request>>

Complete ==
  /\ phase = "up" /\ serving # NoRequest
  /\ request' = NoRequest /\ serving' = NoRequest
  /\ UNCHANGED phase

\* A session that is shutting down or failed may leave its request pending.
Abandon ==
  /\ phase = "up" /\ serving # NoRequest
  /\ serving' = NoRequest
  /\ UNCHANGED <<phase, request>>

Stop == phase = "up" /\ serving = NoRequest /\ phase' = "stopping"
                     /\ UNCHANGED <<request, serving>>

Stopped == phase = "stopping" /\ phase' = "down" /\ UNCHANGED <<request, serving>>

Next == \/ BeginAttach \/ ForgetRequest \/ AttachFails \/ Attached
        \/ (\E r \in Requests : Accept(r))
        \/ Take \/ Complete \/ Abandon \/ Stop \/ Stopped

Spec == Init /\ [][Next]_vars

\* What was requested of a session that is up is taken or the session stops, and a
\* session that stops comes down.
FairSpec == /\ Spec
            /\ WF_vars(request # NoRequest /\ (Take \/ Stop))
            /\ WF_vars(Stopped)
=============================================================================
