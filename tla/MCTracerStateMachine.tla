------------------------ MODULE MCTracerStateMachine ------------------------
(* The tracer's life cycle on a small instance: two thread identities, so that *)
(* the tracer of a finished session may still be on its way out when the next  *)
(* one starts, and room for the two buffers of one session, so that a leak     *)
(* keeps the next session from starting.                                       *)
EXTENDS TracerStateMachine, TLC

\* Sound for the safety properties, which name no thread and no buffer.
Symmetry == Permutations(Tracers) \cup Permutations(Blocks)
=============================================================================
