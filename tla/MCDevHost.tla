------------------------------ MODULE MCDevHost ------------------------------
(* The development host with one tracer thread, which is all it ever creates,  *)
(* and room for the two buffers of its session.                                *)
EXTENDS DevHost
=============================================================================
