------------------------- MODULE MCPushBufferTracer -------------------------
(* A ring of two frames: one that an XDK title ends, with an increment and a   *)
(* stall, with a jump in it and a method without parameters behind it, and one *)
(* that calls a subroutine after its increment; the game may have written any  *)
(* part of it.  And a ring of a single subroutine call.                        *)
EXTENDS PushBufferTracer

Method(kind, n) == <<[op |-> "method", kind |-> kind, count |-> n]>> \o
                   [i \in 1..n |-> [op |-> "data"]]
Jump(to)   == <<[op |-> "jump", to |-> to]>>
CallTo(to) == <<[op |-> "call", to |-> to]>>
Return     == <<[op |-> "return"]>>

MCProgram  == Method("draw", 1) \o Method("plain", 2) \o Jump(7) \o Method("flip_inc", 1)
              \o Method("flip_stall", 1) \o Method("plain", 0) \o Method("clear", 1)
              \o Method("flip_inc", 1) \o CallTo(18) \o Jump(1) \o Return
MCCommands == {1, 3, 6, 7, 9, 11, 12, 14, 16, 17, 18}
MCPuts     == <<1, 3, 9, 14, 17>>

MCSubProgram == Method("plain", 1) \o CallTo(5) \o Jump(1) \o Method("plain", 1) \o Return
MCSubCommands == {1, 3, 4, 5, 7}
MCSubPuts     == <<1, 3, 4>>

ASSUME MCRing == Ring
=============================================================================
