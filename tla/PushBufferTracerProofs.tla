----------------------- MODULE PushBufferTracerProofs -----------------------
(* For every push buffer of whole commands, every size of CACHE1 and every     *)
(* bound: what the tracer thread, the GPU and the game do to one another.      *)
EXTENDS PushBufferTracer, TLAPS

Positioned == Commands \cup {0}

RunPlaces   == {"run_enter", "run_loop", "run_wait", "run_kick", "kicking", "run_exec",
                "run_drain"}
TracePlaces == {"trace_loop", "pre_callback", "post_callback", "parsed", "verify",
                "workaround"}
WaitPlaces  == {"wait_loop", "wait_idle", "wait_fill", "wait_drain", "wait_hide",
                "wait_resume", "wait_drain_again", "wait_pause", "wait_check"}
Tracing     == pc \in RunPlaces \cup TracePlaces

\* The callback that is due before or after the RunFIFO the tracer is in.
At(place) == pc = place \/ (pc \in RunPlaces /\ run.then = place)

-----------------------------------------------------------------------------
(* The push buffer.                                                            *)

\* What the words of a push buffer of whole commands are.
LEMMA Words ==
  /\ 0 \notin Commands /\ Commands \subseteq Nat /\ Addresses \subseteq Nat /\ 0 \notin Addresses
  /\ Commands \subseteq Addresses
  /\ Len(Program) \in Nat /\ Addresses = 1..Len(Program)
  /\ \A a \in Commands :
       /\ Program[a].op \in {"method", "jump", "call", "return", "unknown", "data"}
       /\ IsMethod(a) => /\ Program[a].count \in Nat /\ Program[a].kind \in Kinds
                         /\ Parse(a) = a + 1 + Program[a].count /\ Parse(a) \in Commands
                         /\ Parameters(a) \cap Commands = {}
       /\ Program[a].op \in {"jump", "call"} =>
            Program[a].to \in Commands /\ Parse(a) = Program[a].to
       /\ Program[a].op = "call" => a + 1 \in Commands
       /\ Program[a].op = "return" => Parse(a) = 0
       /\ Parse(a) \in Positioned
<1>1. /\ Len(Program) \in Nat /\ Addresses = 1..Len(Program)
      /\ Commands \subseteq Addresses
  BY ProgramAssumption DEF Addresses
<1>2. ASSUME NEW a \in Commands
      PROVE  Program[a] \in Methods \cup Branches \cup Others
  BY <1>1, <1>2, ProgramAssumption DEF Addresses
<1>3. ASSUME NEW a \in Commands
      PROVE  /\ Program[a].op \in {"method", "jump", "call", "return", "unknown", "data"}
             /\ IsMethod(a) => /\ Program[a].count \in Nat /\ Program[a].kind \in Kinds
                               /\ a + 1 + Program[a].count \in Commands
                               /\ Parameters(a) \cap Commands = {}
             /\ Program[a].op \in {"jump", "call"} => Program[a].to \in Commands
             /\ Program[a].op = "call" => a + 1 \in Commands
  <2>1. Program[a].op \in {"method", "jump", "call", "return", "unknown", "data"}
    BY <1>2 DEF Methods, Branches, Others
  <2>2. IsMethod(a) => Program[a].count \in Nat /\ Program[a].kind \in Kinds
    BY <1>2 DEF Methods, Branches, Others, IsMethod
  <2>. QED
    BY <2>1, <2>2, ProgramAssumption DEF IsMethod
<1>4. ASSUME NEW a \in Commands
      PROVE  /\ IsMethod(a) => Parse(a) = a + 1 + Program[a].count
             /\ Program[a].op \in {"jump", "call"} => Parse(a) = Program[a].to
             /\ Program[a].op = "return" => Parse(a) = 0
             /\ Parse(a) \in Positioned
  BY <1>3 DEF IsMethod, Parse, ParsePushBufferCommand, Positioned
<1>. QED
  BY <1>1, <1>3, <1>4

\* A command that is a method is followed by another one.
LEMMA MethodWords ==
  ASSUME NEW a \in Commands, IsMethod(a)
  PROVE  /\ Program[a].count \in Nat /\ Program[a].kind \in Kinds
         /\ Parse(a) = a + 1 + Program[a].count /\ Parse(a) \in Commands
         /\ Parse(a) > a /\ Parse(a) # 0
         /\ Parse(a) - a \in Nat /\ Parse(a) - a < Len(Program)
BY Words

Stalls == [last : Positioned, sleeps : 0..MaxSleeps, workarounds : 0..MaxWorkarounds]

\* Counting the sleeps and the workarounds keeps them in their bounds.
LEMMA StallTypes ==
  ASSUME NEW s \in Stalls
  PROVE  /\ [s EXCEPT !.sleeps = 0] \in Stalls
         /\ s.sleeps # MaxSleeps => [s EXCEPT !.sleeps = @ + 1] \in Stalls
         /\ \A a \in Positioned : [s EXCEPT !.last = a, !.sleeps = 0] \in Stalls
         /\ s.workarounds < MaxWorkarounds =>
              [s EXCEPT !.sleeps = 0, !.workarounds = @ + 1] \in Stalls
<1>1. 0 \in 0..MaxSleeps /\ s.sleeps \in 0..MaxSleeps /\ s.workarounds \in 0..MaxWorkarounds
      /\ MaxSleeps \in Nat /\ MaxWorkarounds \in Nat
  BY BoundsAssumption DEF Stalls
<1>2. s.sleeps # MaxSleeps => s.sleeps + 1 \in 0..MaxSleeps
  BY <1>1
<1>3. s.workarounds < MaxWorkarounds => s.workarounds + 1 \in 0..MaxWorkarounds
  BY <1>1
<1>4. [s EXCEPT !.sleeps = 0] \in Stalls
  BY <1>1 DEF Stalls
<1>5. s.sleeps # MaxSleeps => [s EXCEPT !.sleeps = @ + 1] \in Stalls
  BY <1>2 DEF Stalls
<1>6. \A a \in Positioned : [s EXCEPT !.last = a, !.sleeps = 0] \in Stalls
  BY <1>1 DEF Stalls
<1>7. s.workarounds < MaxWorkarounds =>
        [s EXCEPT !.sleeps = 0, !.workarounds = @ + 1] \in Stalls
  BY <1>1, <1>3 DEF Stalls
<1>. QED
  BY <1>4, <1>5, <1>6, <1>7

\* What the start values are.
LEMMA Nothing ==
  /\ NoInfo \in [valid : BOOLEAN, kind : Kinds, from : Positioned, next : Positioned]
  /\ ~NoInfo.valid
  /\ NoStall \in Stalls
  /\ NoRun \in [to : Positioned, then : {"poll", "pre_callback", "post_callback", "verify"}]
  /\ Nowhere \in [at : Positioned, push : Positioned]
BY BoundsAssumption DEF NoInfo, NoStall, NoRun, Nowhere, Kinds, Positioned, Stalls

\* A queue of entries that one is put into, or taken from.
LEMMA Queues ==
  ASSUME NEW S, NEW q \in Seq(S), NEW e \in S
  PROVE  /\ Append(q, e) \in Seq(S) /\ Len(Append(q, e)) = Len(q) + 1
         /\ q # <<>> => Head(q) \in S /\ Tail(q) \in Seq(S) /\ Len(Tail(q)) = Len(q) - 1
OBVIOUS

-----------------------------------------------------------------------------
(* The invariant of all games: types, places and the bounds of the loop.       *)

\* The pusher comes to the start of a command when it has the parameters of this one.
PusherOK ==
  /\ get \in Addresses /\ left \in Nat /\ header \in Positioned /\ sub \in Positioned
  /\ get + left \in Commands
  /\ left > 0 => header \in Commands /\ IsMethod(header) /\ get \in Parameters(header)
                 /\ get + left = Parse(header)

Entries == [of : Commands, last : BOOLEAN]
CacheOK == /\ cache \in Seq(Entries) /\ Len(cache) <= CacheSize
           /\ leftover \in 0..Len(cache)

RegistersOK ==
  /\ put \in Positioned /\ pusher \in BOOLEAN /\ pgraph \in BOOLEAN
  /\ written \in DOMAIN Puts /\ late \in BOOLEAN /\ escaped \in BOOLEAN
  /\ realPush \in Positioned /\ target \in Positioned /\ valid \in BOOLEAN
  /\ realPull \in Addresses \cup {0}
  /\ looked \in [at : Positioned, push : Positioned]

TraceOK ==
  /\ pull \in Positioned /\ push \in Positioned /\ queued \in Nat
  /\ heap \in BOOLEAN /\ flip \in BOOLEAN
  /\ info \in [valid : BOOLEAN, kind : Kinds, from : Positioned, next : Positioned]
  /\ info.valid => info.from \in Commands
  /\ stall \in Stalls
  /\ run \in [to : Positioned, then : {"poll", "pre_callback", "post_callback", "verify"}]

HistoryOK ==
  {executed, passed, traced, logged} \subseteq Seq(Commands)

\* Which states go with which places of the tracer thread.
PlacesOK ==
  /\ pc \in {"poll", "shutdown", "resume", "gone"} \cup WaitPlaces \cup RunPlaces \cup TracePlaces
  /\ IF Tracing THEN working \in Working ELSE working = "NONE"
  /\ Tracing => Controlled /\ state \in {working, "SHUTDOWN_REQUESTED"}
  /\ pc \in WaitPlaces =>
       state \in {"WAITING_FOR_STABLE_PUSH_BUFFER", "SHUTDOWN_REQUESTED"} /\ ~valid /\ target = 0
  /\ pc = "poll" => state \in {"IDLE", "SHUTDOWN_REQUESTED"} \cup Stable \cup Fatal
  /\ state = "IDLE" => ~valid /\ target = 0
  /\ state \in Stable => Controlled
  /\ pc \in {"shutdown", "resume"} => state \in Fatal \cup {"SHUTDOWN_REQUESTED"}
  /\ pc \in {"resume", "gone"} => ~valid
  /\ pc = "gone" => state = "SHUTDOWN"

\* What the tracer has parsed, and where it runs the GPU to.
CommandOK ==
  /\ Tracing => pull \in Commands
  /\ At("pre_callback") \/ At("post_callback") =>
       info.valid /\ info.from = pull /\ IsMethod(pull) /\ info.next = Parse(pull)
  /\ pc \in RunPlaces =>
       /\ run.then \in {"pre_callback", "post_callback", "verify"}
       /\ run.to = IF run.then = "post_callback" THEN info.next ELSE pull
  /\ pc = "poll" /\ state \in Stable => realPull \in Commands
  /\ pc = "verify" /\ flip => realPull = pull /\ queued = 0

\* The queue is flushed when it has become too long, the heap and info do not outlive
\* an iteration.
IterationOK ==
  /\ working = "NONE" => queued = 0 /\ info = NoInfo /\ ~flip
  /\ queued < MaxQueueDepth + Len(Program)
  /\ Tracing /\ pc # "parsed" => queued < MaxQueueDepth
  /\ At("verify") /\ pc # "verify" => queued = 0
  /\ pc \in {"trace_loop", "workaround"} => info = NoInfo
  /\ heap => At("pre_callback") \/ At("post_callback") \/ At("verify") \/ pc = "parsed"

ThreadInv == /\ PusherOK /\ CacheOK /\ RegistersOK /\ TraceOK /\ HistoryOK
             /\ PlacesOK /\ CommandOK /\ IterationOK

-----------------------------------------------------------------------------
(* Every step keeps the invariant.                                             *)

\* The GPU and the game keep it.
LEMMA GPUPreserves ==
  ASSUME ThreadInv, PushWord \/ Execute \/ GameWrites
  PROVE  ThreadInv'
<1>. USE Words, Nothing, BoundsAssumption DEF ThreadInv, Goto, hardware, fifo, game,
         saved, trace, history, Tracing, At, RunPlaces, TracePlaces, WaitPlaces,
         Controlled, Working, Stable, Fatal, IsMethod, Positioned
<1>1. CASE PushWord
  <2>. USE <1>1 DEF PushWord, PusherOK
  <2>1. CacheOK'
    <3>1. CASE left > 0
      <4>. DEFINE e == [of |-> header, last |-> left = 1]
      <4>1. e \in Entries
        BY <3>1 DEF Entries
      <4>2. cache' = Append(cache, e) /\ Len(cache) < CacheSize
        BY <3>1
      <4>. HIDE DEF e
      <4>. QED
        BY <4>1, <4>2, Queues DEF CacheOK
    <3>2. CASE left = 0
      BY <3>2 DEF CacheOK
    <3>. QED
      BY <3>1, <3>2
  <2>2. PusherOK'
    <3>1. CASE left > 0
      <4>1. get' = get + 1 /\ left' = left - 1 /\ header' = header /\ sub' = sub
        BY <3>1
      <4>2. get' + left' = get + left /\ get' \in Addresses
        BY <3>1, <4>1
      <4>3. left' > 0 => get' \in Parameters(header)
        <5>1. header \in Commands /\ IsMethod(header) /\ Program[header].count \in Nat
              /\ Parse(header) = header + 1 + Program[header].count
          BY <3>1, MethodWords
        <5>2. get \in Nat /\ header \in Nat /\ get >= header + 1
              /\ get + left = header + 1 + Program[header].count
          <6>1. header \in Nat /\ left \in Nat /\ get \in Parameters(header)
                /\ get + left = Parse(header)
            BY <3>1, <5>1
          <6>. HIDE Words, Nothing, BoundsAssumption
          <6>. QED
            BY <5>1, <6>1 DEF Parameters
        <5>3. left \in Nat
          BY <3>1
        <5>. HIDE Words, Nothing, BoundsAssumption
        <5>. QED
          BY <4>1, <5>1, <5>2, <5>3 DEF Parameters
      <4>. QED
        BY <3>1, <4>1, <4>2, <4>3
    <3>2. CASE left = 0 /\ IsMethod(get)
      <4>1. get \in Commands /\ Program[get].count \in Nat
        BY <3>2
      <4>2. header' = get /\ left' = Program[get].count /\ get' = get + 1 /\ sub' = sub
        BY <3>2
      <4>3. get' + left' = Parse(get) /\ Parse(get) \in Commands
        BY <3>2, <4>1, <4>2
      <4>4. get' \in Addresses
        BY <4>1, <4>2, <4>3
      <4>5. left' > 0 => get' \in Parameters(header')
        BY <4>1, <4>2 DEF Parameters
      <4>. QED
        BY <3>2, <4>1, <4>2, <4>3, <4>4, <4>5
    <3>3. CASE left = 0 /\ ~IsMethod(get)
      <4>1. get \in Commands /\ left' = 0 /\ header' = header
        BY <3>3
      <4>2. get' \in Commands /\ sub' \in Positioned
        BY <3>3, <4>1
      <4>. QED
        BY <4>1, <4>2
    <3>. QED
      BY <3>1, <3>2, <3>3
  <2>3. RegistersOK' /\ HistoryOK' /\ TraceOK'
    BY DEF RegistersOK, HistoryOK, TraceOK
  <2>4. PlacesOK' /\ CommandOK' /\ IterationOK'
    BY <1>1 DEF PushWord, PlacesOK, CommandOK, RegistersOK, IterationOK, TraceOK, Stalls
  <2>. QED
    BY <2>1, <2>2, <2>3, <2>4
<1>2. CASE Execute
  <2>1. PusherOK' /\ RegistersOK'
    BY <1>2 DEF Execute, PusherOK, RegistersOK
  <2>2. CacheOK' /\ HistoryOK'
    <3>1. Head(cache) \in Entries /\ cache' \in Seq(Entries) /\ Len(cache') < CacheSize
      BY <1>2, Queues DEF Execute, CacheOK
    <3>2. executed' \in Seq(Commands)
      BY <1>2, <3>1, Queues DEF Execute, HistoryOK, Entries
    <3>3. leftover' \in 0..Len(cache')
      BY <1>2, Queues DEF Execute, CacheOK
    <3>. QED
      BY <1>2, <3>1, <3>2, <3>3 DEF Execute, CacheOK, HistoryOK
  <2>3. TraceOK'
    BY <1>2 DEF Execute, TraceOK, Stalls, RegistersOK, CommandOK, PlacesOK
  <2>4. PlacesOK' /\ CommandOK' /\ IterationOK'
    BY <1>2 DEF Execute, PlacesOK, CommandOK, RegistersOK, IterationOK, TraceOK, Stalls
  <2>. QED
    BY <2>1, <2>2, <2>3, <2>4
<1>3. CASE GameWrites
  <2>1. PusherOK' /\ CacheOK' /\ HistoryOK'
    BY <1>3 DEF GameWrites, PusherOK, CacheOK, HistoryOK
  <2>2. RegistersOK'
    <3>1. written + 1 \in DOMAIN Puts /\ Puts[written + 1] \in Commands
      BY <1>3, ProgramAssumption DEF GameWrites, RegistersOK
    <3>. QED
      BY <1>3, <3>1 DEF GameWrites, RegistersOK
  <2>3. TraceOK'
    BY <1>3 DEF GameWrites, TraceOK, Stalls, RegistersOK, CommandOK, PlacesOK
  <2>4. PlacesOK' /\ CommandOK' /\ IterationOK'
    BY <1>3 DEF GameWrites, PlacesOK, CommandOK, RegistersOK, IterationOK, TraceOK,
           Stalls
  <2>. QED
    BY <2>1, <2>2, <2>3, <2>4
<1>. QED
  BY <1>1, <1>2, <1>3

\* What the debugger asks for keeps it.
LEMMA ClientPreserves ==
  ASSUME ThreadInv, Detach \/ WaitBegins \/ (\E s \in Working : TraceBegins(s))
  PROVE  ThreadInv'
<1>. USE Words, Nothing, BoundsAssumption DEF ThreadInv, Goto, hardware, fifo, game,
         saved, trace, history, Tracing, At, RunPlaces, TracePlaces, WaitPlaces,
         Controlled, Working, Stable, Fatal, IsMethod, Positioned
<1>1. CASE Detach
  <2>1. PusherOK' /\ CacheOK' /\ RegistersOK' /\ HistoryOK'
    BY <1>1 DEF Detach, PusherOK, CacheOK, Entries, RegistersOK, TraceOK, Stalls,
           PlacesOK, CommandOK, HistoryOK
  <2>2. TraceOK'
    BY <1>1 DEF Detach, TraceOK, Stalls, RegistersOK, CommandOK, PlacesOK
  <2>3. PlacesOK' /\ CommandOK' /\ IterationOK'
    BY <1>1 DEF Detach, PlacesOK, CommandOK, RegistersOK, IterationOK, TraceOK, Stalls
  <2>. QED
    BY <2>1, <2>2, <2>3
<1>2. CASE WaitBegins
  BY <1>2 DEF WaitBegins, PusherOK, CacheOK, Entries, RegistersOK, TraceOK, Stalls,
         PlacesOK, CommandOK, HistoryOK, IterationOK
<1>3. ASSUME NEW s \in Working, TraceBegins(s)
      PROVE  ThreadInv'
  <2>1. PusherOK' /\ CacheOK' /\ RegistersOK' /\ HistoryOK'
    BY <1>3 DEF TraceBegins, Settled, PusherOK, CacheOK, Entries, RegistersOK, TraceOK,
           Stalls, PlacesOK, CommandOK, HistoryOK
  <2>2. TraceOK'
    BY <1>3 DEF TraceBegins, Settled, TraceOK, Stalls, RegistersOK, CommandOK, PlacesOK
  <2>3. PlacesOK' /\ CommandOK' /\ IterationOK'
    <3>1. PlacesOK'
      BY <1>3 DEF TraceBegins, Settled, PlacesOK, RegistersOK
    <3>2. CommandOK'
      BY <1>3 DEF TraceBegins, Settled, PlacesOK, CommandOK, RegistersOK, IterationOK
    <3>3. IterationOK'
      BY <1>3 DEF TraceBegins, Settled, PlacesOK, CommandOK, IterationOK, TraceOK,
             Stalls
    <3>. QED
      BY <3>1, <3>2, <3>3
  <2>. QED
    BY <2>1, <2>2, <2>3
<1>. QED
  BY <1>1, <1>2, <1>3

\* WaitForStablePushBufferState keeps it.
LEMMA WaitPreserves ==
  ASSUME ThreadInv, WaitDisables \/ WaitTimesOut \/ WaitFills \/ WaitDrains \/ WaitLooks
                    \/ WaitHides \/ WaitResumes \/ WaitSeesEmpty \/ WaitPauses
                    \/ WaitAgain \/ WaitSucceeds \/ WaitAborts
  PROVE  ThreadInv'
<1>. USE Words, Nothing, BoundsAssumption DEF ThreadInv, Goto, hardware, fifo, game,
         saved, trace, history, Tracing, At, RunPlaces, TracePlaces, WaitPlaces,
         Controlled, Working, Stable, Fatal, IsMethod, Positioned
<1>1. CASE WaitDisables
  <2>1. PusherOK' /\ CacheOK' /\ RegistersOK' /\ HistoryOK'
    <3>1. PusherOK'
      BY <1>1 DEF WaitDisables, Switch, SetFifo, PusherOK
    <3>2. CacheOK'
      BY <1>1 DEF WaitDisables, Switch, SetFifo, CacheOK, Entries
    <3>3. RegistersOK'
      BY <1>1 DEF WaitDisables, Switch, SetFifo, RegistersOK
    <3>4. HistoryOK'
      BY <1>1 DEF WaitDisables, Switch, SetFifo, HistoryOK
    <3>. QED
      BY <3>1, <3>2, <3>3, <3>4
  <2>2. TraceOK'
    BY <1>1 DEF WaitDisables, Switch, SetFifo, TraceOK, Stalls, RegistersOK, CommandOK,
           PlacesOK
  <2>3. PlacesOK' /\ CommandOK' /\ IterationOK'
    BY <1>1 DEF WaitDisables, Switch, SetFifo, PlacesOK, CommandOK, RegistersOK,
           IterationOK, TraceOK, Stalls
  <2>. QED
    BY <2>1, <2>2, <2>3
<1>2. CASE WaitTimesOut
  BY <1>2 DEF WaitTimesOut, Look, PusherOK, CacheOK, Entries, RegistersOK, TraceOK,
         Stalls, PlacesOK, CommandOK, HistoryOK, IterationOK
<1>3. CASE WaitFills
  BY <1>3 DEF WaitFills, Switch, SetFifo, PusherOK, CacheOK, Entries, RegistersOK,
         TraceOK, Stalls, PlacesOK, CommandOK, HistoryOK, IterationOK
<1>4. CASE WaitDrains
  <2>1. PusherOK' /\ CacheOK' /\ RegistersOK' /\ HistoryOK'
    <3>1. PusherOK'
      BY <1>4 DEF WaitDrains, Switch, SetFifo, PusherOK
    <3>2. CacheOK'
      BY <1>4 DEF WaitDrains, Switch, SetFifo, CacheOK, Entries
    <3>3. RegistersOK'
      BY <1>4 DEF WaitDrains, Switch, SetFifo, RegistersOK
    <3>4. HistoryOK'
      BY <1>4 DEF WaitDrains, Switch, SetFifo, HistoryOK
    <3>. QED
      BY <3>1, <3>2, <3>3, <3>4
  <2>2. TraceOK'
    BY <1>4 DEF WaitDrains, Switch, SetFifo, TraceOK, Stalls, RegistersOK, CommandOK,
           PlacesOK
  <2>3. PlacesOK' /\ CommandOK' /\ IterationOK'
    BY <1>4 DEF WaitDrains, Switch, SetFifo, PlacesOK, CommandOK, RegistersOK,
           IterationOK, TraceOK, Stalls
  <2>. QED
    BY <2>1, <2>2, <2>3
<1>5. CASE WaitLooks
  BY <1>5 DEF WaitLooks, PusherOK, CacheOK, Entries, RegistersOK, TraceOK, Stalls,
         PlacesOK, CommandOK, HistoryOK, IterationOK
<1>6. CASE WaitHides
  BY <1>6 DEF WaitHides, PusherOK, CacheOK, Entries, RegistersOK, TraceOK, Stalls,
         PlacesOK, CommandOK, HistoryOK, IterationOK
<1>7. CASE WaitResumes
  BY <1>7 DEF WaitResumes, Switch, SetFifo, PusherOK, CacheOK, Entries, RegistersOK,
         TraceOK, Stalls, PlacesOK, CommandOK, HistoryOK, IterationOK
<1>8. CASE WaitPauses
  <2>1. PusherOK' /\ CacheOK' /\ RegistersOK' /\ HistoryOK'
    <3>1. PusherOK'
      BY <1>8 DEF WaitPauses, Switch, SetFifo, PusherOK
    <3>2. CacheOK'
      BY <1>8 DEF WaitPauses, Switch, SetFifo, CacheOK, Entries
    <3>3. RegistersOK'
      BY <1>8 DEF WaitPauses, Switch, SetFifo, RegistersOK
    <3>4. HistoryOK'
      BY <1>8 DEF WaitPauses, Switch, SetFifo, HistoryOK
    <3>. QED
      BY <3>1, <3>2, <3>3, <3>4
  <2>2. TraceOK'
    BY <1>8 DEF WaitPauses, Switch, SetFifo, TraceOK, Stalls, RegistersOK, CommandOK,
           PlacesOK
  <2>3. PlacesOK' /\ CommandOK' /\ IterationOK'
    BY <1>8 DEF WaitPauses, Switch, SetFifo, PlacesOK, CommandOK, RegistersOK,
           IterationOK, TraceOK, Stalls
  <2>. QED
    BY <2>1, <2>2, <2>3
<1>9. CASE WaitAgain
  BY <1>9 DEF WaitAgain, Look, PusherOK, CacheOK, Entries, RegistersOK, TraceOK, Stalls,
         PlacesOK, CommandOK, HistoryOK, IterationOK
<1>10. CASE WaitSucceeds
  <2>1. PusherOK' /\ CacheOK' /\ HistoryOK'
    BY <1>10 DEF WaitSucceeds, SaveDMAAddresses, PusherOK, CacheOK, HistoryOK
  <2>2. looked.at \in Commands
    BY <1>10 DEF WaitSucceeds, PusherOK, RegistersOK
  <2>3. RegistersOK'
    BY <1>10, <2>2 DEF WaitSucceeds, SaveDMAAddresses, RegistersOK
  <2>4. TraceOK'
    BY <1>10 DEF WaitSucceeds, TraceOK
  <2>5. PlacesOK'
    BY <1>10, <2>2 DEF WaitSucceeds, SaveDMAAddresses, PlacesOK
  <2>6. CommandOK' /\ IterationOK'
    BY <1>10, <2>2 DEF WaitSucceeds, SaveDMAAddresses, PlacesOK, CommandOK, IterationOK
  <2>. QED
    BY <2>1, <2>2, <2>3, <2>4, <2>5, <2>6
<1>11. CASE WaitAborts
  <2>1. PusherOK' /\ CacheOK' /\ RegistersOK' /\ HistoryOK'
    <3>1. PusherOK'
      BY <1>11 DEF WaitAborts, SaveDMAAddresses, PusherOK
    <3>2. CacheOK'
      BY <1>11 DEF WaitAborts, SaveDMAAddresses, CacheOK, Entries
    <3>3. RegistersOK'
      BY <1>11 DEF WaitAborts, SaveDMAAddresses, RegistersOK
    <3>4. HistoryOK'
      BY <1>11 DEF WaitAborts, SaveDMAAddresses, HistoryOK
    <3>. QED
      BY <3>1, <3>2, <3>3, <3>4
  <2>2. TraceOK'
    BY <1>11 DEF WaitAborts, SaveDMAAddresses, TraceOK, Stalls, RegistersOK, CommandOK,
           PlacesOK
  <2>3. PlacesOK' /\ CommandOK' /\ IterationOK'
    BY <1>11 DEF WaitAborts, SaveDMAAddresses, PlacesOK, CommandOK, RegistersOK,
           IterationOK, TraceOK, Stalls
  <2>. QED
    BY <2>1, <2>2, <2>3
<1>12. CASE WaitSeesEmpty
  BY <1>12 DEF WaitSeesEmpty, Look, PusherOK, CacheOK, Entries, RegistersOK, TraceOK, Stalls,
         PlacesOK, CommandOK, HistoryOK, IterationOK
<1>. QED
  BY <1>1, <1>2, <1>3, <1>4, <1>5, <1>6, <1>7, <1>8, <1>9, <1>10, <1>11, <1>12

\* RunFIFO keeps it.
LEMMA RunPreserves ==
  ASSUME ThreadInv, RunEnters \/ RunDisables \/ RunHides \/ KickRefused \/ KickBegins \/
                    KickEnds \/ RunEnables \/ RunMoves \/ RunReturns
  PROVE  ThreadInv'
<1>. USE Words, Nothing, BoundsAssumption DEF ThreadInv, Goto, hardware, fifo, game,
         saved, trace, history, Tracing, At, RunPlaces, TracePlaces, WaitPlaces,
         Controlled, Working, Stable, Fatal, IsMethod, Positioned
<1>1. CASE RunEnters
  <2>1. PusherOK' /\ CacheOK' /\ RegistersOK' /\ HistoryOK'
    BY <1>1 DEF RunEnters, Exchange, PusherOK, CacheOK, Entries, RegistersOK, TraceOK,
           Stalls, PlacesOK, CommandOK, HistoryOK
  <2>2. TraceOK'
    BY <1>1 DEF RunEnters, Exchange, TraceOK, Stalls, RegistersOK, CommandOK, PlacesOK
  <2>3. PlacesOK' /\ CommandOK' /\ IterationOK'
    BY <1>1 DEF RunEnters, Exchange, PlacesOK, CommandOK, RegistersOK, IterationOK,
           TraceOK, Stalls
  <2>. QED
    BY <2>1, <2>2, <2>3
<1>2. CASE RunDisables
  <2>1. PusherOK' /\ CacheOK' /\ RegistersOK' /\ HistoryOK'
    <3>1. PusherOK'
      BY <1>2 DEF RunDisables, Switch, SetFifo, PusherOK
    <3>2. CacheOK'
      BY <1>2 DEF RunDisables, Switch, SetFifo, CacheOK, Entries
    <3>3. RegistersOK'
      BY <1>2 DEF RunDisables, Switch, SetFifo, RegistersOK
    <3>4. HistoryOK'
      BY <1>2 DEF RunDisables, Switch, SetFifo, HistoryOK
    <3>. QED
      BY <3>1, <3>2, <3>3, <3>4
  <2>2. TraceOK'
    BY <1>2 DEF RunDisables, Switch, SetFifo, TraceOK, Stalls, RegistersOK, CommandOK,
           PlacesOK
  <2>3. PlacesOK' /\ CommandOK' /\ IterationOK'
    BY <1>2 DEF RunDisables, Switch, SetFifo, PlacesOK, CommandOK, RegistersOK,
           IterationOK, TraceOK, Stalls
  <2>. QED
    BY <2>1, <2>2, <2>3
<1>3. CASE RunHides
  <2>1. PusherOK' /\ CacheOK' /\ RegistersOK' /\ HistoryOK'
    BY <1>3 DEF RunHides, Exchange, PusherOK, CacheOK, Entries, RegistersOK, TraceOK,
           Stalls, PlacesOK, CommandOK, HistoryOK
  <2>2. TraceOK'
    BY <1>3 DEF RunHides, Exchange, TraceOK, Stalls, RegistersOK, CommandOK, PlacesOK
  <2>3. PlacesOK' /\ CommandOK' /\ IterationOK'
    BY <1>3 DEF RunHides, Exchange, PlacesOK, CommandOK, RegistersOK, IterationOK,
           TraceOK, Stalls
  <2>. QED
    BY <2>1, <2>2, <2>3
<1>4. CASE KickRefused
  BY <1>4 DEF KickRefused, Look, PusherOK, CacheOK, Entries, RegistersOK, TraceOK,
         Stalls, PlacesOK, CommandOK, HistoryOK, IterationOK
<1>5. CASE KickBegins
  BY <1>5 DEF KickBegins, Switch, SetFifo, PusherOK, CacheOK, Entries, RegistersOK,
         TraceOK, Stalls, PlacesOK, CommandOK, HistoryOK, IterationOK
<1>6. CASE KickEnds
  <2>1. PusherOK' /\ CacheOK' /\ RegistersOK' /\ HistoryOK'
    <3>1. PusherOK'
      BY <1>6 DEF KickEnds, Switch, SetFifo, PusherOK
    <3>2. CacheOK'
      BY <1>6 DEF KickEnds, Switch, SetFifo, CacheOK, Entries
    <3>3. RegistersOK'
      BY <1>6 DEF KickEnds, Switch, SetFifo, RegistersOK
    <3>4. HistoryOK'
      BY <1>6 DEF KickEnds, Switch, SetFifo, HistoryOK
    <3>. QED
      BY <3>1, <3>2, <3>3, <3>4
  <2>2. TraceOK'
    BY <1>6 DEF KickEnds, Switch, SetFifo, TraceOK, Stalls, RegistersOK, CommandOK,
           PlacesOK
  <2>3. PlacesOK' /\ CommandOK' /\ IterationOK'
    BY <1>6 DEF KickEnds, Switch, SetFifo, PlacesOK, CommandOK, RegistersOK,
           IterationOK, TraceOK, Stalls
  <2>. QED
    BY <2>1, <2>2, <2>3
<1>7. CASE RunEnables
  BY <1>7 DEF RunEnables, Switch, SetFifo, PusherOK, CacheOK, Entries, RegistersOK,
         TraceOK, Stalls, PlacesOK, CommandOK, HistoryOK, IterationOK
<1>8. CASE RunMoves
  BY <1>8 DEF RunMoves, PusherOK, CacheOK, Entries, RegistersOK, TraceOK, Stalls,
         PlacesOK, CommandOK, HistoryOK, IterationOK
<1>9. CASE RunReturns
  <2>1. PusherOK' /\ CacheOK' /\ RegistersOK' /\ HistoryOK'
    BY <1>9 DEF RunReturns, Exchange, PusherOK, CacheOK, Entries, RegistersOK, TraceOK,
           Stalls, PlacesOK, CommandOK, HistoryOK
  <2>2. TraceOK'
    BY <1>9 DEF RunReturns, Exchange, TraceOK, Stalls, RegistersOK, CommandOK, PlacesOK
  <2>3. PlacesOK'
    <3>1. run.to \in Commands
      <4>1. run.to = IF run.then = "post_callback" THEN info.next ELSE pull
        BY <1>9 DEF RunReturns, CommandOK
      <4>2. pull \in Commands
        BY <1>9 DEF RunReturns, CommandOK
      <4>3. run.then = "post_callback" => IsMethod(pull) /\ info.next = Parse(pull)
        BY <1>9 DEF RunReturns, CommandOK
      <4>. QED
        BY <4>1, <4>2, <4>3, MethodWords
    <3>2. pc = "run_loop" /\ pc' = run.then /\ pc' \in TracePlaces
      BY <1>9 DEF RunReturns, CommandOK
    <3>. QED
      BY <1>9, <3>1, <3>2 DEF RunReturns, Exchange, PlacesOK
  <2>4. CommandOK'
    BY <1>9 DEF RunReturns, Exchange, PlacesOK, CommandOK, IterationOK
  <2>5. IterationOK'
    BY <1>9 DEF RunReturns, Exchange, PlacesOK, CommandOK, IterationOK
  <2>. QED
    BY <2>1, <2>2, <2>3, <2>4, <2>5
<1>. QED
  BY <1>1, <1>2, <1>3, <1>4, <1>5, <1>6, <1>7, <1>8, <1>9

\* Processing a command keeps it.
LEMMA ParsePreserves ==
  ASSUME ThreadInv, ProcessNothing \/ ProcessBranch \/ ProcessMethod \/ PreCallback \/
                    PostCallback \/ Judge
  PROVE  ThreadInv'
<1>. USE Words, Nothing, BoundsAssumption DEF ThreadInv, Goto, hardware, fifo, game,
         saved, trace, history, Tracing, At, RunPlaces, TracePlaces, WaitPlaces,
         Controlled, Working, Stable, Fatal, IsMethod, Positioned
<1>1. CASE ProcessNothing
  BY <1>1 DEF ProcessNothing, Process, PusherOK, CacheOK, Entries, RegistersOK, TraceOK,
         Stalls, PlacesOK, CommandOK, HistoryOK, IterationOK
<1>2. CASE ProcessBranch
  <2>1. PusherOK' /\ CacheOK' /\ RegistersOK' /\ HistoryOK'
    BY <1>2 DEF ProcessBranch, Process, PusherOK, CacheOK, Entries, RegistersOK,
           TraceOK, Stalls, PlacesOK, CommandOK, HistoryOK
  <2>2. TraceOK'
    BY <1>2 DEF ProcessBranch, Process, TraceOK, Stalls, RegistersOK, CommandOK,
           PlacesOK
  <2>3. PlacesOK' /\ CommandOK' /\ IterationOK'
    BY <1>2 DEF ProcessBranch, Process, PlacesOK, CommandOK, RegistersOK, IterationOK,
           TraceOK, Stalls
  <2>. QED
    BY <2>1, <2>2, <2>3
<1>3. CASE ProcessMethod
  <2>1. PusherOK' /\ CacheOK' /\ RegistersOK' /\ HistoryOK'
    BY <1>3 DEF ProcessMethod, Call, Process, discard, PusherOK, CacheOK, Entries,
           RegistersOK, TraceOK, Stalls, PlacesOK, CommandOK, HistoryOK
  <2>2. pull \in Commands /\ Parse(pull) \in Commands /\ Parse(pull) > pull
        /\ Program[pull].kind \in Kinds
        /\ Parse(pull) - pull \in Nat /\ Parse(pull) - pull < Len(Program)
    <3>1. pull \in Commands /\ IsMethod(pull)
      BY <1>3 DEF ProcessMethod, Process, PlacesOK, CommandOK
    <3>. QED
      BY <3>1, MethodWords
  <2>. DEFINE cmd == [valid |-> TRUE, kind |-> Program[pull].kind, from |-> pull,
                      next |-> Parse(pull)]
  <2>4. info' = cmd
    BY <1>3 DEF ProcessMethod
  <2>5. cmd \in [valid : BOOLEAN, kind : Kinds, from : Positioned, next : Positioned]
        /\ cmd.valid /\ cmd.from = pull /\ cmd.next = Parse(pull)
    BY <2>2
  <2>. HIDE DEF cmd
  <2>6. TraceOK'
    <3>1. queued' \in Nat
      <4>1. queued \in Nat /\ queued' \in {queued, queued + Parse(pull) - pull}
        BY <1>3 DEF ProcessMethod, TraceOK
      <4>2. pull \in Nat /\ Parse(pull) \in Nat
        BY <2>2
      <4>. HIDE Words, Nothing, BoundsAssumption
      <4>. QED
        BY <2>2, <4>1, <4>2
    <3>4. heap' \in BOOLEAN
      BY <1>3 DEF ProcessMethod, NeedsHeap, discard
    <3>5. UNCHANGED <<push, flip, stall>> /\ pull' \in {pull, Parse(pull)}
      BY <1>3, <2>5 DEF ProcessMethod
    <3>2. run' \in [to : Positioned, then : {"poll", "pre_callback", "post_callback", "verify"}]
      BY <1>3, <2>2 DEF ProcessMethod, Call, TraceOK
    <3>. QED
      BY <2>2, <2>4, <2>5, <3>1, <3>2, <3>4, <3>5 DEF TraceOK
  <2>7. PlacesOK'
    BY <1>3 DEF ProcessMethod, Call, Process, PlacesOK
  <2>8. CommandOK'
    <3>1. pc = "trace_loop" /\ IsMethod(pull) /\ pull' \in {pull, Parse(pull)}
      BY <1>3, <2>5 DEF ProcessMethod, Process
    <3>2. CASE pc' = "parsed"
      BY <1>3, <2>2, <3>1, <3>2 DEF CommandOK
    <3>3. CASE pc' = "run_enter"
      <4>1. /\ pull' = pull
            /\ \/ run' = [to |-> pull, then |-> "pre_callback"]
               \/ run' = [to |-> Parse(pull), then |-> "post_callback"]
        BY <1>3, <2>5, <3>3 DEF ProcessMethod, Call
      <4>2. info'.valid /\ info'.from = pull /\ info'.next = Parse(pull)
        BY <2>4, <2>5
      <4>3. run'.then # "post_callback" => run'.to = pull' /\ run'.then = "pre_callback"
        BY <4>1
      <4>4. run'.then = "post_callback" => run'.to = info'.next
        BY <4>1, <4>2
      <4>5. IsMethod(pull)' /\ info'.next = Parse(pull)' /\ pull' \in Commands
        BY <2>2, <3>1, <4>1, <4>2
      <4>. QED
        BY <3>3, <4>1, <4>2, <4>3, <4>4, <4>5 DEF CommandOK
    <3>. QED
      BY <1>3, <3>2, <3>3 DEF ProcessMethod, Call
  <2>9. IterationOK'
    <3>1. pc = "trace_loop" /\ pc' \in {"parsed", "run_enter"} /\ working' = working
          /\ working # "NONE"
      BY <1>3 DEF ProcessMethod, Call, Process, PlacesOK
    <3>2. pc' = "run_enter" =>
            queued' = queued /\ run'.then \in {"pre_callback", "post_callback"}
      BY <1>3 DEF ProcessMethod, Call
    <3>3. pc' = "parsed" => queued' = queued + Parse(pull) - pull
      BY <1>3 DEF ProcessMethod, Call
    <3>4. queued \in Nat /\ queued < MaxQueueDepth
      BY <3>1 DEF TraceOK, IterationOK
    <3>. QED
      BY <2>2, <3>1, <3>2, <3>3, <3>4 DEF IterationOK
  <2>. QED
    BY <2>1, <2>2, <2>4, <2>5, <2>6, <2>7, <2>8, <2>9
<1>4. CASE PreCallback
  BY <1>4 DEF PreCallback, Call, PusherOK, CacheOK, Entries, RegistersOK, TraceOK,
         Stalls, PlacesOK, CommandOK, HistoryOK, IterationOK
<1>5. CASE PostCallback
  <2>1. PusherOK' /\ CacheOK' /\ RegistersOK' /\ HistoryOK'
    BY <1>5 DEF PostCallback, PusherOK, CacheOK, Entries, RegistersOK, TraceOK, Stalls,
           PlacesOK, CommandOK, HistoryOK
  <2>2. TraceOK'
    BY <1>5 DEF PostCallback, TraceOK, Stalls, RegistersOK, CommandOK, PlacesOK
  <2>3. PlacesOK' /\ CommandOK' /\ IterationOK'
    BY <1>5 DEF PostCallback, PlacesOK, CommandOK, RegistersOK, IterationOK, TraceOK,
           Stalls
  <2>. QED
    BY <2>1, <2>2, <2>3
<1>6. CASE Judge
  <2>1. PusherOK' /\ CacheOK' /\ RegistersOK' /\ HistoryOK'
    BY <1>6 DEF Judge, Call, PusherOK, CacheOK, Entries, RegistersOK, TraceOK, Stalls,
           PlacesOK, CommandOK, HistoryOK
  <2>2. TraceOK'
    <3>1. flip' \in BOOLEAN
      BY <1>6 DEF Judge, IsFlip
    <3>. QED
      BY <1>6, <3>1 DEF Judge, Call, TraceOK, RegistersOK, CommandOK
  <2>3. PlacesOK' /\ CommandOK' /\ IterationOK'
    <3>1. PlacesOK'
      BY <1>6 DEF Judge, Call, PlacesOK, RegistersOK
    <3>2. CommandOK'
      BY <1>6 DEF Judge, Call, PlacesOK, CommandOK, RegistersOK, IterationOK
    <3>3. IterationOK'
      BY <1>6 DEF Judge, Call, PlacesOK, CommandOK, IterationOK, TraceOK, Stalls
    <3>. QED
      BY <3>1, <3>2, <3>3
  <2>. QED
    BY <2>1, <2>2, <2>3
<1>. QED
  BY <1>1, <1>2, <1>3, <1>4, <1>5, <1>6

\* The end of an iteration, and of the trace, keeps it.
LEMMA IteratePreserves ==
  ASSUME ThreadInv, TraceStops \/ TraceFails \/ FrameEnds \/ IterateMore \/ IterateEmpty
                    \/ WorkaroundBegins \/ WorkaroundEnds \/ StallIsPermanent
  PROVE  ThreadInv'
<1>. USE Words, Nothing, BoundsAssumption DEF ThreadInv, Goto, hardware, fifo, game,
         saved, trace, history, Tracing, At, RunPlaces, TracePlaces, WaitPlaces,
         Controlled, Working, Stable, Fatal, IsMethod, Positioned,
         DeletePushBufferCommandTraceInfo
<1>1. CASE TraceStops
  <2>1. PusherOK' /\ CacheOK' /\ RegistersOK' /\ HistoryOK'
    BY <1>1 DEF TraceStops, Finish, ForgetTrace, PusherOK, CacheOK, Entries,
           RegistersOK, TraceOK, Stalls, PlacesOK, CommandOK, HistoryOK
  <2>2. TraceOK'
    BY <1>1 DEF TraceStops, Finish, ForgetTrace, TraceOK, Stalls, RegistersOK,
           CommandOK, PlacesOK
  <2>3. PlacesOK' /\ CommandOK' /\ IterationOK'
    <3>1. PlacesOK'
      BY <1>1 DEF TraceStops, Finish, ForgetTrace, PlacesOK, RegistersOK
    <3>2. CommandOK'
      BY <1>1 DEF TraceStops, Finish, ForgetTrace, PlacesOK, CommandOK, RegistersOK,
             IterationOK
    <3>3. IterationOK'
      BY <1>1 DEF TraceStops, Finish, ForgetTrace, PlacesOK, CommandOK, IterationOK,
             TraceOK, Stalls
    <3>. QED
      BY <3>1, <3>2, <3>3
  <2>. QED
    BY <2>1, <2>2, <2>3
<1>2. CASE TraceFails
  <2>1. PusherOK' /\ CacheOK' /\ RegistersOK' /\ HistoryOK'
    BY <1>2 DEF TraceFails, FailsWith, Finish, Process, discard, ForgetTrace, PusherOK,
           CacheOK, Entries, RegistersOK, TraceOK, Stalls, PlacesOK, CommandOK,
           HistoryOK
  <2>2. TraceOK'
    <3>1. working' = "NONE" /\ pull' = 0 /\ info' = NoInfo /\ heap' = FALSE /\ queued' = 0
          /\ push' = 0 /\ flip' = FALSE /\ stall' = NoStall /\ run' = run
      BY <1>2 DEF TraceFails, Finish, ForgetTrace
    <3>. QED
      BY <3>1 DEF TraceOK
  <2>3. PlacesOK' /\ CommandOK' /\ IterationOK'
    <3>1. PlacesOK'
      BY <1>2 DEF TraceFails, FailsWith, Finish, Process, discard, ForgetTrace,
             PlacesOK, RegistersOK
    <3>2. CommandOK'
      BY <1>2 DEF TraceFails, FailsWith, Finish, Process, discard, ForgetTrace,
             PlacesOK, CommandOK, RegistersOK, IterationOK
    <3>3. IterationOK'
      BY <1>2 DEF TraceFails, FailsWith, Finish, Process, discard, ForgetTrace,
             PlacesOK, CommandOK, IterationOK, TraceOK, Stalls
    <3>. QED
      BY <3>1, <3>2, <3>3
  <2>. QED
    BY <2>1, <2>2, <2>3
<1>3. CASE FrameEnds
  <2>1. PusherOK' /\ CacheOK' /\ RegistersOK' /\ HistoryOK'
    BY <1>3 DEF FrameEnds, Finish, LogCommand, ForgetTrace, discard, PusherOK, CacheOK,
           Entries, RegistersOK, TraceOK, Stalls, PlacesOK, CommandOK, HistoryOK
  <2>2. TraceOK'
    BY <1>3 DEF FrameEnds, Finish, LogCommand, ForgetTrace, discard, TraceOK, Stalls,
           RegistersOK, CommandOK, PlacesOK
  <2>3. PlacesOK' /\ CommandOK' /\ IterationOK'
    BY <1>3 DEF FrameEnds, Finish, LogCommand, ForgetTrace, discard, PlacesOK,
           CommandOK, RegistersOK, IterationOK, TraceOK, Stalls
  <2>. QED
    BY <2>1, <2>2, <2>3
<1>4. CASE IterateMore
  <2>1. PusherOK' /\ CacheOK' /\ RegistersOK' /\ HistoryOK'
    BY <1>4 DEF IterateMore, Iterate, LogCommand, SetFifo, discard, PusherOK, CacheOK,
           Entries, RegistersOK, TraceOK, Stalls, PlacesOK, CommandOK, HistoryOK
  <2>2. TraceOK'
    <3>1. stall' \in Stalls
      BY <1>4, StallTypes DEF IterateMore, Iterate, TraceOK, TooLong
    <3>. QED
      BY <1>4, <3>1 DEF IterateMore, Iterate, LogCommand, TraceOK
  <2>3. PlacesOK' /\ CommandOK' /\ IterationOK'
    BY <1>4 DEF IterateMore, Iterate, LogCommand, SetFifo, discard, PlacesOK, CommandOK,
           RegistersOK, IterationOK, TraceOK, Stalls
  <2>. QED
    BY <2>1, <2>2, <2>3
<1>5. CASE IterateEmpty
  <2>1. PusherOK' /\ CacheOK' /\ RegistersOK' /\ HistoryOK'
    BY <1>5 DEF IterateEmpty, Iterate, LogCommand, SetFifo, discard, PusherOK, CacheOK,
           Entries, RegistersOK, TraceOK, Stalls, PlacesOK, CommandOK, HistoryOK
  <2>2. TraceOK'
    <3>1. stall' \in Stalls
      BY <1>5, StallTypes DEF IterateEmpty, Iterate, TraceOK, TooLong
    <3>. QED
      BY <1>5, <3>1 DEF IterateEmpty, Iterate, LogCommand, TraceOK
  <2>3. PlacesOK' /\ CommandOK' /\ IterationOK'
    BY <1>5 DEF IterateEmpty, Iterate, LogCommand, SetFifo, discard, PlacesOK,
           CommandOK, RegistersOK, IterationOK, TraceOK, Stalls
  <2>. QED
    BY <2>1, <2>2, <2>3
<1>6. CASE WorkaroundBegins
  <2>1. PusherOK' /\ CacheOK' /\ RegistersOK' /\ HistoryOK'
    BY <1>6 DEF WorkaroundBegins, Iterate, LogCommand, SetFifo, discard, PusherOK,
           CacheOK, Entries, RegistersOK, TraceOK, Stalls, PlacesOK, CommandOK,
           HistoryOK
  <2>2. TraceOK'
    <3>1. stall' \in Stalls
      BY <1>6, StallTypes DEF WorkaroundBegins, Iterate, TraceOK, TooLong
    <3>. QED
      BY <1>6, <3>1 DEF WorkaroundBegins, Iterate, LogCommand, TraceOK
  <2>3. PlacesOK' /\ CommandOK' /\ IterationOK'
    BY <1>6 DEF WorkaroundBegins, Iterate, LogCommand, SetFifo, discard, PlacesOK,
           CommandOK, RegistersOK, IterationOK, TraceOK, Stalls
  <2>. QED
    BY <2>1, <2>2, <2>3
<1>7. CASE WorkaroundEnds
  <2>1. PusherOK' /\ CacheOK' /\ RegistersOK' /\ HistoryOK'
    <3>1. PusherOK'
      BY <1>7 DEF WorkaroundEnds, Switch, SetFifo, PusherOK
    <3>2. CacheOK'
      BY <1>7 DEF WorkaroundEnds, Switch, SetFifo, CacheOK, Entries
    <3>3. RegistersOK'
      BY <1>7 DEF WorkaroundEnds, Switch, SetFifo, RegistersOK
    <3>4. HistoryOK'
      BY <1>7 DEF WorkaroundEnds, Switch, SetFifo, HistoryOK
    <3>. QED
      BY <3>1, <3>2, <3>3, <3>4
  <2>2. TraceOK'
    BY <1>7 DEF WorkaroundEnds, Switch, SetFifo, TraceOK, Stalls, RegistersOK,
           CommandOK, PlacesOK
  <2>3. PlacesOK' /\ CommandOK' /\ IterationOK'
    BY <1>7 DEF WorkaroundEnds, Switch, SetFifo, PlacesOK, CommandOK, RegistersOK,
           IterationOK, TraceOK, Stalls
  <2>. QED
    BY <2>1, <2>2, <2>3
<1>8. CASE StallIsPermanent
  <2>1. PusherOK' /\ CacheOK' /\ RegistersOK' /\ HistoryOK'
    BY <1>8 DEF StallIsPermanent, Finish, LogCommand, ForgetTrace, discard, PusherOK,
           CacheOK, Entries, RegistersOK, TraceOK, Stalls, PlacesOK, CommandOK,
           HistoryOK
  <2>2. TraceOK'
    BY <1>8 DEF StallIsPermanent, Finish, LogCommand, ForgetTrace, discard, TraceOK,
           Stalls, RegistersOK, CommandOK, PlacesOK
  <2>3. PlacesOK' /\ CommandOK' /\ IterationOK'
    BY <1>8 DEF StallIsPermanent, Finish, LogCommand, ForgetTrace, discard, PlacesOK,
           CommandOK, RegistersOK, IterationOK, TraceOK, Stalls
  <2>. QED
    BY <2>1, <2>2, <2>3
<1>. QED
  BY <1>1, <1>2, <1>3, <1>4, <1>5, <1>6, <1>7, <1>8

\* Shutdown keeps it.
LEMMA ShutdownPreserves ==
  ASSUME ThreadInv, ShutdownBegins \/ RestoreDMA \/ ShutdownEnds
  PROVE  ThreadInv'
<1>. USE Words, Nothing, BoundsAssumption DEF ThreadInv, Goto, hardware, fifo, game,
         saved, trace, history, Tracing, At, RunPlaces, TracePlaces, WaitPlaces,
         Controlled, Working, Stable, Fatal, IsMethod, Positioned
<1>1. CASE ShutdownBegins
  BY <1>1 DEF ShutdownBegins, Look, PusherOK, CacheOK, Entries, RegistersOK, TraceOK,
         Stalls, PlacesOK, CommandOK, HistoryOK, IterationOK
<1>2. CASE RestoreDMA
  <2>1. PusherOK' /\ CacheOK' /\ HistoryOK'
    BY <1>2 DEF RestoreDMA, PusherOK, CacheOK, HistoryOK
  <2>2. RegistersOK'
    BY <1>2 DEF RestoreDMA, RegistersOK
  <2>3. TraceOK'
    BY <1>2 DEF RestoreDMA, TraceOK, Stalls, RegistersOK, CommandOK, PlacesOK
  <2>4. PlacesOK' /\ CommandOK' /\ IterationOK'
    BY <1>2 DEF RestoreDMA, PlacesOK, CommandOK, RegistersOK, IterationOK, TraceOK,
           Stalls
  <2>. QED
    BY <2>1, <2>2, <2>3, <2>4
<1>3. CASE ShutdownEnds
  BY <1>3 DEF ShutdownEnds, SetFifo, PusherOK, CacheOK, Entries, RegistersOK, TraceOK,
         Stalls, PlacesOK, CommandOK, HistoryOK, IterationOK
<1>. QED
  BY <1>1, <1>2, <1>3

\* It holds at the start.
LEMMA ThreadInit == Init => ThreadInv
<1>. SUFFICES ASSUME Init PROVE ThreadInv
  OBVIOUS
<1>. USE Words, Nothing, BoundsAssumption DEF Init, Positioned, Tracing, At, RunPlaces, TracePlaces,
         WaitPlaces
<1>1. Puts[1] \in Commands /\ 1 \in DOMAIN Puts
  BY ProgramAssumption
<1>2. PusherOK
  <2>1. get \in Commands /\ left = 0
    BY <1>1
  <2>2. get \in Nat /\ get \in Addresses
    BY ONLY <2>1, Words
  <2>. QED
    BY <2>1, <2>2 DEF PusherOK
<1>3. CacheOK /\ HistoryOK
  BY DEF CacheOK, HistoryOK
<1>4. RegistersOK
  BY <1>1 DEF RegistersOK
<1>5. TraceOK
  BY DEF TraceOK
<1>6. PlacesOK /\ CommandOK /\ IterationOK
  <2>1. MaxQueueDepth \in Nat \ {0}
    BY BoundsAssumption
  <2>. QED
    BY <2>1 DEF PlacesOK, CommandOK, IterationOK, Stable
<1>. QED
  BY <1>2, <1>3, <1>4, <1>5, <1>6 DEF ThreadInv

LEMMA ThreadStep == ThreadInv /\ [Next]_vars => ThreadInv'
<1>1. ASSUME ThreadInv, UNCHANGED vars PROVE ThreadInv'
  BY <1>1 DEF ThreadInv, PusherOK, CacheOK, RegistersOK, TraceOK, HistoryOK, PlacesOK, CommandOK,
              IterationOK, Tracing, At, Controlled, vars, hardware, fifo, game, saved, trace,
              history
<1>. QED
  BY <1>1, GPUPreserves, ClientPreserves, WaitPreserves, RunPreserves, ParsePreserves,
     IteratePreserves, ShutdownPreserves
  DEF Next, ClientStep, WaitStep, RunStep, TraceStep, TracerStep

\* Every step keeps it, so it always holds.
THEOREM ThreadInvariant == Spec => []ThreadInv
BY ThreadInit, ThreadStep, PTL DEF Spec

-----------------------------------------------------------------------------
(* What follows of it.                                                         *)

\* Registers, addresses, counters and flags stay in their types: the parser and the
\* pusher never leave the push buffer, bytes_queued its bound of one flush and one command,
\* and the stall counters theirs.
THEOREM TypeCorrect == Spec => []TypeOK
<1>1. ThreadInv => TypeOK
  <2>. SUFFICES ASSUME ThreadInv PROVE TypeOK
    OBVIOUS
  <2>. USE Words, BoundsAssumption DEF ThreadInv
  <2>1. Positioned \subseteq Positions /\ Addresses \subseteq Positions
    BY DEF Positioned, Positions
  <2>2. {get, put, sub, header, realPush, realPull, target, pull, push} \subseteq Positions
    <3>1. get \in Addresses /\ {sub, header} \subseteq Positioned
      BY DEF PusherOK
    <3>2. {put, realPush, target} \subseteq Positioned /\ realPull \in Addresses \cup {0}
      BY DEF RegistersOK
    <3>3. {pull, push} \subseteq Positioned
      BY DEF TraceOK
    <3>4. 0 \in Positions
      BY <2>1 DEF Positioned
    <3>. QED
      BY <2>1, <3>1, <3>2, <3>3, <3>4
  <2>3. left \in Nat /\ queued \in 0..(MaxQueueDepth + Len(Program)) /\ Len(cache) <= CacheSize
    BY DEF PusherOK, TraceOK, IterationOK, CacheOK
  <2>4. working \in Working \cup {"NONE"}
    BY DEF PlacesOK
  <2>5. stall.sleeps \in 0..MaxSleeps /\ stall.workarounds \in 0..MaxWorkarounds
    BY DEF TraceOK, Stalls
  <2>6. leftover \in 0..Len(cache)
    BY DEF CacheOK
  <2>7. written \in DOMAIN Puts /\ {pusher, pgraph, late, escaped, valid, heap, flip} \subseteq BOOLEAN
    BY DEF RegistersOK, TraceOK
  <2>. QED
    BY <2>2, <2>3, <2>4, <2>5, <2>6, <2>7 DEF TypeOK
<1>. QED
  BY <1>1, ThreadInvariant, PTL

\* DeletePushBufferCommandTraceInfo runs at the end of every iteration: no path through
\* the callbacks, the failures, the stall workaround or a shutdown keeps the buffer of
\* a command's parameters.
THEOREM HeapFreed == Spec => []ParametersFreed
<1>1. ThreadInv => ParametersFreed
  BY DEF ThreadInv, IterationOK, ParametersFreed, At, RunPlaces
<1>. QED
  BY <1>1, ThreadInvariant, PTL

-----------------------------------------------------------------------------
(* The invariant of a pusher that has not moved in a stall workaround: the GPU  *)
(* moves in KickFIFO alone, and only over what the parser has passed.          *)

\* Who may move and what the registers hold while the tracer owns them.
SettledOK ==
  /\ pc = "wait_check" => ~pusher
  /\ pc \in {"wait_hide", "wait_resume", "wait_drain_again", "wait_pause", "wait_check"} =>
       looked.at \in Commands /\ looked.push \in Commands
  /\ pc \notin {"resume", "gone"} => put \in Commands
  /\ Controlled => realPush \in Commands
  /\ Controlled /\ pusher => pc \in {"kicking", "workaround"}
  /\ Controlled /\ cache # <<>> =>
       IF Tracing THEN pc \in {"kicking", "run_exec", "run_drain"} ELSE leftover = Len(cache)
  /\ Tracing \/ state = "IDLE_NEW_FRAME" => leftover = 0
  /\ Controlled /\ leftover > 0 => executed = <<>> /\ passed = <<>>
  /\ pc = "run_loop" => realPull = get
  /\ pc = "kicking" => put = run.to
  /\ pc = "workaround" => get = pull
  /\ At("verify") /\ IsEmpty => queued = 0

\* Where the GPU is when RunFIFO is not running.
InStepOK ==
  /\ pc \in {"trace_loop", "parsed", "verify", "workaround"} => InStep
  /\ pc = "pre_callback" => get = pull
  /\ pc = "post_callback" => get = info.next
  /\ pc = "poll" /\ state \in Stable => get = realPull

\* PGRAPH executes the methods with parameters.
Weight(a) == IF IsMethod(a) /\ Program[a].count > 0 THEN 1 ELSE 0

\* Of the methods that the parser has passed in traces all have been logged, but for the
\* one of the iteration, which is the last that was passed.
LoggedOK ==
  /\ At("pre_callback") /\ Weight(info.from) = 1 =>
       passed # <<>> /\ passed[Len(passed)] = info.from
  /\ Tracing => traced = IF ~discard /\ info.valid THEN Append(logged, info.from) ELSE logged
  /\ pc \in WaitPlaces => traced = logged
  /\ pc = "poll" /\ state \in {"IDLE"} \cup Stable => traced = logged

\* The GPU has executed the first of the methods that the parser has passed.
PrefixOK == Controlled => /\ Len(executed) <= Len(passed)
                          /\ \A i \in 1..Len(executed) : executed[i] = passed[i]

\* From command a, where n of the methods in ps have been passed, one comes in m commands
\* to command e, and has passed d of them then.
Steps(m, path, ix, n, a, e, d, ps) ==
  /\ path \in [1..(m + 1) -> Commands] /\ ix \in [1..(m + 1) -> 0..Len(ps)]
  /\ path[1] = a /\ path[m + 1] = e /\ ix[1] = n /\ ix[m + 1] = d
  /\ \A i \in 1..m : /\ path[i + 1] = Parse(path[i])
                     /\ ix[i + 1] = ix[i] + Weight(path[i])
                     /\ Weight(path[i]) = 1 => ps[ix[i + 1]] = path[i]

\* In a ring it does not come by a command twice, nor by one of stops.
Simple(m, path, stops) ==
  Ring => /\ \A i, j \in 1..(m + 1) : path[i] = path[j] => i = j
          /\ \A i \in 1..m : path[i] \notin stops

Ahead(n, a, e, d, ps, stops) ==
  \E m \in Nat : \E path \in [1..(m + 1) -> Commands], ix \in [1..(m + 1) -> 0..Len(ps)] :
    Steps(m, path, ix, n, a, e, d, ps) /\ Simple(m, path, stops)

\* The entries of CACHE1 c are parameters of the methods of ps from number x on; they
\* make the GPU execute it up to number n.
Queued(c, x, n, ps) ==
  \E cx \in [1..(Len(c) + 1) -> Nat] :
    /\ cx[1] = x /\ cx[Len(c) + 1] = n
    /\ \A j \in 1..Len(c) : /\ cx[j] < Len(ps) /\ ps[cx[j] + 1] = c[j].of
                            /\ cx[j + 1] = cx[j] + IF c[j].last THEN 1 ELSE 0

\* The end of what the GPU may come to, and how many methods are passed there.
End   == IF At("post_callback") THEN info.next ELSE IF Tracing THEN pull ELSE realPull
Due   == IF At("pre_callback") THEN Before ELSE Len(passed)
Stops == IF pc \in RunPlaces \/ ~Tracing THEN {} ELSE {realPush}

\* The GPU is on the way to the end, the header it is at and CACHE1 are what it has behind
\* it and not yet executed.
Aligned ==
  \E n \in 0..Len(passed) :
    /\ Ahead(n, get + left, End, Due, passed, Stops)
    /\ left > 0 => n > 0 /\ passed[n] = header
    /\ Queued(cache, Len(executed), IF left > 0 THEN n - 1 ELSE n, passed)

\* From the stable push buffer on, once CACHE1 is drained of what it held then, and until
\* a request fails or is shut down.
Here == Tracing \/ (pc = "poll" /\ state \in Stable /\ leftover = 0)

AlignedOK == Here => Aligned

QuietInv == SettledOK /\ InStepOK /\ LoggedOK /\ PrefixOK /\ AlignedOK

\* A step that leaves the GPU and the parser where they are.
Same == /\ Here /\ UNCHANGED <<get, left, header, cache, executed, passed>>
        /\ End' = End /\ Due' = Due /\ Stops' \subseteq Stops

\* What each step is shown to keep while the pusher has not escaped.
Kept == SettledOK' /\ InStepOK' /\ LoggedOK' /\ PrefixOK' /\ (Here' => Same \/ Aligned')

-----------------------------------------------------------------------------
(* The way from the GPU to the parser.                                         *)

LEMMA Weights ==
  ASSUME NEW a \in Commands
  PROVE  Weight(a) \in {0, 1} /\ (Weight(a) = 1 <=> IsMethod(a) /\ Program[a].count > 0)
BY DEF Weight

\* At its end the way is empty.
LEMMA AheadHere ==
  ASSUME NEW ps \in Seq(Commands), NEW a \in Commands, NEW d \in 0..Len(ps), NEW S
  PROVE  Ahead(d, a, a, d, ps, S)
<1>. DEFINE path == [i \in 1..(0 + 1) |-> a]
            ix   == [i \in 1..(0 + 1) |-> d]
<1>1. path \in [1..(0 + 1) -> Commands] /\ ix \in [1..(0 + 1) -> 0..Len(ps)]
  OBVIOUS
<1>2. Steps(0, path, ix, d, a, a, d, ps) /\ Simple(0, path, S)
  BY DEF Steps, Simple
<1>. QED
  BY <1>1, <1>2 DEF Ahead

\* The pusher goes over the first command of the way.
LEMMA AheadPop ==
  ASSUME NEW ps \in Seq(Commands), NEW n \in Nat, NEW a, NEW e, NEW d, NEW S,
         Ahead(n, a, e, d, ps, S), a # e
  PROVE  /\ a \in Commands /\ Parse(a) \in Commands
         /\ n + Weight(a) \in 0..Len(ps)
         /\ Weight(a) = 1 => ps[n + 1] = a
         /\ Ahead(n + Weight(a), Parse(a), e, d, ps, S)
<1>1. PICK m \in Nat : \E path \in [1..(m + 1) -> Commands], ix \in [1..(m + 1) -> 0..Len(ps)] :
        Steps(m, path, ix, n, a, e, d, ps) /\ Simple(m, path, S)
  BY DEF Ahead
<1>2. PICK path \in [1..(m + 1) -> Commands], ix \in [1..(m + 1) -> 0..Len(ps)] :
        Steps(m, path, ix, n, a, e, d, ps) /\ Simple(m, path, S)
  BY <1>1
<1>3. m # 0
  BY <1>2 DEF Steps
<1>. DEFINE k  == m - 1
            p2 == [i \in 1..(k + 1) |-> path[i + 1]]
            x2 == [i \in 1..(k + 1) |-> ix[i + 1]]
<1>4. k \in Nat /\ k + 1 = m
  BY <1>3
<1>5. a = path[1] /\ a \in Commands /\ path[2] = Parse(a) /\ ix[2] = n + Weight(a)
      /\ path[2] \in Commands /\ ix[2] \in 0..Len(ps) /\ (Weight(a) = 1 => ps[ix[2]] = a)
  BY <1>2, <1>4 DEF Steps
<1>6. p2 \in [1..(k + 1) -> Commands] /\ x2 \in [1..(k + 1) -> 0..Len(ps)]
  BY <1>4
<1>7. Steps(k, p2, x2, n + Weight(a), Parse(a), e, d, ps)
  <2>1. p2[1] = Parse(a) /\ x2[1] = n + Weight(a) /\ p2[k + 1] = e /\ x2[k + 1] = d
    BY <1>2, <1>4, <1>5 DEF Steps
  <2>2. ASSUME NEW i \in 1..k
        PROVE  /\ p2[i + 1] = Parse(p2[i]) /\ x2[i + 1] = x2[i] + Weight(p2[i])
               /\ Weight(p2[i]) = 1 => ps[x2[i + 1]] = p2[i]
    <3>1. i + 1 \in 1..m /\ i + 1 \in 1..(k + 1) /\ i \in 1..(k + 1)
      BY <1>4
    <3>2. p2[i] = path[i + 1] /\ x2[i] = ix[i + 1]
          /\ p2[i + 1] = path[(i + 1) + 1] /\ x2[i + 1] = ix[(i + 1) + 1]
      BY <3>1
    <3>. QED
      BY <1>2, <3>1, <3>2 DEF Steps
  <2>. QED
    BY <1>6, <2>1, <2>2 DEF Steps
<1>8. Simple(k, p2, S)
  <2>. SUFFICES ASSUME Ring
                PROVE  /\ \A i, j \in 1..(k + 1) : p2[i] = p2[j] => i = j
                       /\ \A i \in 1..k : p2[i] \notin S
    BY DEF Simple
  <2>1. \A i \in 1..(k + 1) : p2[i] = path[i + 1] /\ i + 1 \in 1..(m + 1)
    BY <1>4
  <2>2. \A i \in 1..k : i + 1 \in 1..m
    BY <1>4
  <2>. HIDE DEF p2, k
  <2>3. ASSUME NEW i \in 1..(k + 1), NEW j \in 1..(k + 1), p2[i] = p2[j]
        PROVE  i = j
    <3>1. i + 1 = j + 1
      BY <1>2, <2>1, <2>3 DEF Simple
    <3>. QED
      BY <3>1
  <2>4. ASSUME NEW i \in 1..k
        PROVE  p2[i] \notin S
    BY <1>2, <1>4, <2>1, <2>2 DEF Simple
  <2>. QED
    BY <2>3, <2>4
<1>9. Ahead(n + Weight(a), Parse(a), e, d, ps, S)
  BY <1>4, <1>6, <1>7, <1>8 DEF Ahead
<1>. QED
  BY <1>5, <1>9

\* In a ring the GPU is at the end only when nothing is left of the way.
LEMMA AheadArrived ==
  ASSUME NEW ps \in Seq(Commands), NEW n, NEW e, NEW d, NEW S, NEW T,
         Ahead(n, e, e, d, ps, S)
  PROVE  /\ Ring => n = d
         /\ Ahead(n, e, e, d, ps, T)
<1>1. PICK m \in Nat : \E path \in [1..(m + 1) -> Commands], ix \in [1..(m + 1) -> 0..Len(ps)] :
        Steps(m, path, ix, n, e, e, d, ps) /\ Simple(m, path, S)
  BY DEF Ahead
<1>2. PICK path \in [1..(m + 1) -> Commands], ix \in [1..(m + 1) -> 0..Len(ps)] :
        Steps(m, path, ix, n, e, e, d, ps) /\ Simple(m, path, S)
  BY <1>1
<1>3. Ring => m = 0
  BY <1>2 DEF Steps, Simple
<1>4. Ring => n = d
  BY <1>2, <1>3 DEF Steps
<1>5. Simple(m, path, T)
  BY <1>2, <1>3 DEF Simple
<1>. QED
  BY <1>2, <1>4, <1>5 DEF Ahead

\* A way that does not come by S does not come by a part of S.
LEMMA AheadRelax ==
  ASSUME NEW ps, NEW n, NEW a, NEW e, NEW d, NEW S, NEW T \in SUBSET S,
         Ahead(n, a, e, d, ps, S)
  PROVE  Ahead(n, a, e, d, ps, T)
<1>1. \A m, path : Simple(m, path, S) => Simple(m, path, T)
  BY DEF Simple
<1>. QED
  BY <1>1 DEF Ahead

\* The parser passes a method that is not on the way.
LEMMA AheadGrow ==
  ASSUME NEW ps \in Seq(Commands), NEW n, NEW a, NEW e, NEW d, NEW S, NEW y \in Commands,
         Ahead(n, a, e, d, ps, S)
  PROVE  Ahead(n, a, e, d, Append(ps, y), S)
<1>1. PICK m \in Nat : \E path \in [1..(m + 1) -> Commands], ix \in [1..(m + 1) -> 0..Len(ps)] :
        Steps(m, path, ix, n, a, e, d, ps) /\ Simple(m, path, S)
  BY DEF Ahead
<1>2. PICK path \in [1..(m + 1) -> Commands], ix \in [1..(m + 1) -> 0..Len(ps)] :
        Steps(m, path, ix, n, a, e, d, ps) /\ Simple(m, path, S)
  BY <1>1
<1>. DEFINE q == Append(ps, y)
<1>3. Len(q) = Len(ps) + 1 /\ \A i \in 1..Len(ps) : q[i] = ps[i]
  OBVIOUS
<1>. HIDE DEF q
<1>4. ix \in [1..(m + 1) -> 0..Len(q)]
  BY <1>3
<1>5. ASSUME NEW i \in 1..m, Weight(path[i]) = 1
      PROVE  q[ix[i + 1]] = path[i]
  <2>1. ix[i] \in 0..Len(ps) /\ ix[i + 1] \in 0..Len(ps) /\ ix[i + 1] = ix[i] + 1
    BY <1>2, <1>5 DEF Steps
  <2>2. ix[i + 1] \in 1..Len(ps)
    BY <2>1
  <2>. QED
    BY <1>2, <1>3, <1>5, <2>2 DEF Steps
<1>6. Steps(m, path, ix, n, a, e, d, q)
  BY <1>2, <1>4, <1>5 DEF Steps
<1>. QED
  BY <1>2, <1>4, <1>6 DEF Ahead, q

\* The parser goes over one more command, which is not at the end of the push buffer.
LEMMA AheadExtend ==
  ASSUME NEW ps \in Seq(Commands), NEW n, NEW a, NEW e \in Commands, NEW d \in Nat,
         NEW p \in Commands, e # p, Ahead(n, a, e, d, ps, {p}),
         Parse(e) \in Commands, d + Weight(e) <= Len(ps),
         Weight(e) = 1 => ps[d + 1] = e
  PROVE  Ahead(n, a, Parse(e), d + Weight(e), ps, {p})
<1>1. PICK m \in Nat : \E path \in [1..(m + 1) -> Commands], ix \in [1..(m + 1) -> 0..Len(ps)] :
        Steps(m, path, ix, n, a, e, d, ps) /\ Simple(m, path, {p})
  BY DEF Ahead
<1>2. PICK path \in [1..(m + 1) -> Commands], ix \in [1..(m + 1) -> 0..Len(ps)] :
        Steps(m, path, ix, n, a, e, d, ps) /\ Simple(m, path, {p})
  BY <1>1
<1>. DEFINE k  == m + 1
            p2 == [i \in 1..(k + 1) |-> IF i = k + 1 THEN Parse(e) ELSE path[i]]
            x2 == [i \in 1..(k + 1) |-> IF i = k + 1 THEN d + Weight(e) ELSE ix[i]]
<1>3. k \in Nat /\ path[k] = e /\ ix[k] = d /\ Weight(e) \in {0, 1}
  BY <1>2, Weights DEF Steps
<1>4. /\ p2[k + 1] = Parse(e) /\ x2[k + 1] = d + Weight(e)
      /\ \A i \in 1..k : p2[i] = path[i] /\ x2[i] = ix[i]
  BY <1>3
<1>5. p2 \in [1..(k + 1) -> Commands] /\ x2 \in [1..(k + 1) -> 0..Len(ps)]
  BY <1>3
<1>. HIDE DEF p2, x2
<1>6. Steps(k, p2, x2, n, a, Parse(e), d + Weight(e), ps)
  <2>1. p2[1] = a /\ x2[1] = n
    BY <1>2, <1>4 DEF Steps
  <2>2. ASSUME NEW i \in 1..k
        PROVE  /\ p2[i + 1] = Parse(p2[i]) /\ x2[i + 1] = x2[i] + Weight(p2[i])
               /\ Weight(p2[i]) = 1 => ps[x2[i + 1]] = p2[i]
    <3>1. CASE i = k
      BY <1>3, <1>4, <3>1
    <3>2. CASE i # k
      <4>1. i \in 1..m /\ i + 1 \in 1..k
        BY <3>2
      <4>. QED
        BY <1>2, <1>4, <4>1 DEF Steps
    <3>. QED
      BY <3>1, <3>2
  <2>. QED
    BY <1>4, <1>5, <2>1, <2>2 DEF Steps
<1>7. Simple(k, p2, {p})
  <2>. SUFFICES ASSUME Ring
                PROVE  /\ \A i, j \in 1..(k + 1) : p2[i] = p2[j] => i = j
                       /\ \A i \in 1..k : p2[i] # p
    BY DEF Simple
  <2>1. /\ \A i, j \in 1..k : path[i] = path[j] => i = j
        /\ \A i \in 1..m : path[i] # p
    BY <1>2 DEF Simple
  <2>2. \A i \in 1..k : p2[i] # p
    <3>1. ASSUME NEW i \in 1..k PROVE path[i] # p
      <4>1. i = k \/ i \in 1..m
        OBVIOUS
      <4>. QED
        BY <1>3, <2>1, <4>1
    <3>. QED
      BY <1>4, <3>1
  <2>3. ASSUME NEW l \in 1..k, path[l] = Parse(e)
        PROVE  FALSE
    <3>. DEFINE part == {path[i] : i \in l..k}
    <3>1. part \subseteq Commands /\ part # {}
      BY <2>3
    <3>2. ASSUME NEW i \in l..k PROVE Parse(path[i]) \in part
      <4>1. CASE i = k
        BY <1>3, <2>3, <4>1
      <4>2. CASE i # k
        <5>1. i \in 1..m /\ i + 1 \in l..k
          BY <4>2
        <5>2. Parse(path[i]) = path[i + 1]
          BY <1>2, <5>1 DEF Steps
        <5>. QED
          BY <5>1, <5>2
      <4>. QED
        BY <4>1, <4>2
    <3>3. part = Commands
      <4>1. \A b \in part : Parse(b) \in part
        BY <3>2
      <4>. HIDE DEF part
      <4>. QED
        BY <3>1, <4>1 DEF Ring
    <3>4. PICK i \in l..k : path[i] = p
      BY <3>3
    <3>. QED
      BY <1>4, <2>2, <3>4
  <2>4. ASSUME NEW i \in 1..(k + 1), NEW j \in 1..(k + 1), p2[i] = p2[j]
        PROVE  i = j
    <3>1. CASE i = k + 1 /\ j # k + 1
      <4>1. j \in 1..k
        BY <3>1
      <4>. QED
        BY <1>4, <2>3, <2>4, <3>1, <4>1
    <3>2. CASE i # k + 1 /\ j = k + 1
      <4>1. i \in 1..k
        BY <3>2
      <4>. QED
        BY <1>4, <2>3, <2>4, <3>2, <4>1
    <3>3. CASE i # k + 1 /\ j # k + 1
      <4>1. i \in 1..k /\ j \in 1..k
        BY <3>3
      <4>. QED
        BY <1>4, <2>1, <2>4, <4>1
    <3>. QED
      BY <3>1, <3>2, <3>3
  <2>. QED
    BY <2>2, <2>4
<1>. QED
  BY <1>3, <1>5, <1>6, <1>7 DEF Ahead

-----------------------------------------------------------------------------
(* CACHE1.                                                                     *)

LEMMA QueueEmpty ==
  ASSUME NEW n \in Nat, NEW x \in Nat, NEW ps
  PROVE  Queued(<<>>, x, n, ps) <=> x = n
<1>1. Queued(<<>>, x, n, ps) => x = n
  BY DEF Queued
<1>2. ASSUME x = n PROVE Queued(<<>>, x, n, ps)
  <2>. DEFINE cx == [i \in 1..(Len(<<>>) + 1) |-> n]
  <2>1. Len(<<>>) = 0 /\ cx \in [1..(Len(<<>>) + 1) -> Nat] /\ cx[1] = n
    OBVIOUS
  <2>. HIDE DEF cx
  <2>. QED
    BY <1>2, <2>1 DEF Queued
<1>. QED
  BY <1>1, <1>2

\* PGRAPH takes the first entry.
LEMMA QueueTake ==
  ASSUME NEW c \in Seq(Entries), c # <<>>, NEW ps \in Seq(Commands), NEW x \in Nat,
         NEW n \in Nat, Queued(c, x, n, ps)
  PROVE  /\ x < Len(ps) /\ ps[x + 1] = Head(c).of
         /\ Queued(Tail(c), x + (IF Head(c).last THEN 1 ELSE 0), n, ps)
<1>1. PICK cx \in [1..(Len(c) + 1) -> Nat] :
        /\ cx[1] = x /\ cx[Len(c) + 1] = n
        /\ \A j \in 1..Len(c) : /\ cx[j] < Len(ps) /\ ps[cx[j] + 1] = c[j].of
                                /\ cx[j + 1] = cx[j] + IF c[j].last THEN 1 ELSE 0
  BY DEF Queued
<1>. DEFINE t  == Tail(c)
            c2 == [j \in 1..(Len(t) + 1) |-> cx[j + 1]]
<1>2. Len(t) \in Nat /\ Len(t) + 1 = Len(c) /\ Head(c) = c[1]
      /\ \A j \in 1..Len(t) : t[j] = c[j + 1]
  OBVIOUS
<1>3. x < Len(ps) /\ ps[x + 1] = Head(c).of /\ cx[2] = x + (IF Head(c).last THEN 1 ELSE 0)
  BY <1>1, <1>2
<1>. HIDE DEF t
<1>4. c2 \in [1..(Len(t) + 1) -> Nat] /\ \A j \in 1..(Len(t) + 1) : c2[j] = cx[j + 1]
  BY <1>1, <1>2
<1>5. c2[1] = x + (IF Head(c).last THEN 1 ELSE 0) /\ c2[Len(t) + 1] = n
  BY <1>1, <1>2, <1>3, <1>4
<1>. HIDE DEF c2
<1>6. ASSUME NEW j \in 1..Len(t)
      PROVE  /\ c2[j] < Len(ps) /\ ps[c2[j] + 1] = t[j].of
             /\ c2[j + 1] = c2[j] + IF t[j].last THEN 1 ELSE 0
  <2>1. j + 1 \in 1..Len(c) /\ j \in 1..(Len(t) + 1) /\ j + 1 \in 1..(Len(t) + 1)
    BY <1>2
  <2>2. c2[j] = cx[j + 1] /\ c2[j + 1] = cx[(j + 1) + 1] /\ t[j] = c[j + 1]
    BY <1>2, <1>4, <2>1
  <2>. QED
    BY <1>1, <2>1, <2>2
<1>7. Queued(t, x + (IF Head(c).last THEN 1 ELSE 0), n, ps)
  BY <1>4, <1>5, <1>6 DEF Queued
<1>. QED
  BY <1>3, <1>7 DEF t

\* The pusher puts in a parameter of the next method.
LEMMA QueuePut ==
  ASSUME NEW c \in Seq(Entries), NEW ps \in Seq(Commands), NEW x \in Nat,
         NEW n \in Nat, Queued(c, x, n, ps), n < Len(ps), NEW b \in Entries, b.of = ps[n + 1]
  PROVE  Queued(Append(c, b), x, n + (IF b.last THEN 1 ELSE 0), ps)
<1>1. PICK cx \in [1..(Len(c) + 1) -> Nat] :
        /\ cx[1] = x /\ cx[Len(c) + 1] = n
        /\ \A j \in 1..Len(c) : /\ cx[j] < Len(ps) /\ ps[cx[j] + 1] = c[j].of
                                /\ cx[j + 1] = cx[j] + IF c[j].last THEN 1 ELSE 0
  BY DEF Queued
<1>. DEFINE q  == Append(c, b)
            y  == n + (IF b.last THEN 1 ELSE 0)
            c2 == [j \in 1..(Len(q) + 1) |-> IF j = Len(q) + 1 THEN y ELSE cx[j]]
<1>2. Len(c) \in Nat /\ Len(q) = Len(c) + 1 /\ q[Len(q)] = b
      /\ \A j \in 1..Len(c) : q[j] = c[j]
  OBVIOUS
<1>3. y \in Nat
  OBVIOUS
<1>. HIDE DEF q, y
<1>4. c2 \in [1..(Len(q) + 1) -> Nat]
  BY <1>2, <1>3
<1>5. c2[Len(q) + 1] = y /\ \A j \in 1..Len(q) : c2[j] = cx[j]
  BY <1>2
<1>. HIDE DEF c2
<1>6. c2[1] = x
  BY <1>1, <1>2, <1>5
<1>7. ASSUME NEW j \in 1..Len(q)
      PROVE  /\ c2[j] < Len(ps) /\ ps[c2[j] + 1] = q[j].of
             /\ c2[j + 1] = c2[j] + IF q[j].last THEN 1 ELSE 0
  <2>1. CASE j = Len(q)
    <3>1. c2[j] = n /\ c2[j + 1] = y /\ q[j] = b
      BY <1>1, <1>2, <1>5, <2>1
    <3>. QED
      BY <3>1 DEF y
  <2>2. CASE j # Len(q)
    <3>1. j \in 1..Len(c) /\ j + 1 \in 1..Len(q)
      BY <1>2, <2>2
    <3>. QED
      BY <1>1, <1>2, <1>5, <3>1
  <2>. QED
    BY <2>1, <2>2
<1>8. Queued(q, x, y, ps)
  BY <1>4, <1>5, <1>6, <1>7 DEF Queued
<1>. QED
  BY <1>8 DEF q, y

\* The parser passes a method.
LEMMA QueueGrow ==
  ASSUME NEW c \in Seq(Entries), NEW ps \in Seq(Commands), NEW x, NEW n, NEW y \in Commands,
         Queued(c, x, n, ps)
  PROVE  Queued(c, x, n, Append(ps, y))
<1>1. PICK cx \in [1..(Len(c) + 1) -> Nat] :
        /\ cx[1] = x /\ cx[Len(c) + 1] = n
        /\ \A j \in 1..Len(c) : /\ cx[j] < Len(ps) /\ ps[cx[j] + 1] = c[j].of
                                /\ cx[j + 1] = cx[j] + IF c[j].last THEN 1 ELSE 0
  BY DEF Queued
<1>. DEFINE q == Append(ps, y)
<1>2. Len(q) = Len(ps) + 1 /\ Len(ps) \in Nat /\ \A i \in 1..Len(ps) : q[i] = ps[i]
  OBVIOUS
<1>. HIDE DEF q
<1>3. ASSUME NEW j \in 1..Len(c)
      PROVE  cx[j] < Len(q) /\ q[cx[j] + 1] = c[j].of
  <2>1. cx[j] \in Nat /\ cx[j] < Len(ps) /\ ps[cx[j] + 1] = c[j].of
    BY <1>1
  <2>2. cx[j] + 1 \in 1..Len(ps)
    BY <1>2, <2>1
  <2>. QED
    BY <1>2, <2>1, <2>2
<1>4. Queued(c, x, n, q)
  BY <1>1, <1>3 DEF Queued
<1>. QED
  BY <1>4 DEF q

-----------------------------------------------------------------------------
(* Every step but an escape keeps the invariant.                               *)

\* Where a command starts the pusher has all parameters of the one before.
LEMMA BetweenCommands ==
  ASSUME PusherOK, get \in Commands
  PROVE  left = 0 /\ get + left = get
<1>1. left \in Nat /\ get \in Nat
  BY Words DEF PusherOK
<1>2. ASSUME left > 0 PROVE FALSE
  <2>1. header \in Commands /\ IsMethod(header) /\ get \in Parameters(header)
    BY <1>2 DEF PusherOK
  <2>2. Parameters(header) \cap Commands = {}
    BY <2>1, Words
  <2>. QED
    BY <2>1, <2>2
<1>. QED
  BY <1>1, <1>2

LEMMA AlignedKept ==
  ASSUME AlignedOK, Here' => Same \/ Aligned'
  PROVE  AlignedOK'
<1>1. ASSUME Same PROVE Aligned'
  <2>1. PICK n \in 0..Len(passed) :
          /\ Ahead(n, get + left, End, Due, passed, Stops)
          /\ left > 0 => n > 0 /\ passed[n] = header
          /\ Queued(cache, Len(executed), IF left > 0 THEN n - 1 ELSE n, passed)
    BY <1>1 DEF Same, AlignedOK, Aligned
  <2>2. Ahead(n, get + left, End, Due, passed, Stops')
    BY <1>1, <2>1, AheadRelax DEF Same
  <2>. QED
    BY <1>1, <2>1, <2>2 DEF Same, Aligned
<1>. QED
  BY <1>1 DEF AlignedOK

\* What the GPU and the game do.
LEMMA GPUQuiet ==
  ASSUME ~escaped', ThreadInv, ThreadInv', QuietInv,
         PushWord \/ Execute \/ GameWrites
  PROVE  Kept
<1>. USE Words, Nothing, BoundsAssumption DEF QuietInv, ThreadInv, Goto, hardware, fifo,
         game, saved, trace, history, Tracing, At, RunPlaces, TracePlaces, WaitPlaces,
         Controlled, Working, Stable, Fatal, IsMethod, Positioned
<1>1. CASE PushWord
  <2>1. ASSUME Here
        PROVE  pc = "kicking" /\ put = End /\ End' = End /\ Due' = Due /\ Stops' = Stops
    <3>1. pc = "kicking" /\ put = run.to
      BY <1>1, <2>1 DEF PushWord, SettledOK, PlacesOK, Here
    <3>2. put = End
      BY <3>1 DEF End, CommandOK
    <3>. QED
      BY <1>1, <3>1, <3>2 DEF PushWord, End, Due, Stops, Before
  <2>2. ASSUME Here
        PROVE  Aligned'
    <3>1. PICK n \in 0..Len(passed) :
            /\ Ahead(n, get + left, End, Due, passed, Stops)
            /\ left > 0 => n > 0 /\ passed[n] = header
            /\ Queued(cache, Len(executed), IF left > 0 THEN n - 1 ELSE n, passed)
      BY <2>2 DEF AlignedOK, Aligned
    <3>2. /\ passed \in Seq(Commands) /\ cache \in Seq(Entries) /\ Len(executed) \in Nat
          /\ Len(passed) \in Nat /\ passed' = passed /\ executed' = executed /\ left \in Nat
      <4>1. passed \in Seq(Commands) /\ executed \in Seq(Commands)
        BY DEF HistoryOK
      <4>2. passed' = passed /\ executed' = executed
        BY <1>1 DEF PushWord
      <4>3. cache \in Seq(Entries) /\ left \in Nat
        BY DEF CacheOK, PusherOK
      <4>. QED
        BY <4>1, <4>2, <4>3
    <3>3. CASE left > 0
      <4>. DEFINE b == [of |-> header, last |-> left = 1]
      <4>1. cache' = Append(cache, b) /\ left' = left - 1 /\ get' = get + 1 /\ header' = header
        BY <1>1, <3>3 DEF PushWord
      <4>2. b \in Entries /\ b.of = passed[(n - 1) + 1] /\ (b.last <=> left = 1)
            /\ n - 1 \in Nat /\ n - 1 < Len(passed)
        <5>1. header \in Commands /\ n > 0 /\ passed[n] = header /\ (n - 1) + 1 = n
          BY <3>1, <3>3 DEF PusherOK
        <5>2. b \in Entries /\ b.of = header /\ (b.last <=> left = 1)
          BY <5>1 DEF Entries
        <5>. HIDE DEF b
        <5>. QED
          BY <3>1, <3>2, <5>1, <5>2
      <4>. HIDE DEF b
      <4>3. Queued(cache', Len(executed), (n - 1) + (IF b.last THEN 1 ELSE 0), passed)
        BY <3>1, <3>2, <3>3, <4>1, <4>2, QueuePut
      <4>4. (n - 1) + (IF b.last THEN 1 ELSE 0) = IF left' > 0 THEN n - 1 ELSE n
        BY <3>2, <3>3, <4>1, <4>2
      <4>5. get' + left' = get + left
        BY <3>2, <4>1 DEF PusherOK
      <4>. QED
        BY <2>1, <2>2, <3>1, <3>2, <3>3, <4>1, <4>3, <4>4, <4>5 DEF Aligned
    <3>4. CASE left = 0
      <4>1. get \in Commands /\ get + left = get /\ get # End /\ cache' = cache
        BY <1>1, <2>1, <2>2, <3>4 DEF PushWord, PusherOK
      <4>2. /\ Parse(get) \in Commands /\ n + Weight(get) \in 0..Len(passed)
            /\ Weight(get) = 1 => passed[n + 1] = get
            /\ Ahead(n + Weight(get), Parse(get), End, Due, passed, Stops)
        <5>1. Ahead(n, get, End, Due, passed, Stops)
          <6>1. Ahead(n, get + left, End, Due, passed, Stops)
            BY <3>1
          <6>. HIDE Words, Nothing, BoundsAssumption
          <6>. QED
            BY <4>1, <6>1
        <5>2. passed \in Seq(Commands) /\ n \in Nat
          BY <3>1, <3>2
        <5>. HIDE DEF ThreadInv, QuietInv
        <5>. QED
          BY ONLY <4>1, <5>1, <5>2, AheadPop
      <4>3. CASE IsMethod(get)
        <5>1. header' = get /\ left' = Program[get].count /\ get' + left' = Parse(get)
              /\ left' \in Nat
          BY <1>1, <3>4, <4>1, <4>3, MethodWords DEF PushWord
        <5>2. (left' > 0 => Weight(get) = 1) /\ (~(left' > 0) => Weight(get) = 0)
          BY <4>3, <5>1 DEF Weight
        <5>. DEFINE k == n + Weight(get)
        <5>3. (IF left' > 0 THEN k - 1 ELSE k) = n /\ (left' > 0 => k > 0 /\ passed[k] = get)
          BY <4>2, <5>2
        <5>4. Queued(cache, Len(executed), n, passed)
          BY <3>1, <3>4
        <5>. HIDE DEF k
        <5>5. k \in 0..Len(passed) /\ Ahead(k, Parse(get), End, Due, passed, Stops)
          BY <4>2 DEF k
        <5>. QED
          BY <2>1, <2>2, <3>2, <4>1, <5>1, <5>3, <5>4, <5>5 DEF Aligned
      <4>4. CASE ~IsMethod(get)
        <5>1. Weight(get) = 0 /\ n + Weight(get) = n
          BY <4>4 DEF Weight
        <5>2. left' = 0 /\ header' = header /\ get' = Parse(get) /\ get' + left' = Parse(get)
          <6>1. CASE Program[get].op \in {"jump", "call"}
            <7>1. left' = 0 /\ header' = header /\ get' = Program[get].to
              BY <1>1, <3>4, <6>1 DEF PushWord
            <7>2. Parse(get) = Program[get].to /\ Parse(get) \in Nat
              BY <4>1, <4>2, <6>1
            <7>. QED
              BY <7>1, <7>2
          <6>2. CASE Program[get].op = "return"
            BY <4>1, <4>2, <6>2
          <6>. QED
            BY <1>1, <3>4, <4>1, <4>4, <6>1, <6>2 DEF PushWord
        <5>. QED
          BY <2>1, <2>2, <3>1, <3>2, <3>4, <4>1, <4>2, <5>1, <5>2 DEF Aligned
      <4>. QED
        BY <4>3, <4>4
    <3>. QED
      BY <3>2, <3>3, <3>4
  <2>3. Here' => Here
    BY <1>1 DEF PushWord, Here
  <2>4. SettledOK' /\ InStepOK' /\ LoggedOK' /\ PrefixOK'
    <3>1. SettledOK'
      BY <1>1 DEF PushWord, SettledOK, InStepOK, InStep, PlacesOK, CommandOK,
             RegistersOK, IsEmpty, Unchanged, TooLong, IterationOK,
             LoggedOK, discard, PrefixOK
    <3>2. InStepOK'
      BY <1>1 DEF PushWord, SettledOK, InStepOK, InStep, PlacesOK, CommandOK,
             RegistersOK, IsEmpty, Unchanged, TooLong, IterationOK,
             LoggedOK, discard, PrefixOK
    <3>3. LoggedOK'
      BY <1>1 DEF PushWord, SettledOK, InStepOK, InStep, PlacesOK, CommandOK,
             RegistersOK, IsEmpty, Unchanged, TooLong, IterationOK,
             LoggedOK, discard, PrefixOK
    <3>4. PrefixOK'
      BY <1>1 DEF PushWord, SettledOK, PlacesOK, CommandOK, RegistersOK, IsEmpty, Unchanged, TooLong, IterationOK, PrefixOK
    <3>. QED
      BY <3>1, <3>2, <3>3, <3>4
  <2>. QED
    BY <2>1, <2>2, <2>3, <2>4 DEF Kept
<1>2. CASE Execute
  <2>1. Head(cache) \in Entries /\ Len(executed) \in Nat /\ executed \in Seq(Commands)
        /\ passed \in Seq(Commands) /\ cache \in Seq(Entries) /\ Len(passed) \in Nat
    BY <1>2, Queues DEF Execute, CacheOK, HistoryOK
  <2>2. Controlled /\ leftover = 0 => Here /\ Here'
    BY <1>2, <2>1 DEF Execute, SettledOK, Here, CacheOK
  <2>. DEFINE x == Len(executed) + (IF Head(cache).last THEN 1 ELSE 0)
  <2>3. ASSUME Controlled, leftover = 0
        PROVE  /\ Len(executed) < Len(passed) /\ passed[Len(executed) + 1] = Head(cache).of
               /\ Len(executed') = x
               /\ \A i \in 1..Len(executed') :
                    executed'[i] = IF i <= Len(executed) THEN executed[i] ELSE Head(cache).of
               /\ Aligned'
    <3>1. PICK n \in 0..Len(passed) :
            /\ Ahead(n, get + left, End, Due, passed, Stops)
            /\ left > 0 => n > 0 /\ passed[n] = header
            /\ Queued(cache, Len(executed), IF left > 0 THEN n - 1 ELSE n, passed)
      BY <2>2, <2>3 DEF AlignedOK, Aligned
    <3>. DEFINE base == IF left > 0 THEN n - 1 ELSE n
    <3>2. base \in Nat
      BY <3>1 DEF PusherOK
    <3>3. /\ Len(executed) < Len(passed) /\ passed[Len(executed) + 1] = Head(cache).of
          /\ Queued(Tail(cache), x, base, passed)
      BY <1>2, <2>1, <3>1, <3>2, QueueTake DEF Execute
    <3>4. /\ Len(executed') = x
          /\ \A i \in 1..Len(executed') :
               executed'[i] = IF i <= Len(executed) THEN executed[i] ELSE Head(cache).of
      <4>1. Head(cache) \in Entries
        BY <1>2, Queues DEF Execute, CacheOK
      <4>2. executed \in Seq(Commands) /\ Head(cache).of \in Commands
        BY <4>1 DEF Entries, HistoryOK
      <4>3. executed' = IF Head(cache).last THEN Append(executed, Head(cache).of) ELSE executed
        BY <1>2, <2>1, <2>3 DEF Execute
      <4>. HIDE Words, Nothing, BoundsAssumption
      <4>. QED
        BY <4>2, <4>3
    <3>5. End' = End /\ Due' = Due /\ Stops' = Stops
      BY <1>2 DEF Execute, End, Due, Stops, Before
    <3>6. Aligned'
      BY <1>2, <3>1, <3>3, <3>4, <3>5 DEF Execute, Aligned
    <3>. QED
      BY <3>3, <3>4, <3>6
  <2>4. ASSUME Controlled, leftover > 0, Here'
        PROVE  Aligned'
    <3>1. /\ pc = "poll" /\ get = realPull /\ realPull \in Commands /\ leftover = Len(cache)
          /\ executed = <<>> /\ passed = <<>> /\ leftover' = leftover - 1 /\ leftover' = 0
          /\ UNCHANGED <<get, left, pc, realPull, executed, passed>> /\ ~Tracing'
      BY <1>2, <2>1, <2>4 DEF Execute, SettledOK, InStepOK, CommandOK, Here, CacheOK
    <3>2. cache' = <<>>
      <4>1. Len(cache) = 1 /\ cache' = Tail(cache)
        BY <1>2, <2>1, <3>1 DEF Execute
      <4>. QED
        BY <2>1, <4>1
    <3>3. left = 0 /\ get + left = get
      BY <3>1, BetweenCommands
    <3>4. End' = get /\ Due' = 0
      BY <3>1 DEF End, Due
    <3>5. Ahead(0, get, get, 0, <<>>, Stops') /\ Queued(<<>>, 0, 0, <<>>)
      <4>1. <<>> \in Seq(Commands) /\ 0 \in 0..Len(<<>>)
        OBVIOUS
      <4>. QED
        BY <3>1, <4>1, AheadHere, QueueEmpty
    <3>6. Len(executed') = 0 /\ Len(passed') = 0 /\ 0 \in 0..Len(passed')
      BY <3>1
    <3>. QED
      BY <3>1, <3>2, <3>3, <3>4, <3>5, <3>6 DEF Aligned
  <2>5. Here' => Aligned'
    <3>1. Here' => Controlled
      BY <1>2 DEF Execute, PlacesOK, Here
    <3>2. leftover = 0 \/ leftover > 0
      BY DEF CacheOK
    <3>. QED
      BY <2>3, <2>4, <3>1, <3>2
  <2>6. PrefixOK'
    <3>. SUFFICES ASSUME Controlled'
                  PROVE  /\ Len(executed') <= Len(passed')
                         /\ \A i \in 1..Len(executed') : executed'[i] = passed'[i]
      BY DEF PrefixOK
    <3>1. Controlled /\ passed' = passed
      BY <1>2 DEF Execute
    <3>4. CASE leftover # 0
      <4>1. executed' = executed
        BY <1>2, <3>4 DEF Execute
      <4>. QED
        BY <3>1, <4>1 DEF PrefixOK
    <3>. SUFFICES ASSUME leftover = 0
                  PROVE  /\ Len(executed') <= Len(passed')
                         /\ \A i \in 1..Len(executed') : executed'[i] = passed'[i]
      BY <3>4
    <3>2. Len(executed') <= Len(passed)
      BY <2>1, <2>3, <3>1
    <3>3. ASSUME NEW i \in 1..Len(executed') PROVE executed'[i] = passed[i]
      <4>1. CASE i <= Len(executed)
        <5>1. executed'[i] = executed[i]
          BY <2>3, <3>1, <4>1
        <5>2. i \in 1..Len(executed)
          <6>1. executed \in Seq(Commands)
            BY DEF HistoryOK
          <6>. QED
            BY <4>1, <6>1
        <5>. QED
          BY <3>1, <5>1, <5>2 DEF PrefixOK
      <4>2. CASE ~(i <= Len(executed))
        <5>1. i = Len(executed) + 1
          BY <2>1, <2>3, <3>1, <4>2
        <5>. QED
          BY <2>3, <3>1, <4>2, <5>1
      <4>. QED
        BY <4>1, <4>2
    <3>. QED
      BY <3>1, <3>2, <3>3
  <2>7. SettledOK'
    <3>1. cache # <<>> /\ Len(cache') = Len(cache) - 1 /\ Len(cache) \in Nat /\ leftover \in Nat
          /\ leftover' = (IF leftover > 0 THEN leftover - 1 ELSE 0)
      BY <1>2, <2>1 DEF Execute, CacheOK
    <3>2. leftover > 0 => executed' = executed
      BY <1>2 DEF Execute
    <3>3. /\ UNCHANGED <<pc, pusher, looked, put, realPush, realPull, get, run, pull, push, queued,
                         state, passed, valid, target>>
          /\ IsEmpty' = IsEmpty
      BY <1>2 DEF Execute, IsEmpty
    <3>4. Controlled' = Controlled /\ Tracing' = Tracing /\ At("verify")' = At("verify")
      BY <3>3
    <3>. HIDE DEF Controlled, Tracing, At
    <3>5. (Tracing \/ state = "IDLE_NEW_FRAME") => leftover = 0
      BY DEF SettledOK
    <3>. QED
      BY <3>1, <3>2, <3>3, <3>4, <3>5 DEF SettledOK
  <2>8. InStepOK' /\ LoggedOK'
    BY <1>2 DEF Execute, SettledOK, InStepOK, InStep, PlacesOK, CommandOK, RegistersOK,
           IsEmpty, Unchanged, TooLong, IterationOK, LoggedOK, discard
  <2>. QED
    BY <2>5, <2>6, <2>8, <2>7 DEF Kept
<1>3. CASE GameWrites
  <2>1. put' \in Commands
    <3>1. written + 1 \in DOMAIN Puts
      BY <1>3 DEF GameWrites, RegistersOK
    <3>. QED
      BY <1>3, <3>1, ProgramAssumption DEF GameWrites
  <2>2. SettledOK'
    BY <1>3, <2>1 DEF GameWrites, SettledOK, IsEmpty, Unchanged, TooLong
  <2>3. InStepOK' /\ LoggedOK' /\ PrefixOK' /\ (Here' => Same)
    <3>1. InStepOK'
      BY <1>3 DEF GameWrites, IsEmpty, TooLong, Unchanged, InStepOK,
             InStep, SettledOK, PlacesOK, CommandOK, IterationOK, LoggedOK, discard,
             PrefixOK
    <3>2. LoggedOK'
      BY <1>3 DEF GameWrites, IsEmpty, TooLong, Unchanged, InStepOK,
             InStep, SettledOK, PlacesOK, CommandOK, IterationOK, LoggedOK, discard,
             PrefixOK
    <3>3. PrefixOK'
      BY <1>3 DEF GameWrites, IsEmpty, TooLong, Unchanged, SettledOK,
             PlacesOK, CommandOK, IterationOK, PrefixOK
    <3>4. (Here' => Same)
      BY <1>3 DEF GameWrites, IsEmpty, TooLong, Unchanged, InStepOK,
             InStep, SettledOK, PlacesOK, CommandOK, IterationOK, LoggedOK, discard,
             PrefixOK, Same, Here, End, Due, Stops, Before
    <3>. QED
      BY <3>1, <3>2, <3>3, <3>4
  <2>. QED
    BY <2>1, <2>2, <2>3 DEF Kept
<1>. QED
  BY <1>1, <1>2, <1>3

\* What the debugger asks for.
LEMMA ClientQuiet ==
  ASSUME ~escaped', ThreadInv, ThreadInv', QuietInv,
         Detach \/ WaitBegins \/ (\E s \in Working : TraceBegins(s))
  PROVE  Kept
<1>. USE Words, Nothing, BoundsAssumption DEF QuietInv, ThreadInv, Goto, hardware, fifo,
         game, saved, trace, history, Tracing, At, RunPlaces, TracePlaces, WaitPlaces,
         Controlled, Working, Stable, Fatal, IsMethod, Positioned
<1>1. CASE Detach
  <2>1. SettledOK'
    BY <1>1 DEF Detach, SettledOK, InStepOK, InStep, PlacesOK, CommandOK, RegistersOK,
           IsEmpty, Unchanged, TooLong, IterationOK, LoggedOK, discard,
           PrefixOK
  <2>2. InStepOK'
    BY <1>1 DEF Detach, SettledOK, InStepOK, InStep, PlacesOK, CommandOK, RegistersOK,
           IsEmpty, Unchanged, TooLong, IterationOK, LoggedOK, discard,
           PrefixOK
  <2>3. LoggedOK'
    BY <1>1 DEF Detach, SettledOK, InStepOK, InStep, PlacesOK, CommandOK, RegistersOK,
           IsEmpty, Unchanged, TooLong, IterationOK, LoggedOK, discard,
           PrefixOK
  <2>4. PrefixOK'
    BY <1>1 DEF Detach, SettledOK, PlacesOK, CommandOK, RegistersOK, IsEmpty, Unchanged, TooLong, IterationOK, PrefixOK
  <2>5. (Here' => Same)
    BY <1>1 DEF Detach, SettledOK, InStepOK, InStep, PlacesOK, CommandOK, RegistersOK,
           IsEmpty, Unchanged, TooLong, IterationOK, LoggedOK, discard,
           PrefixOK, Same, Here, End, Due, Stops, Before
  <2>. QED
    BY <2>1, <2>2, <2>3, <2>4, <2>5 DEF Kept
<1>2. CASE WaitBegins
  BY <1>2 DEF Kept, WaitBegins, SettledOK, InStepOK, InStep, PlacesOK, CommandOK,
         RegistersOK, IsEmpty, Unchanged, TooLong, IterationOK, LoggedOK,
         discard, PrefixOK, Same, Here, End, Due, Stops, Before
<1>3. ASSUME NEW s \in Working, TraceBegins(s)
      PROVE  Kept
  <2>1. /\ Here /\ pc = "poll" /\ pc' = "trace_loop" /\ get = realPull /\ realPull \in Commands
        /\ pull' = realPull /\ UNCHANGED <<get, left, header, cache, executed, passed>>
    BY <1>3 DEF TraceBegins, Settled, InStepOK, CommandOK, CacheOK, Here
  <2>2. left = 0 /\ get + left = get
    BY <2>1, BetweenCommands
  <2>3. End = get /\ End' = get /\ Due = Len(passed) /\ Due' = Due
    BY <2>1 DEF End, Due
  <2>4. Aligned'
    BY <2>1, <2>2, <2>3, AheadArrived DEF AlignedOK, Aligned, HistoryOK
  <2>5. SettledOK' /\ InStepOK' /\ LoggedOK' /\ PrefixOK'
    BY <1>3 DEF TraceBegins, Settled, CacheOK, SettledOK, InStepOK, InStep, PlacesOK, CommandOK,
           RegistersOK, IsEmpty, Unchanged, TooLong, IterationOK,
           LoggedOK, discard, PrefixOK
  <2>. QED
    BY <2>1, <2>2, <2>3, <2>4, <2>5 DEF Kept
<1>. QED
  BY <1>1, <1>2, <1>3

\* WaitForStablePushBufferState.
LEMMA WaitQuiet ==
  ASSUME ~escaped', ThreadInv, ThreadInv', QuietInv,
         WaitDisables \/ WaitTimesOut \/ WaitFills \/ WaitDrains \/ WaitLooks \/
         WaitHides \/ WaitResumes \/ WaitSeesEmpty \/ WaitPauses \/ WaitAgain \/
         WaitSucceeds \/ WaitAborts
  PROVE  Kept
<1>. USE Words, Nothing, BoundsAssumption DEF QuietInv, ThreadInv, Goto, hardware, fifo,
         game, saved, trace, history, Tracing, At, RunPlaces, TracePlaces, WaitPlaces,
         Controlled, Working, Stable, Fatal, IsMethod, Positioned
<1>1. CASE WaitDisables
  BY <1>1 DEF Kept, WaitDisables, Switch, SetFifo, SettledOK, InStepOK, InStep,
         PlacesOK, CommandOK, RegistersOK, IsEmpty, Unchanged, TooLong,
         IterationOK, LoggedOK, discard, PrefixOK, Same, Here, End, Due, Stops, Before
<1>2. CASE WaitTimesOut
  BY <1>2 DEF Kept, WaitTimesOut, Look, SettledOK, InStepOK, InStep, PlacesOK,
         CommandOK, RegistersOK, IsEmpty, Unchanged, TooLong, IterationOK,
         LoggedOK, discard, PrefixOK, Same, Here, End, Due, Stops, Before
<1>3. CASE WaitFills
  BY <1>3 DEF Kept, WaitFills, Switch, SetFifo, SettledOK, InStepOK, InStep, PlacesOK,
         CommandOK, RegistersOK, IsEmpty, Unchanged, TooLong, IterationOK,
         LoggedOK, discard, PrefixOK, Same, Here, End, Due, Stops, Before
<1>4. CASE WaitDrains
  BY <1>4 DEF Kept, WaitDrains, Switch, SetFifo, SettledOK, InStepOK, InStep, PlacesOK,
         CommandOK, RegistersOK, IsEmpty, Unchanged, TooLong, IterationOK,
         LoggedOK, discard, PrefixOK, Same, Here, End, Due, Stops, Before
<1>5. CASE WaitLooks
  <2>1. SettledOK'
    BY <1>5 DEF WaitLooks, SettledOK, PlacesOK, PusherOK
  <2>2. InStepOK' /\ LoggedOK' /\ PrefixOK' /\ (Here' => Same)
    BY <1>5 DEF WaitLooks, InStepOK, InStep, SettledOK, PlacesOK, CommandOK,
           IterationOK, LoggedOK, discard, PrefixOK, Same, Here, End, Due, Stops, Before
  <2>. QED
    BY <2>1, <2>2 DEF Kept
<1>6. CASE WaitHides
  BY <1>6 DEF Kept, WaitHides, SettledOK, InStepOK, InStep, PlacesOK, CommandOK,
         RegistersOK, IsEmpty, Unchanged, TooLong, IterationOK, LoggedOK,
         discard, PrefixOK, Same, Here, End, Due, Stops, Before
<1>7. CASE WaitResumes
  BY <1>7 DEF Kept, WaitResumes, Switch, SetFifo, SettledOK, InStepOK, InStep, PlacesOK,
         CommandOK, RegistersOK, IsEmpty, Unchanged, TooLong, IterationOK,
         LoggedOK, discard, PrefixOK, Same, Here, End, Due, Stops, Before
<1>8. CASE WaitPauses
  BY <1>8 DEF Kept, WaitPauses, Switch, SetFifo, SettledOK, InStepOK, InStep, PlacesOK,
         CommandOK, RegistersOK, IsEmpty, Unchanged, TooLong, IterationOK,
         LoggedOK, discard, PrefixOK, Same, Here, End, Due, Stops, Before
<1>9. CASE WaitAgain
  BY <1>9 DEF Kept, WaitAgain, Look, SettledOK, InStepOK, InStep, PlacesOK, CommandOK,
         RegistersOK, IsEmpty, Unchanged, TooLong, IterationOK, LoggedOK,
         discard, PrefixOK, Same, Here, End, Due, Stops, Before
<1>10. CASE WaitSucceeds
  <2>1. /\ get = put /\ get = looked.at /\ get \in Commands /\ leftover' = Len(cache)
        /\ pc = "wait_check" /\ pc' = "poll" /\ realPull' = looked.at
        /\ UNCHANGED <<get, header, left, sub, cache, info>> /\ executed' = <<>> /\ passed' = <<>>
    BY <1>10 DEF WaitSucceeds, SaveDMAAddresses, SettledOK
  <2>2. left = 0 /\ get + left = get
    BY <2>1, BetweenCommands
  <2>3. End' = get /\ Due' = 0
    BY <2>1 DEF End, Due
  <2>4. Ahead(0, get, get, 0, <<>>, Stops') /\ Queued(<<>>, 0, 0, <<>>)
    <3>1. <<>> \in Seq(Commands) /\ 0 \in 0..Len(<<>>)
      OBVIOUS
    <3>2. Ahead(0, get, get, 0, <<>>, Stops')
      BY <2>1, <3>1, AheadHere
    <3>. QED
      BY <3>2, QueueEmpty
  <2>5. ASSUME Here' PROVE Aligned'
    <3>1. Len(executed') = 0 /\ Len(passed') = 0 /\ 0 \in 0..Len(passed')
      BY <2>1
    <3>2. cache = <<>>
      BY <2>1, <2>5 DEF Here, CacheOK
    <3>. QED
      BY <2>1, <2>2, <2>3, <2>4, <3>1, <3>2 DEF Aligned
  <2>6. SettledOK' /\ InStepOK' /\ LoggedOK' /\ PrefixOK'
    BY <1>10 DEF WaitSucceeds, SaveDMAAddresses, SettledOK, InStepOK, InStep, PlacesOK,
           CommandOK, RegistersOK, IsEmpty, Unchanged, TooLong,
           IterationOK, LoggedOK, discard, PrefixOK
  <2>. QED
    BY <2>1, <2>2, <2>3, <2>4, <2>5, <2>6 DEF Kept
<1>11. CASE WaitAborts
  BY <1>11 DEF Kept, WaitAborts, SaveDMAAddresses, SettledOK, InStepOK, InStep,
         PlacesOK, CommandOK, RegistersOK, IsEmpty, Unchanged, TooLong,
         IterationOK, LoggedOK, discard, PrefixOK, Same, Here, End, Due, Stops, Before
<1>12. CASE WaitSeesEmpty
  BY <1>12 DEF Kept, WaitSeesEmpty, Look, SettledOK, InStepOK, InStep, PlacesOK, CommandOK,
         RegistersOK, IsEmpty, Unchanged, TooLong, IterationOK, LoggedOK, discard, PrefixOK,
         Same, Here, End, Due, Stops, Before
<1>. QED
  BY <1>1, <1>2, <1>3, <1>4, <1>5, <1>6, <1>7, <1>8, <1>9, <1>10, <1>11, <1>12

\* RunFIFO.
LEMMA RunQuiet ==
  ASSUME ~escaped', ThreadInv, ThreadInv', QuietInv,
         RunEnters \/ RunDisables \/ RunHides \/ KickRefused \/ KickBegins \/ KickEnds
         \/ RunEnables \/ RunMoves \/ RunReturns
  PROVE  Kept
<1>. USE Words, Nothing, BoundsAssumption DEF QuietInv, ThreadInv, Goto, hardware, fifo,
         game, saved, trace, history, Tracing, At, RunPlaces, TracePlaces, WaitPlaces,
         Controlled, Working, Stable, Fatal, IsMethod, Positioned
<1>1. CASE RunEnters
  BY <1>1 DEF Kept, RunEnters, Exchange, SettledOK, InStepOK, InStep, PlacesOK,
         CommandOK, RegistersOK, IsEmpty, Unchanged, TooLong, IterationOK,
         LoggedOK, discard, PrefixOK, Same, Here, End, Due, Stops, Before
<1>2. CASE RunDisables
  BY <1>2 DEF Kept, RunDisables, Switch, SetFifo, SettledOK, InStepOK, InStep, PlacesOK,
         CommandOK, RegistersOK, IsEmpty, Unchanged, TooLong, IterationOK,
         LoggedOK, discard, PrefixOK, Same, Here, End, Due, Stops, Before
<1>3. CASE RunHides
  BY <1>3 DEF Kept, RunHides, Exchange, SettledOK, InStepOK, InStep, PlacesOK,
         CommandOK, RegistersOK, IsEmpty, Unchanged, TooLong, IterationOK,
         LoggedOK, discard, PrefixOK, Same, Here, End, Due, Stops, Before
<1>4. CASE KickRefused
  BY <1>4 DEF Kept, KickRefused, Look, SettledOK, InStepOK, InStep, PlacesOK, CommandOK,
         RegistersOK, IsEmpty, Unchanged, TooLong, IterationOK, LoggedOK,
         discard, PrefixOK, Same, Here, End, Due, Stops, Before
<1>5. CASE KickBegins
  BY <1>5 DEF Kept, KickBegins, Switch, SetFifo, SettledOK, InStepOK, InStep, PlacesOK,
         CommandOK, RegistersOK, IsEmpty, Unchanged, TooLong, IterationOK,
         LoggedOK, discard, PrefixOK, Same, Here, End, Due, Stops, Before
<1>6. CASE KickEnds
  BY <1>6 DEF Kept, KickEnds, Switch, SetFifo, SettledOK, InStepOK, InStep, PlacesOK,
         CommandOK, RegistersOK, IsEmpty, Unchanged, TooLong, IterationOK,
         LoggedOK, discard, PrefixOK, Same, Here, End, Due, Stops, Before
<1>7. CASE RunEnables
  BY <1>7 DEF Kept, RunEnables, Switch, SetFifo, SettledOK, InStepOK, InStep, PlacesOK,
         CommandOK, RegistersOK, IsEmpty, Unchanged, TooLong, IterationOK,
         LoggedOK, discard, PrefixOK, Same, Here, End, Due, Stops, Before
<1>8. CASE RunMoves
  BY <1>8 DEF Kept, RunMoves, SettledOK, InStepOK, InStep, PlacesOK, CommandOK,
         RegistersOK, IsEmpty, Unchanged, TooLong, IterationOK, LoggedOK,
         discard, PrefixOK, Same, Here, End, Due, Stops, Before
<1>9. CASE RunReturns
  <2>1. /\ pc = "run_loop" /\ pc' = run.then /\ realPull = get /\ run.to = get
        /\ pc' \in {"pre_callback", "post_callback", "verify"}
        /\ UNCHANGED <<get, left, header, cache, executed, passed, info, pull>>
    BY <1>9 DEF RunReturns, SettledOK, CommandOK
  <2>2. run.to = End /\ End' = End /\ Due' = Due /\ Here
    BY <2>1 DEF End, Due, CommandOK, Before, Here
  <2>3. get \in Commands
    <3>1. pull \in Commands
      BY <2>1 DEF CommandOK
    <3>2. run.then = "post_callback" => info.next \in Commands
      BY <2>1, <3>1, MethodWords DEF CommandOK
    <3>. QED
      BY <2>1, <3>1, <3>2 DEF CommandOK
  <2>4. left = 0 /\ get + left = get
    BY <2>3, BetweenCommands
  <2>5. Aligned'
    BY <2>1, <2>2, <2>4, AheadArrived DEF AlignedOK, Aligned, HistoryOK
  <2>6. SettledOK' /\ InStepOK' /\ LoggedOK' /\ PrefixOK'
    <3>1. SettledOK'
      BY <1>9 DEF RunReturns, Exchange, SettledOK, InStepOK, InStep, PlacesOK,
             CommandOK, RegistersOK, IsEmpty, Unchanged, TooLong,
             IterationOK, LoggedOK, discard, PrefixOK
    <3>2. InStepOK'
      BY <1>9 DEF RunReturns, Exchange, SettledOK, InStepOK, InStep, PlacesOK,
             CommandOK, RegistersOK, IsEmpty, Unchanged, TooLong,
             IterationOK, LoggedOK, discard, PrefixOK
    <3>3. LoggedOK'
      BY <1>9 DEF RunReturns, Exchange, SettledOK, InStepOK, InStep, PlacesOK,
             CommandOK, RegistersOK, IsEmpty, Unchanged, TooLong,
             IterationOK, LoggedOK, discard, PrefixOK
    <3>4. PrefixOK'
      BY <1>9 DEF RunReturns, Exchange, SettledOK, PlacesOK, CommandOK, RegistersOK,
             IsEmpty, Unchanged, TooLong, IterationOK, PrefixOK
    <3>. QED
      BY <3>1, <3>2, <3>3, <3>4
  <2>. QED
    BY <2>1, <2>2, <2>3, <2>4, <2>5, <2>6 DEF Kept
<1>. QED
  BY <1>1, <1>2, <1>3, <1>4, <1>5, <1>6, <1>7, <1>8, <1>9

\* Processing a command.
LEMMA ParseQuiet ==
  ASSUME ~escaped', ThreadInv, ThreadInv', QuietInv,
         ProcessNothing \/ ProcessBranch \/ ProcessMethod \/ PreCallback \/ PostCallback
         \/ Judge
  PROVE  Kept
<1>. USE Words, Nothing, BoundsAssumption DEF QuietInv, ThreadInv, Goto, hardware, fifo,
         game, saved, trace, history, Tracing, At, RunPlaces, TracePlaces, WaitPlaces,
         Controlled, Working, Stable, Fatal, IsMethod, Positioned
<1>1. CASE ProcessNothing
  BY <1>1 DEF Kept, ProcessNothing, Process, SettledOK, InStepOK, InStep, PlacesOK,
         CommandOK, RegistersOK, IsEmpty, Unchanged, TooLong, IterationOK,
         LoggedOK, discard, PrefixOK, Same, Here, End, Due, Stops, Before
<1>2. CASE ProcessBranch
  <2>1. /\ pc = "trace_loop" /\ pc' = "parsed" /\ pull \in Commands /\ pull # realPush
        /\ ~IsMethod(pull) /\ Parse(pull) \in Commands /\ realPush \in Commands
        /\ pull' = Parse(pull) /\ queued' = queued + 1
        /\ UNCHANGED <<get, left, header, cache, executed, passed, realPush>>
    BY <1>2 DEF ProcessBranch, Process, CommandOK, SettledOK, PlacesOK
  <2>2. InStepOK'
    BY <2>1 DEF InStepOK, InStep, TraceOK
  <2>3. Weight(pull) = 0 /\ Len(passed) \in Nat /\ Len(passed) + Weight(pull) = Len(passed)
        /\ passed \in Seq(Commands)
    BY <2>1 DEF Weight, HistoryOK
  <2>4. /\ Here /\ End = pull /\ Due = Len(passed) /\ Stops = {realPush}
        /\ End' = Parse(pull) /\ Due' = Len(passed) /\ Stops' = {realPush}
    BY <2>1 DEF End, Due, Stops, Here
  <2>5. PICK n \in 0..Len(passed) :
          /\ Ahead(n, get + left, pull, Len(passed), passed, {realPush})
          /\ left > 0 => n > 0 /\ passed[n] = header
          /\ Queued(cache, Len(executed), IF left > 0 THEN n - 1 ELSE n, passed)
    BY <2>4 DEF AlignedOK, Aligned
  <2>6. Ahead(n, get + left, Parse(pull), Len(passed), passed, {realPush})
    BY <2>1, <2>3, <2>5, AheadExtend
  <2>7. Aligned'
    BY <2>1, <2>4, <2>5, <2>6 DEF Aligned
  <2>8. SettledOK' /\ LoggedOK' /\ PrefixOK'
    BY <1>2 DEF ProcessBranch, Process, SettledOK, InStepOK, InStep, PlacesOK,
           CommandOK, RegistersOK, IsEmpty, Unchanged, TooLong, LoggedOK,
           IterationOK, discard, PrefixOK
  <2>. QED
    BY <2>1, <2>2, <2>3, <2>4, <2>5, <2>6, <2>7, <2>8 DEF Kept
<1>3. CASE ProcessMethod
  <2>. DEFINE w == Weight(pull)
              d == Len(passed)
  <2>1. /\ pc = "trace_loop" /\ pull \in Commands /\ pull # realPush
        /\ IsMethod(pull) /\ realPush \in Commands
        /\ info'.from = pull /\ info'.next = Parse(pull)
        /\ passed' = IF Program[pull].count = 0 THEN passed ELSE Append(passed, pull)
        /\ UNCHANGED <<get, left, header, cache, executed, realPush>>
    BY <1>3 DEF ProcessMethod, Process, CommandOK, SettledOK, PlacesOK
  <2>2. /\ Parse(pull) \in Commands /\ Program[pull].count \in Nat /\ passed \in Seq(Commands)
        /\ d \in Nat /\ Parse(pull) - pull \in Nat /\ Parse(pull) > pull
    BY <2>1, MethodWords DEF HistoryOK
  <2>3. \/ pc' = "run_enter" /\ run'.then = "pre_callback" /\ pull' = pull
        \/ pc' = "run_enter" /\ run'.then = "post_callback" /\ pull' = pull
        \/ pc' = "parsed" /\ pull' = Parse(pull) /\ queued' = queued + Parse(pull) - pull
    BY <1>3 DEF ProcessMethod, Call
  <2>4. InStepOK'
    <3>1. CASE pc' = "run_enter"
      BY <3>1 DEF InStepOK
    <3>2. CASE pc' = "parsed"
      <4>1. queued' # 0
        <5>1. queued \in Nat /\ pull \in Nat /\ Parse(pull) \in Nat
          BY <2>1, <2>2 DEF TraceOK
        <5>2. queued' = queued + Parse(pull) - pull
          BY <2>3, <3>2
        <5>. QED
          BY <2>2, <5>1, <5>2
      <4>. QED
        BY <3>2, <4>1 DEF InStepOK, InStep
    <3>. QED
      BY <2>3, <3>1, <3>2
  <2>5. /\ passed' \in Seq(Commands) /\ Len(passed') = d + w /\ w \in {0, 1}
        /\ w = 1 => passed' = Append(passed, pull) /\ passed'[d + 1] = pull
        /\ w = 0 => passed' = passed
        /\ \A i \in 1..d : passed'[i] = passed[i]
        /\ (w = 0 <=> Program[pull].count = 0)
    <3>1. passed' = IF Program[pull].count = 0 THEN passed ELSE Append(passed, pull)
      BY <2>1
    <3>2. w = IF Program[pull].count = 0 THEN 0 ELSE 1
      BY <2>1, <2>2 DEF Weight
    <3>. HIDE Words, Nothing, BoundsAssumption
    <3>3. CASE Program[pull].count = 0
      BY <2>2, <3>1, <3>2, <3>3
    <3>4. CASE Program[pull].count # 0
      <4>1. passed' = Append(passed, pull) /\ w = 1
        BY <3>1, <3>2, <3>4
      <4>. HIDE DEF w
      <4>. QED
        BY <2>1, <2>2, <3>4, <4>1
    <3>. QED
      BY <3>3, <3>4
  <2>6. Here /\ End = pull /\ Due = d /\ Stops = {realPush}
    BY <2>1 DEF End, Due, Stops, Here
  <2>7. PICK n \in 0..d :
          /\ Ahead(n, get + left, pull, d, passed, {realPush})
          /\ left > 0 => n > 0 /\ passed[n] = header
          /\ Queued(cache, Len(executed), IF left > 0 THEN n - 1 ELSE n, passed)
    BY <2>6 DEF AlignedOK, Aligned
  <2>8. /\ n \in 0..Len(passed')
        /\ Ahead(n, get + left, pull, d, passed', {realPush})
        /\ left > 0 => n > 0 /\ passed'[n] = header
        /\ Queued(cache, Len(executed), IF left > 0 THEN n - 1 ELSE n, passed')
    <3>1. Ahead(n, get + left, pull, d, passed', {realPush})
      BY <2>1, <2>2, <2>5, <2>7, AheadGrow
    <3>2. Queued(cache, Len(executed), IF left > 0 THEN n - 1 ELSE n, passed')
      BY <2>1, <2>2, <2>5, <2>7, QueueGrow DEF CacheOK
    <3>. QED
      BY <2>2, <2>5, <2>7, <3>1, <3>2
  <2>. HIDE DEF d
  <2>9. Ahead(n, get + left, Parse(pull), d + w, passed', {realPush})
    <3>1. d + Weight(pull) <= Len(passed') /\ (Weight(pull) = 1 => passed'[d + 1] = pull)
      BY <2>2, <2>5
    <3>. QED
      BY <2>1, <2>2, <2>5, <2>8, <3>1, AheadExtend
  <2>. HIDE DEF w
  <2>10. Aligned'
    <3>1. CASE pc' = "run_enter" /\ run'.then = "pre_callback" /\ pull' = pull
      <4>1. End' = pull /\ Stops' = {}
        BY <3>1 DEF End, Stops
      <4>2. Due' = d
        <5>1. Due' = IF Program[pull].count = 0 THEN Len(passed') ELSE Len(passed') - 1
          BY <2>1, <3>1 DEF Due, Before
        <5>. QED
          BY <2>2, <2>5, <5>1
      <4>3. Ahead(n, get + left, pull, d, passed', {})
        BY <2>8, AheadRelax
      <4>. QED
        BY <2>1, <2>8, <4>1, <4>2, <4>3 DEF Aligned
    <3>2. CASE pc' = "run_enter" /\ run'.then = "post_callback" /\ pull' = pull
      <4>1. End' = Parse(pull) /\ Stops' = {} /\ Due' = d + w
        BY <2>1, <2>5, <3>2 DEF End, Stops, Due
      <4>2. Ahead(n, get + left, Parse(pull), d + w, passed', {})
        BY <2>9, AheadRelax
      <4>. QED
        BY <2>1, <2>8, <4>1, <4>2 DEF Aligned
    <3>3. CASE pc' = "parsed" /\ pull' = Parse(pull)
      <4>1. End' = Parse(pull) /\ Stops' = {realPush} /\ Due' = d + w
        BY <2>1, <2>5, <3>3 DEF End, Stops, Due
      <4>. QED
        BY <2>1, <2>8, <2>9, <4>1 DEF Aligned
    <3>. QED
      BY <2>3, <3>1, <3>2, <3>3
  <2>11. LoggedOK'
    <3>1. info = NoInfo /\ traced = logged /\ logged' = logged /\ working' = working
          /\ traced' = (IF discard THEN traced ELSE Append(traced, pull)) /\ info'.valid
      BY <1>3, <2>1 DEF ProcessMethod, LoggedOK, IterationOK
    <3>2. Weight(info'.from) = 1 => passed' # <<>> /\ passed'[Len(passed')] = pull
      <4>1. info'.from = pull /\ Weight(pull) = w
        BY <2>1 DEF w
      <4>2. w = 1 => Len(passed') = d + 1 /\ passed'[d + 1] = pull /\ d + 1 > 0
        BY <2>2, <2>5
      <4>. QED
        BY <2>5, <4>1, <4>2
    <3>. QED
      BY <2>1, <2>3, <3>1, <3>2 DEF LoggedOK, discard
  <2>12. PrefixOK'
    <3>1. executed' = executed /\ Controlled' = Controlled
      BY <1>3 DEF ProcessMethod
    <3>2. Len(executed) \in Nat
      <4>1. executed \in Seq(Commands)
        BY DEF HistoryOK
      <4>. QED
        BY <4>1
    <3>. QED
      BY <2>2, <2>5, <3>1, <3>2 DEF PrefixOK, d
  <2>13. SettledOK'
    <3>1. UNCHANGED <<pusher, cache, put, realPush>>
      BY <1>3 DEF ProcessMethod
    <3>2. ~pusher /\ cache = <<>> /\ put \in Commands /\ realPush \in Commands /\ leftover = 0
      BY <2>1 DEF SettledOK, PlacesOK
    <3>3. pc' = "parsed" \/ (pc' = "run_enter" /\ run'.then \in {"pre_callback", "post_callback"})
      BY <2>3
    <3>4. leftover' = 0
      BY <1>3, <3>2 DEF ProcessMethod
    <3>. QED
      BY <3>1, <3>2, <3>3, <3>4 DEF SettledOK
  <2>. QED
    BY <2>1, <2>2, <2>3, <2>4, <2>5, <2>6, <2>7, <2>8, <2>9, <2>10, <2>11, <2>12, <2>13 DEF Kept
<1>4. CASE PreCallback
  <2>1. /\ pc = "pre_callback" /\ pc' = "run_enter" /\ run'.then = "post_callback"
        /\ pull \in Commands /\ pull # realPush /\ IsMethod(pull) /\ realPush \in Commands
        /\ info.next = Parse(pull) /\ info.from = pull
        /\ UNCHANGED <<get, left, header, cache, executed, passed, realPush, info>>
    BY <1>4 DEF PreCallback, Call, CommandOK, SettledOK, PlacesOK
  <2>2. Parse(pull) \in Commands /\ Program[pull].count \in Nat /\ passed \in Seq(Commands)
        /\ Len(passed) \in Nat
    BY <2>1, MethodWords DEF HistoryOK
  <2>3. /\ Before \in Nat /\ Before + Weight(pull) = Len(passed)
        /\ Weight(pull) = 1 => passed[Before + 1] = pull
    <3>1. CASE Program[pull].count = 0
      BY <2>1, <2>2, <3>1 DEF Before, Weight
    <3>2. CASE Program[pull].count > 0
      <4>1. Weight(pull) = 1 /\ Before = Len(passed) - 1
        BY <2>1, <3>2 DEF Before, Weight
      <4>2. passed # <<>> /\ passed[Len(passed)] = pull
        BY <2>1, <4>1 DEF LoggedOK
      <4>3. Len(passed) > 0
        BY <2>2, <4>2
      <4>. QED
        BY <2>2, <4>1, <4>2, <4>3
    <3>. QED
      BY <2>2, <3>1, <3>2
  <2>4. /\ Here /\ End = pull /\ Due = Before /\ Stops = {realPush}
        /\ End' = Parse(pull) /\ Due' = Len(passed) /\ Stops' = {}
    BY <2>1 DEF End, Due, Stops, Here
  <2>5. PICK n \in 0..Len(passed) :
          /\ Ahead(n, get + left, pull, Before, passed, {realPush})
          /\ left > 0 => n > 0 /\ passed[n] = header
          /\ Queued(cache, Len(executed), IF left > 0 THEN n - 1 ELSE n, passed)
    BY <2>4 DEF AlignedOK, Aligned
  <2>6. Ahead(n, get + left, Parse(pull), Len(passed), passed, {realPush})
    <3>1. Before + Weight(pull) <= Len(passed)
      BY <2>2, <2>3
    <3>2. Ahead(n, get + left, Parse(pull), Before + Weight(pull), passed, {realPush})
      BY <2>1, <2>2, <2>3, <2>5, <3>1, AheadExtend
    <3>. QED
      BY <2>3, <3>2
  <2>7. Ahead(n, get + left, Parse(pull), Len(passed), passed, {})
    BY <2>6, AheadRelax
  <2>8. Aligned'
    BY <2>1, <2>4, <2>5, <2>7 DEF Aligned
  <2>9. SettledOK' /\ InStepOK' /\ LoggedOK' /\ PrefixOK'
    BY <1>4 DEF PreCallback, Call, SettledOK, InStepOK, InStep, PlacesOK, CommandOK,
           RegistersOK, IsEmpty, Unchanged, TooLong, IterationOK,
           LoggedOK, discard, PrefixOK
  <2>. QED
    BY <2>1, <2>2, <2>3, <2>4, <2>5, <2>6, <2>7, <2>8, <2>9 DEF Kept
<1>5. CASE PostCallback
  BY <1>5 DEF Kept, PostCallback, SettledOK, InStepOK, InStep, PlacesOK, CommandOK,
         RegistersOK, IsEmpty, Unchanged, TooLong, IterationOK, LoggedOK,
         discard, PrefixOK, Same, Here, End, Due, Stops, Before
<1>6. CASE Judge
  <2>1. SettledOK'
    BY <1>6 DEF Judge, Call, SettledOK, InStepOK, InStep, PlacesOK, CommandOK, RegistersOK,
             IsEmpty, Unchanged, TooLong
  <2>2. InStepOK'
    BY <1>6 DEF Judge, Call, InStepOK, InStep, PlacesOK
  <2>3. LoggedOK' /\ PrefixOK' /\ (Here' => Same)
    <3>1. LoggedOK'
      BY <1>6 DEF Judge, Call, LoggedOK, PlacesOK, CommandOK, IterationOK, discard,
             PrefixOK, SettledOK
    <3>2. PrefixOK'
      BY <1>6 DEF Judge, Call, PlacesOK, CommandOK, IterationOK, PrefixOK, SettledOK
    <3>3. (Here' => Same)
      BY <1>6 DEF Judge, Call, LoggedOK, PlacesOK, CommandOK, IterationOK, discard,
             PrefixOK, SettledOK, Same, Here, End, Due, Stops, Before
    <3>. QED
      BY <3>1, <3>2, <3>3
  <2>. QED
    BY <2>1, <2>2, <2>3 DEF Kept
<1>. QED
  BY <1>1, <1>2, <1>3, <1>4, <1>5, <1>6

\* The end of an iteration and of the trace.
LEMMA IterateQuiet ==
  ASSUME ~escaped', ThreadInv, ThreadInv', QuietInv,
         TraceStops \/ TraceFails \/ FrameEnds \/ IterateMore \/ IterateEmpty \/
         WorkaroundBegins \/ WorkaroundEnds \/ StallIsPermanent
  PROVE  Kept
<1>. USE Words, Nothing, BoundsAssumption DEF QuietInv, ThreadInv, Goto, hardware, fifo,
         game, saved, trace, history, Tracing, At, RunPlaces, TracePlaces, WaitPlaces,
         Controlled, Working, Stable, Fatal, IsMethod, Positioned
<1>1. CASE TraceStops
  BY <1>1 DEF Kept, TraceStops, Finish, ForgetTrace, SettledOK, InStepOK, InStep,
         PlacesOK, CommandOK, RegistersOK, IsEmpty, Unchanged, TooLong,
         IterationOK, LoggedOK, discard, PrefixOK, Same, Here, End, Due, Stops, Before
<1>2. CASE TraceFails
  <2>1. SettledOK'
    BY <1>2 DEF TraceFails, FailsWith, Finish, InStep, Process, discard, ForgetTrace,
           SettledOK, InStepOK, PlacesOK, CommandOK, RegistersOK, IsEmpty, Unchanged, TooLong, IterationOK, LoggedOK, PrefixOK
  <2>2. InStepOK'
    BY <1>2 DEF TraceFails, FailsWith, Finish, InStep, Process, discard, ForgetTrace,
           SettledOK, InStepOK, PlacesOK, CommandOK, RegistersOK, IsEmpty, Unchanged, TooLong, IterationOK, LoggedOK, PrefixOK
  <2>3. LoggedOK'
    BY <1>2 DEF TraceFails, FailsWith, Finish, InStep, Process, discard, ForgetTrace,
           SettledOK, InStepOK, PlacesOK, CommandOK, RegistersOK, IsEmpty, Unchanged, TooLong, IterationOK, LoggedOK, PrefixOK
  <2>4. PrefixOK'
    <3>1. UNCHANGED <<executed, passed, valid, target>>
      BY <1>2 DEF TraceFails, Finish
    <3>. QED
      BY <3>1 DEF PrefixOK
  <2>5. (Here' => Same)
    BY <1>2 DEF TraceFails, FailsWith, Finish, InStep, Process, discard, ForgetTrace,
           SettledOK, InStepOK, PlacesOK, CommandOK, RegistersOK, IsEmpty, Unchanged, TooLong, IterationOK, LoggedOK, PrefixOK, Same, Here,
           End, Due, Stops, Before
  <2>. QED
    BY <2>1, <2>2, <2>3, <2>4, <2>5 DEF Kept
<1>3. CASE FrameEnds
  BY <1>3 DEF Kept, FrameEnds, Finish, InStep, LogCommand, ForgetTrace, discard,
         SettledOK, InStepOK, PlacesOK, CommandOK, RegistersOK, IsEmpty,
         Unchanged, TooLong, IterationOK, LoggedOK, PrefixOK, Same, Here, End, Due,
         Stops, Before
<1>4. CASE IterateMore
  BY <1>4 DEF Kept, IterateMore, IsEmpty, Iterate, InStep, LogCommand, SetFifo, discard,
         SettledOK, InStepOK, PlacesOK, CommandOK, RegistersOK, Unchanged,
         TooLong, IterationOK, LoggedOK, PrefixOK, Same, Here, End, Due, Stops, Before
<1>5. CASE IterateEmpty
  BY <1>5 DEF Kept, IterateEmpty, IsEmpty, Iterate, TooLong, Unchanged, InStep,
         LogCommand, SetFifo, discard, SettledOK, InStepOK, PlacesOK, CommandOK,
         RegistersOK, IterationOK, LoggedOK, PrefixOK, Same, Here, End,
         Due, Stops, Before
<1>6. CASE WorkaroundBegins
  BY <1>6 DEF Kept, WorkaroundBegins, IsEmpty, Iterate, TooLong, Unchanged, InStep,
         LogCommand, SetFifo, discard, SettledOK, InStepOK, PlacesOK, CommandOK,
         RegistersOK, IterationOK, LoggedOK, PrefixOK, Same, Here, End,
         Due, Stops, Before
<1>7. CASE WorkaroundEnds
  BY <1>7 DEF Kept, WorkaroundEnds, Switch, SetFifo, SettledOK, InStepOK, InStep,
         PlacesOK, CommandOK, RegistersOK, IsEmpty, Unchanged, TooLong,
         IterationOK, LoggedOK, discard, PrefixOK, Same, Here, End, Due, Stops, Before
<1>8. CASE StallIsPermanent
  BY <1>8 DEF Kept, StallIsPermanent, Finish, InStep, IsEmpty, LogCommand, TooLong,
         Unchanged, ForgetTrace, discard, SettledOK, InStepOK, PlacesOK, CommandOK,
         RegistersOK, IterationOK, LoggedOK, PrefixOK, Same, Here, End,
         Due, Stops, Before
<1>. QED
  BY <1>1, <1>2, <1>3, <1>4, <1>5, <1>6, <1>7, <1>8

\* Shutdown.
LEMMA ShutdownQuiet ==
  ASSUME ~escaped', ThreadInv, ThreadInv', QuietInv,
         ShutdownBegins \/ RestoreDMA \/ ShutdownEnds
  PROVE  Kept
<1>. USE Words, Nothing, BoundsAssumption DEF QuietInv, ThreadInv, Goto, hardware, fifo,
         game, saved, trace, history, Tracing, At, RunPlaces, TracePlaces, WaitPlaces,
         Controlled, Working, Stable, Fatal, IsMethod, Positioned
<1>1. CASE ShutdownBegins
  BY <1>1 DEF Kept, ShutdownBegins, Look, SettledOK, InStepOK, InStep, PlacesOK,
         CommandOK, RegistersOK, IsEmpty, Unchanged, TooLong, IterationOK,
         LoggedOK, discard, PrefixOK, Same, Here, End, Due, Stops, Before
<1>2. CASE RestoreDMA
  BY <1>2 DEF Kept, RestoreDMA, SettledOK, InStepOK, InStep, PlacesOK, CommandOK,
         RegistersOK, IsEmpty, Unchanged, TooLong, IterationOK, LoggedOK,
         discard, PrefixOK, Same, Here, End, Due, Stops, Before
<1>3. CASE ShutdownEnds
  BY <1>3 DEF Kept, ShutdownEnds, SetFifo, SettledOK, InStepOK, InStep, PlacesOK,
         CommandOK, RegistersOK, IsEmpty, Unchanged, TooLong, IterationOK,
         LoggedOK, discard, PrefixOK, Same, Here, End, Due, Stops, Before
<1>. QED
  BY <1>1, <1>2, <1>3

\* It holds at the start.
LEMMA QuietInit == Init => QuietInv
<1>. SUFFICES ASSUME Init PROVE QuietInv
  OBVIOUS
<1>. USE DEF Init, Tracing, At, RunPlaces, TracePlaces, WaitPlaces, Controlled
<1>1. Puts[1] \in Commands
  BY ProgramAssumption
<1>2. SettledOK
  BY <1>1 DEF SettledOK
<1>3. InStepOK /\ LoggedOK /\ PrefixOK
  BY DEF InStepOK, LoggedOK, PrefixOK, Stable
<1>4. AlignedOK
  BY DEF AlignedOK, Here, Stable
<1>. QED
  BY <1>2, <1>3, <1>4 DEF QuietInv

\* An escape is never taken back.
LEMMA EscapeStays ==
  ASSUME [Next]_vars, escaped
  PROVE  escaped'
<1>. USE DEF hardware, Look, Switch
<1>1. CASE PushWord \/ Execute \/ GameWrites \/ UNCHANGED vars
  BY <1>1 DEF PushWord, Execute, GameWrites, vars
<1>2. CASE ClientStep
  BY <1>2 DEF ClientStep, Detach, WaitBegins, TraceBegins
<1>3. CASE WaitStep
  BY <1>3 DEF WaitStep, WaitDisables, WaitTimesOut, WaitFills, WaitDrains, WaitLooks,
         WaitHides, WaitResumes, WaitSeesEmpty, WaitPauses, WaitAgain, WaitSucceeds, WaitAborts
<1>4. CASE RunStep
  BY <1>4 DEF RunStep, RunEnters, RunDisables, RunHides, KickRefused, KickBegins, KickEnds,
         RunEnables, RunMoves, RunReturns
<1>5. CASE TraceStep
  BY <1>5 DEF TraceStep, TraceStops, TraceFails, ProcessNothing, ProcessBranch, ProcessMethod,
         PreCallback, PostCallback, Judge, FrameEnds, IterateMore, IterateEmpty,
         WorkaroundBegins, WorkaroundEnds, StallIsPermanent, Finish, Iterate
<1>6. CASE ShutdownBegins \/ RestoreDMA \/ ShutdownEnds
  BY <1>6 DEF ShutdownBegins, RestoreDMA, ShutdownEnds
<1>. QED
  BY <1>1, <1>2, <1>3, <1>4, <1>5, <1>6 DEF Next, TracerStep

LEMMA QuietStep ==
  ASSUME ~escaped', ThreadInv, ThreadInv', QuietInv, [Next]_vars
  PROVE  QuietInv'
<1>1. ASSUME Next PROVE Kept
  BY <1>1, GPUQuiet, ClientQuiet, WaitQuiet, RunQuiet, ParseQuiet, IterateQuiet, ShutdownQuiet
  DEF Next, ClientStep, WaitStep, RunStep, TraceStep, TracerStep
<1>2. ASSUME UNCHANGED vars PROVE Kept
  <2>. USE <1>2 DEF vars, hardware, fifo, game, saved, trace, history, QuietInv, Tracing, At,
                Controlled
  <2>1. SettledOK'
    BY DEF SettledOK, IsEmpty, Unchanged, TooLong
  <2>2. InStepOK' /\ LoggedOK' /\ PrefixOK'
    BY DEF InStepOK, InStep, LoggedOK, PrefixOK, discard
  <2>3. Here' => Same
    BY DEF Here, Same, End, Due, Stops, Before
  <2>. QED
    BY <2>1, <2>2, <2>3 DEF Kept
<1>3. Kept
  BY <1>1, <1>2
<1>. QED
  BY <1>3, AlignedKept DEF Kept, QuietInv

\* Whatever the game writes and when: it holds until the pusher moves in a stall
\* workaround, which is the one step that does not keep it.
THEOREM QuietInvariant == Spec => [](~escaped => QuietInv)
<1>1. /\ ThreadInv /\ ThreadInv' /\ (~escaped => QuietInv) /\ [Next]_vars
      => (~escaped' => QuietInv')
  BY QuietStep, EscapeStays
<1>. QED
  BY <1>1, QuietInit, ThreadInvariant, PTL DEF Spec

-----------------------------------------------------------------------------
(* What follows of it.                                                         *)

\* The tracer never lets the GPU past the parser: between the stable push buffer and the
\* shutdown PGRAPH executes the commands the parser has passed, in their order, none
\* twice and none left out, wherever the game moves DMA_PUT meanwhile, except that one
\* moved during a stall workaround may take the pusher along.
THEOREM NothingUntracedHolds == Spec => []NothingUntraced
<1>1. ThreadInv /\ (~escaped => QuietInv) => NothingUntraced
  <2>. SUFFICES ASSUME ThreadInv, QuietInv, Controlled
                PROVE  IsPrefix(executed, passed)
    BY DEF NothingUntraced
  <2>1. executed \in Seq(Commands) /\ passed \in Seq(Commands)
    BY DEF ThreadInv, HistoryOK
  <2>2. Len(executed) <= Len(passed) /\ \A i \in 1..Len(executed) : executed[i] = passed[i]
    BY DEF QuietInv, PrefixOK
  <2>3. SubSeq(executed, 1, Len(executed)) = SubSeq(passed, 1, Len(executed))
    BY <2>1, <2>2
  <2>. QED
    BY <2>2, <2>3 DEF IsPrefix
<1>. QED
  BY <1>1, QuietInvariant, ThreadInvariant, PTL

\* In a ring the GPU has executed everything that was passed when it is at the end of its
\* way with CACHE1 empty.
LEMMA AllExecuted ==
  ASSUME Ring, ThreadInv, QuietInv, Here, get = End, get \in Commands, cache = <<>>
  PROVE  left = 0 /\ Due \in 0..Len(passed) /\ executed = SubSeq(passed, 1, Due)
<1>1. left = 0 /\ get + left = get
  BY BetweenCommands DEF ThreadInv
<1>2. executed \in Seq(Commands) /\ passed \in Seq(Commands)
  BY DEF ThreadInv, HistoryOK
<1>3. PICK n \in 0..Len(passed) :
        Ahead(n, get, get, Due, passed, Stops) /\ Queued(<<>>, Len(executed), n, passed)
  BY <1>1 DEF QuietInv, AlignedOK, Aligned
<1>4. n = Due
  BY <1>2, <1>3, AheadArrived
<1>5. Len(executed) = n
  BY <1>2, <1>3, QueueEmpty
<1>6. \A i \in 1..Len(executed) : executed[i] = passed[i]
  BY DEF QuietInv, PrefixOK, Here, ThreadInv, PlacesOK
<1>7. executed = SubSeq(passed, 1, n)
  BY <1>2, <1>5, <1>6
<1>. QED
  BY <1>1, <1>4, <1>7

\* RunFIFO returns with the GPU where it was sent, its parameters taken and executed: a
\* pre-callback reads the state before its command, a post-callback the state after it,
\* and the check of the loop, that the GPU is at the parser, never fails; for a push buffer
\* that is a ring, and until the pusher moves in a stall workaround.
THEOREM CallbacksInStepHolds ==
  ASSUME Ring
  PROVE  Spec => []CallbacksInStep
<1>1. ThreadInv /\ (~escaped => QuietInv) => CallbacksInStep
  <2>. SUFFICES ASSUME ThreadInv, QuietInv PROVE CallbacksInStep
    BY DEF CallbacksInStep
  <2>. USE DEF Tracing, At, RunPlaces, TracePlaces, WaitPlaces
  <2>1. pc = "verify" => InStep
    BY DEF QuietInv, InStepOK
  <2>2. ASSUME pc \in {"pre_callback", "post_callback"}
        PROVE  /\ left = 0 /\ cache = <<>>
               /\ executed = IF pc = "pre_callback" THEN SubSeq(passed, 1, Before) ELSE passed
    <3>1. cache = <<>>
      BY <2>2 DEF QuietInv, SettledOK, ThreadInv, PlacesOK
    <3>2. pull \in Commands /\ info.next \in Commands
      BY <2>2, MethodWords DEF ThreadInv, CommandOK
    <3>3. Here /\ get = End /\ get \in Commands
      BY <2>2, <3>2 DEF Here, End, QuietInv, InStepOK
    <3>4. left = 0 /\ executed = SubSeq(passed, 1, Due)
      BY <3>1, <3>3, AllExecuted
    <3>5. passed \in Seq(Commands) /\ SubSeq(passed, 1, Len(passed)) = passed
      BY DEF ThreadInv, HistoryOK
    <3>6. Due = IF pc = "pre_callback" THEN Before ELSE Len(passed)
      BY <2>2 DEF Due
    <3>. QED
      BY <3>1, <3>4, <3>5, <3>6
  <2>. QED
    BY <2>1, <2>2 DEF CallbacksInStep
<1>. QED
  BY <1>1, QuietInvariant, ThreadInvariant, PTL

\* A frame request is answered with the GPU at the parser, all of the frame executed and
\* every command that was traced in the log, once and in order; for a push buffer that is
\* a ring, and until the pusher moves in a stall workaround.
THEOREM FrameCompleteHolds ==
  ASSUME Ring
  PROVE  Spec => []FrameComplete
<1>1. ThreadInv /\ (~escaped => QuietInv) => FrameComplete
  <2>. SUFFICES ASSUME ThreadInv, QuietInv, pc = "poll", state = "IDLE_NEW_FRAME"
                PROVE  executed = passed /\ logged = traced /\ get = realPull
    BY DEF FrameComplete
  <2>. USE DEF Tracing, At, RunPlaces, TracePlaces, WaitPlaces, Stable
  <2>1. Here /\ get = realPull /\ realPull \in Commands /\ logged = traced
    BY DEF Here, QuietInv, InStepOK, LoggedOK, SettledOK, ThreadInv, CommandOK
  <2>2. cache = <<>>
    BY DEF QuietInv, SettledOK, ThreadInv, PlacesOK, CacheOK
  <2>3. End = realPull /\ Due = Len(passed)
    BY DEF End, Due
  <2>4. executed = SubSeq(passed, 1, Len(passed))
    BY <2>1, <2>2, <2>3, AllExecuted
  <2>5. passed \in Seq(Commands) /\ SubSeq(passed, 1, Len(passed)) = passed
    BY DEF ThreadInv, HistoryOK
  <2>. QED
    BY <2>1, <2>4, <2>5
<1>. QED
  BY <1>1, QuietInvariant, ThreadInvariant, PTL

-----------------------------------------------------------------------------
(* The game's late writes.                                                     *)

\* The register shows the game's last write until the tracer exchanges it, and from
\* then on real_dma_push_addr has it; a register without a late write shows what the
\* tracer put there.
LateInv ==
  Controlled => IF late THEN \/ put = GamePut /\ put # target
                             \/ put = target /\ realPush = GamePut
                        ELSE put = target

Untouched == UNCHANGED <<put, written, late, realPush, target, valid>>

\* Most steps touch none of this.
LEMMA MostUntouched ==
  ASSUME \/ PushWord \/ Execute \/ ClientStep
         \/ WaitDisables \/ WaitTimesOut \/ WaitFills \/ WaitDrains \/ WaitLooks
         \/ WaitResumes \/ WaitSeesEmpty \/ WaitPauses \/ WaitAgain
         \/ RunDisables \/ KickRefused \/ KickBegins \/ KickEnds \/ RunEnables \/ RunMoves
         \/ TraceStep \/ ShutdownBegins \/ ShutdownEnds \/ UNCHANGED vars
  PROVE  Untouched
<1>. USE DEF Untouched, hardware, fifo, game, saved, trace, history, Look, Switch, SetFifo
<1>1. CASE PushWord \/ Execute \/ ClientStep \/ UNCHANGED vars
  BY <1>1 DEF PushWord, Execute, ClientStep, Detach, WaitBegins, TraceBegins, vars
<1>2. CASE \/ WaitDisables \/ WaitTimesOut \/ WaitFills \/ WaitDrains \/ WaitLooks
           \/ WaitResumes \/ WaitSeesEmpty \/ WaitPauses \/ WaitAgain
  BY <1>2 DEF WaitDisables, WaitTimesOut, WaitFills, WaitDrains, WaitLooks, WaitResumes,
         WaitSeesEmpty, WaitPauses, WaitAgain
<1>3. CASE RunDisables \/ KickRefused \/ KickBegins \/ KickEnds \/ RunEnables \/ RunMoves
  BY <1>3 DEF RunDisables, KickRefused, KickBegins, KickEnds, RunEnables, RunMoves
<1>4. CASE TraceStep
  <2>1. CASE TraceStops \/ TraceFails \/ FrameEnds \/ StallIsPermanent
    BY <2>1 DEF TraceStops, TraceFails, FrameEnds, StallIsPermanent, Finish
  <2>2. CASE \/ ProcessNothing \/ ProcessBranch \/ ProcessMethod \/ PreCallback
             \/ PostCallback \/ Judge
    BY <2>2 DEF ProcessNothing, ProcessBranch, ProcessMethod, PreCallback, PostCallback,
           Judge
  <2>3. CASE IterateMore \/ IterateEmpty \/ WorkaroundBegins \/ WorkaroundEnds
    BY <2>3 DEF IterateMore, IterateEmpty, WorkaroundBegins, WorkaroundEnds, Iterate
  <2>. QED
    BY <1>4, <2>1, <2>2, <2>3 DEF TraceStep
<1>5. CASE ShutdownBegins \/ ShutdownEnds
  BY <1>5 DEF ShutdownBegins, ShutdownEnds
<1>. QED
  BY <1>1, <1>2, <1>3, <1>4, <1>5

\* An exchange saves what the game has written, and nothing else.
LEMMA ExchangeKeeps ==
  ASSUME LateInv, Controlled, NEW to, Exchange(to), UNCHANGED <<written, late, valid>>
  PROVE  LateInv'
BY DEF LateInv, Controlled, Exchange, GamePut

LEMMA LateStep ==
  ASSUME ThreadInv, LateInv, [Next]_vars, [GameWrites /\ Controlled => put' # target]_vars
  PROVE  LateInv'
<1>1. ASSUME Untouched PROVE LateInv'
  BY <1>1 DEF Untouched, LateInv, Controlled, GamePut
<1>2. CASE GameWrites
  <2>1. written' # written
    BY <1>2, ProgramAssumption DEF GameWrites, ThreadInv, RegistersOK
  <2>2. Controlled => put' # target
    BY <1>2, <2>1 DEF vars, game
  <2>3. put' = Puts[written'] /\ late' = valid /\ target' = target /\ valid' = valid
    BY <1>2 DEF GameWrites, saved
  <2>. QED
    BY <2>2, <2>3 DEF LateInv, Controlled, GamePut
<1>3. CASE WaitHides
  BY <1>3 DEF WaitHides, Goto, saved, ThreadInv, PlacesOK, WaitPlaces, LateInv, Controlled
<1>4. CASE WaitSucceeds
  BY <1>4 DEF WaitSucceeds, LateInv, Controlled
<1>5. CASE WaitAborts
  BY <1>5 DEF WaitAborts, Goto, ThreadInv, PlacesOK, WaitPlaces, LateInv, Controlled
<1>6. CASE RunEnters \/ RunHides \/ RunReturns
  <2>1. Controlled
    BY <1>6 DEF RunEnters, RunHides, RunReturns, Goto, ThreadInv, PlacesOK, Tracing, RunPlaces
  <2>2. Exchange(run.to) /\ UNCHANGED <<written, late, valid>>
    BY <1>6 DEF RunEnters, RunHides, RunReturns, game
  <2>. QED
    BY <2>1, <2>2, ExchangeKeeps
<1>7. CASE RestoreDMA
  BY <1>7 DEF RestoreDMA, LateInv, Controlled
<1>. QED
  BY <1>1, <1>2, <1>3, <1>4, <1>5, <1>6, <1>7, MostUntouched
  DEF Next, WaitStep, RunStep, TracerStep

\* Whatever the game writes to DMA_PUT while the tracer owns it is in the register or in
\* real_dma_push_addr, from where the shutdown puts it back, as long as no write of the
\* game repeats the tracer's own.
THEOREM LateWritesKeptHolds == Spec /\ FreshWrites => []LateWritesKept
<1>1. Init => LateInv
  BY DEF Init, LateInv, Controlled
<1>2. /\ ThreadInv /\ LateInv /\ [Next]_vars /\ [GameWrites /\ Controlled => put' # target]_vars
      => LateInv'
  BY LateStep
<1>3. LateInv => LateWritesKept
  BY DEF LateInv, LateWritesKept
<1>. QED
  BY <1>1, <1>2, <1>3, ThreadInvariant, PTL DEF Spec, FreshWrites
=============================================================================
