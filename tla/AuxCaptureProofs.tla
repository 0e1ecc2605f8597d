-------------------------- MODULE AuxCaptureProofs --------------------------
(* For every set of captures, every number of texture stages and layers and    *)
(* every bound: the records and the packets of a trace belong together.         *)
EXTENDS AuxCapture, FiniteSetTheorems, TLAPS

Active == pc \in {"pre", "pre_store", "post", "post_store", "log"}

Kinds   == SurfaceKinds \cup {"pgraph", "pfb", "texture"}
Whats   == [type : Kinds, stage : Nat, layer : Nat]
Records == [packet : Nat, draw : Nat, dump : Nat, what : Whats]
Packets == [packet : Nat, draw : Nat, dump : Nat, op : Ops \cup {NoOp}]
Infos   == [packet : Nat, draw : Nat, dump : Nat, method : Methods \cup {NoMethod},
            op : Ops \cup {NoOp}]

TypesOK ==
  /\ config \in SUBSET Captures /\ hasBuffer = (config # {})
  /\ working \in BOOLEAN /\ discard \in BOOLEAN
  /\ pc \in {"idle", "loop", "pre", "pre_store", "post", "post_store", "log", "failed"}
  /\ index \in 0..MaxPackets /\ stage \in 0..Stages /\ failures \in 0..MaxFailures
  /\ ctx \in [draw : Nat, dump : Nat] /\ info \in Infos
  /\ todo \in Seq(Whats) /\ stored \in Seq(Records) /\ logged \in Seq(Packets)

\* The packet is there while its callbacks run, and only those of a draw, a clear or a
\* release have any.
PlacesOK ==
  /\ IF Active THEN info.packet = index /\ index > 0 ELSE info = NoInfo
  /\ pc \in {"pre", "pre_store"} => info.method = "begin_end" /\ ~discard
  /\ pc \in {"post", "post_store"} => info.method \in {"begin_end", "dump"} /\ ~discard
  /\ info.op # NoOp => info.method = "begin_end"
  /\ pc \notin {"pre_store", "post_store"} => todo = <<>>
  /\ pc # "pre_store" => stage = Stages

\* The counters are those of the packet until its last callback.
CountersOK ==
  /\ ctx.draw <= index /\ ctx.dump <= index
  /\ Active => info.draw < index /\ info.dump < index
  /\ pc \in {"pre", "pre_store", "post"} => ctx.draw = info.draw /\ ctx.dump = info.dump

\* What is left to store is wanted, is stored once, and is counted if it is a surface.
TodoOK ==
  /\ todo # <<>> \/ stage # Stages => config # {}
  /\ \A i \in DOMAIN todo :
       /\ pc = "pre_store" => todo[i].type = "texture" /\ todo[i].stage = stage
       /\ pc = "post_store" => todo[i].type # "texture"
       /\ todo[i].type \in SurfaceKinds => ctx.dump > info.dump
       /\ \A j \in DOMAIN todo : i # j => todo[i] # todo[j]

\* The records of this packet are those its callbacks have stored.
Fresh(r) ==
  /\ r.draw = info.draw /\ r.dump = info.dump
  /\ pc # "pre" /\ ~discard /\ info.method \in {"begin_end", "dump"}
  /\ pc \in {"pre_store", "post"} => r.what.type = "texture" /\ r.what.stage <= stage
  /\ \A j \in DOMAIN todo : todo[j] # r.what

Surface(r) == r.what.type \in SurfaceKinds

StoredOK ==
  \A i \in DOMAIN stored :
    /\ stored[i].packet \in 1..index
    /\ Surface(stored[i]) => stored[i].dump < ctx.dump
    /\ Active => IF stored[i].packet = index THEN Fresh(stored[i])
                 ELSE Surface(stored[i]) => stored[i].dump < info.dump

\* A packet is logged once, and is the one of every record that has been left behind.
Joined(r) == \E j \in DOMAIN logged : /\ logged[j].packet = r.packet
                                      /\ logged[j].draw = r.draw /\ logged[j].dump = r.dump

LoggedOK ==
  /\ \A j \in DOMAIN logged :
       /\ logged[j].packet \in 0..index /\ (Active => logged[j].packet < index)
       /\ \A k \in DOMAIN logged : j # k => logged[j].packet # logged[k].packet
  /\ \A i \in DOMAIN stored :
       Joined(stored[i]) \/ pc = "failed" \/ (Active /\ stored[i].packet = index)

\* The draws that ended are counted, the one of this packet when its callback is called, or
\* none is; a trace that is discarded leaves neither records nor packets.
Counting == ~discard /\ CountsDraws
Ends     == {j \in DOMAIN logged : logged[j].op = "end"}

DrawsOK ==
  /\ Counting =>
       /\ pc \in {"idle", "loop"} => ctx.draw = Cardinality(Ends)
       /\ pc \in {"post_store", "log"} =>
            ctx.draw = info.draw + IF info.op = "end" THEN 1 ELSE 0
       /\ Active => info.draw = Cardinality(Ends)
  /\ ~CountsDraws => ctx.draw = 0 /\ info.draw = 0
  /\ discard => stored = <<>> /\ logged = <<>>

AuxInv ==
  /\ TypesOK /\ PlacesOK /\ CountersOK /\ TodoOK /\ StoredOK /\ RecordsDistinct
  /\ LoggedOK /\ DrawsOK /\ DrawIndexExact

-----------------------------------------------------------------------------
(* Bounds and sequences.                                                        *)

LEMMA Bounds == /\ Stages \in Nat /\ MaxLayers \in Nat /\ MaxPackets \in Nat
                /\ MaxFailures \in Nat
BY BoundsAssumption

LEMMA Added ==
  ASSUME NEW S, NEW s \in Seq(S), NEW e \in S
  PROVE  /\ Append(s, e) \in Seq(S) /\ Len(s) \in Nat /\ DOMAIN s = 1..Len(s)
         /\ DOMAIN Append(s, e) = 1..(Len(s) + 1) /\ Append(s, e)[Len(s) + 1] = e
         /\ \A i \in DOMAIN s : Append(s, e)[i] = s[i] /\ s[i] \in S
OBVIOUS

LEMMA Taken ==
  ASSUME NEW S, NEW s \in Seq(S), s # <<>>
  PROVE  /\ Head(s) \in S /\ Tail(s) \in Seq(S) /\ Len(s) \in Nat \ {0}
         /\ DOMAIN s = 1..Len(s) /\ Head(s) = s[1] /\ DOMAIN Tail(s) = 1..(Len(s) - 1)
         /\ \A i \in DOMAIN Tail(s) : Tail(s)[i] = s[i + 1] /\ s[i + 1] \in S
OBVIOUS

\* Captures of different types.
Among(s, types) ==
  /\ s \in Seq(Whats)
  /\ \A i \in DOMAIN s :
       /\ s[i].type \in types
       /\ \A j \in DOMAIN s : i # j => s[i].type # s[j].type

LEMMA None == Among(<<>>, {})
BY DEF Among

LEMMA One ==
  ASSUME NEW kind \in Kinds, NEW wanted \in BOOLEAN
  PROVE  Among(Optional(Capture(kind), wanted), {kind})
<1>1. Capture(kind) \in Whats /\ Capture(kind).type = kind
  BY DEF Capture, Whats
<1>2. <<Capture(kind)>> \in Seq(Whats) /\ Len(<<Capture(kind)>>) = 1
      /\ <<Capture(kind)>>[1] = Capture(kind)
  BY <1>1
<1>. QED
  BY <1>1, <1>2 DEF Among, Optional

LEMMA Both ==
  ASSUME NEW T, NEW U, NEW s, NEW t, Among(s, T), Among(t, U), T \cap U = {}
  PROVE  Among(s \o t, T \cup U)
<1>1. s \in Seq(Whats) /\ t \in Seq(Whats)
  BY DEF Among
<1>2. /\ s \o t \in Seq(Whats) /\ Len(s) \in Nat /\ Len(t) \in Nat
      /\ DOMAIN s = 1..Len(s) /\ DOMAIN t = 1..Len(t)
      /\ DOMAIN (s \o t) = 1..(Len(s) + Len(t))
      /\ \A i \in 1..Len(s) : (s \o t)[i] = s[i]
      /\ \A i \in (Len(s) + 1)..(Len(s) + Len(t)) : (s \o t)[i] = t[i - Len(s)]
  BY <1>1
<1>3. ASSUME NEW i \in 1..(Len(s) + Len(t))
      PROVE  IF i <= Len(s) THEN i \in DOMAIN s /\ (s \o t)[i] = s[i]
             ELSE i - Len(s) \in DOMAIN t /\ (s \o t)[i] = t[i - Len(s)]
  BY <1>2, <1>3
<1>4. ASSUME NEW i \in DOMAIN (s \o t)
      PROVE  (s \o t)[i].type \in T \cup U
  BY <1>2, <1>3, <1>4 DEF Among
<1>5. ASSUME NEW i \in DOMAIN (s \o t), NEW j \in DOMAIN (s \o t), i # j
      PROVE  (s \o t)[i].type # (s \o t)[j].type
  <2>1. CASE i <= Len(s) /\ j <= Len(s)
    BY <2>1, <1>2, <1>3, <1>5 DEF Among
  <2>2. CASE ~(i <= Len(s)) /\ ~(j <= Len(s))
    <3>1. i - Len(s) # j - Len(s)
      BY <1>2, <1>5
    <3>. QED
      BY <2>2, <3>1, <1>2, <1>3 DEF Among
  <2>3. CASE i <= Len(s) /\ ~(j <= Len(s))
    BY <2>3, <1>2, <1>3 DEF Among
  <2>4. CASE ~(i <= Len(s)) /\ j <= Len(s)
    BY <2>4, <1>2, <1>3 DEF Among
  <2>. QED
    BY <2>1, <2>2, <2>3, <2>4
<1>. QED
  BY <1>2, <1>4, <1>5 DEF Among

\* What the end of a draw, a clear or a release stores: nothing twice, no texture, surfaces
\* only when they are counted, and nothing when no capture is enabled.
LEMMA Captured ==
  ASSUME NEW registers \in SurfaceRegisters
  PROVE  /\ Among(SurfaceCaptures(registers), SurfaceKinds)
         /\ Among(RawCaptures \o SurfaceCaptures(registers),
                  {"pgraph", "pfb"} \cup SurfaceKinds)
         /\ ~DumpsSurfaces(registers) =>
              /\ SurfaceCaptures(registers) = <<>>
              /\ Among(RawCaptures \o SurfaceCaptures(registers), {"pgraph", "pfb"})
<1>. USE DEF Kinds, SurfaceKinds
<1>. DEFINE c == Optional(Capture("color"), "color" \in config \cap registers)
            d == Optional(Capture("depth"), "depth" \in config \cap registers)
            p == Optional(Capture("pgraph"), "pgraph" \in config)
            q == Optional(Capture("pfb"), "pfb" \in config)
<1>0. {"color", "depth", "pgraph", "pfb"} \subseteq Kinds
  OBVIOUS
<1>1. Among(c, {"color"}) /\ Among(d, {"depth"})
  <2>1. ("color" \in config \cap registers) \in BOOLEAN
        /\ ("depth" \in config \cap registers) \in BOOLEAN
    OBVIOUS
  <2>. QED
    BY <1>0, <2>1, One
<1>2. Among(p, {"pgraph"}) /\ Among(q, {"pfb"})
  <2>1. ("pgraph" \in config) \in BOOLEAN /\ ("pfb" \in config) \in BOOLEAN
    OBVIOUS
  <2>. QED
    BY <1>0, <2>1, One
<1>3. Among(RDICaptures, {"rdi_shader", "rdi_c0", "rdi_c1"})
  <2>. DEFINE r == <<Capture("rdi_shader"), Capture("rdi_c0"), Capture("rdi_c1")>>
  <2>1. /\ Capture("rdi_shader") \in Whats /\ Capture("rdi_shader").type = "rdi_shader"
        /\ Capture("rdi_c0") \in Whats /\ Capture("rdi_c0").type = "rdi_c0"
        /\ Capture("rdi_c1") \in Whats /\ Capture("rdi_c1").type = "rdi_c1"
    BY DEF Capture, Whats
  <2>2. /\ r \in Seq(Whats) /\ DOMAIN r = 1..3 /\ r[1] = Capture("rdi_shader")
        /\ r[2] = Capture("rdi_c0") /\ r[3] = Capture("rdi_c1")
    BY <2>1
  <2>. HIDE DEF r
  <2>3. Among(r, {"rdi_shader", "rdi_c0", "rdi_c1"})
    BY <2>1, <2>2 DEF Among
  <2>4. Among(<<>>, {"rdi_shader", "rdi_c0", "rdi_c1"})
    BY DEF Among
  <2>. QED
    BY <2>3, <2>4 DEF RDICaptures, r
<1>. HIDE DEF c, d, p, q
<1>4. Among(c \o d, {"color"} \cup {"depth"})
  BY <1>1, Both
<1>5. Among(c \o d \o RDICaptures,
            ({"color"} \cup {"depth"}) \cup {"rdi_shader", "rdi_c0", "rdi_c1"})
  BY <1>3, <1>4, Both
<1>6. ({"color"} \cup {"depth"}) \cup {"rdi_shader", "rdi_c0", "rdi_c1"} = SurfaceKinds
  OBVIOUS
<1>7. Among(SurfaceCaptures(registers), SurfaceKinds)
  <2>1. SurfaceCaptures(registers) \in {c \o d \o RDICaptures, <<>>}
    BY DEF SurfaceCaptures, c, d
  <2>. QED
    BY <2>1, <1>5, <1>6, None DEF Among
<1>8. Among(RawCaptures, {"pgraph"} \cup {"pfb"})
  BY <1>2, Both DEF RawCaptures, p, q
<1>9. Among(RawCaptures \o SurfaceCaptures(registers),
            ({"pgraph"} \cup {"pfb"}) \cup SurfaceKinds)
  BY <1>7, <1>8, Both
<1>10. {"pgraph"} \cup {"pfb"} = {"pgraph", "pfb"}
  OBVIOUS
<1>11. Among(RawCaptures \o <<>>, ({"pgraph"} \cup {"pfb"}) \cup {})
  BY <1>8, None, Both
<1>. QED
  BY <1>7, <1>9, <1>10, <1>11 DEF SurfaceCaptures

\* The counters of one state are finite.
LEMMA EndsFinite ==
  ASSUME logged \in Seq(Packets)
  PROVE  IsFiniteSet(Ends) /\ Cardinality(Ends) \in Nat
<1>1. IsFiniteSet(1..Len(logged))
  BY FS_Interval
<1>2. Ends \subseteq 1..Len(logged)
  BY DEF Ends
<1>. QED
  BY <1>1, <1>2, FS_Subset, FS_CardinalityType

LEMMA Layers ==
  ASSUME NEW s \in Nat, NEW n \in Nat
  PROVE  /\ TextureCaptures(s, n) \in Seq(Whats) /\ DOMAIN TextureCaptures(s, n) = 1..n
         /\ \A l \in 1..n : /\ TextureCaptures(s, n)[l].type = "texture"
                            /\ TextureCaptures(s, n)[l].stage = s
                            /\ TextureCaptures(s, n)[l].layer = l
<1>1. \A l \in 1..n : [type |-> "texture", stage |-> s, layer |-> l] \in Whats
  BY DEF Whats, Kinds
<1>. QED
  BY <1>1 DEF TextureCaptures

-----------------------------------------------------------------------------
(* Every step preserves the invariant.                                          *)

\* A detach is between two looks of the tracer.
LEMMA DetachPreserves ==
  ASSUME AuxInv, Detach
  PROVE  AuxInv'
<1>. USE DEF Active, Counting, CountsDraws
<1>1. TypesOK'
  BY Bounds DEF AuxInv, Detach, TypesOK
<1>2. PlacesOK'
  BY DEF AuxInv, Detach, TypesOK, PlacesOK
<1>3. CountersOK'
  BY DEF AuxInv, Detach, TypesOK, PlacesOK, CountersOK
<1>4. TodoOK'
  BY DEF AuxInv, Detach, TypesOK, PlacesOK, TodoOK
<1>5. StoredOK'
  BY DEF AuxInv, Detach, TypesOK, PlacesOK, CountersOK, StoredOK, Fresh, Surface
<1>6. RecordsDistinct'
  BY DEF AuxInv, Detach, RecordsDistinct
<1>7. LoggedOK'
  BY DEF AuxInv, Detach, TypesOK, PlacesOK, LoggedOK, Joined
<1>8. DrawsOK'
  BY DEF AuxInv, Detach, TypesOK, PlacesOK, CountersOK, DrawsOK, Ends
<1>9. DrawIndexExact'
  BY DEF AuxInv, Detach, DrawIndexExact, DrawIndex, EndsBefore
<1>. QED
  BY <1>1, <1>2, <1>3, <1>4, <1>5, <1>6, <1>7, <1>8, <1>9 DEF AuxInv

\* The records and packets of the trace are left behind.
LEMMA TraceStopsPreserves ==
  ASSUME AuxInv, TraceStops
  PROVE  AuxInv'
<1>. USE DEF Active, Counting, CountsDraws
<1>1. TypesOK'
  BY Bounds DEF AuxInv, TraceStops, TypesOK
<1>2. PlacesOK'
  BY DEF AuxInv, TraceStops, TypesOK, PlacesOK
<1>3. CountersOK'
  BY DEF AuxInv, TraceStops, TypesOK, PlacesOK, CountersOK
<1>4. TodoOK'
  BY DEF AuxInv, TraceStops, TypesOK, PlacesOK, TodoOK
<1>5. StoredOK'
  BY DEF AuxInv, TraceStops, TypesOK, PlacesOK, CountersOK, StoredOK, Fresh, Surface
<1>6. RecordsDistinct'
  BY DEF AuxInv, TraceStops, RecordsDistinct
<1>7. LoggedOK'
  BY DEF AuxInv, TraceStops, TypesOK, PlacesOK, LoggedOK, Joined
<1>8. DrawsOK'
  BY DEF AuxInv, TraceStops, TypesOK, PlacesOK, CountersOK, DrawsOK, Ends
<1>9. DrawIndexExact'
  BY DEF AuxInv, TraceStops, DrawIndexExact, DrawIndex, EndsBefore
<1>. QED
  BY <1>1, <1>2, <1>3, <1>4, <1>5, <1>6, <1>7, <1>8, <1>9 DEF AuxInv

\* The packet is not logged; its records have no packet.
LEMMA TraceFailsPreserves ==
  ASSUME AuxInv, TraceFails
  PROVE  AuxInv'
<1>. USE DEF Active, Counting, CountsDraws
<1>1. TypesOK'
  <2>1. NoInfo \in Infos
    BY DEF NoInfo, Infos, NoMethod, NoOp
  <2>. QED
    BY <2>1 DEF AuxInv, TraceFails, TypesOK
<1>2. PlacesOK'
  BY DEF AuxInv, TraceFails, TypesOK, PlacesOK, NoInfo
<1>3. CountersOK'
  BY DEF AuxInv, TraceFails, TypesOK, PlacesOK, CountersOK
<1>4. TodoOK'
  BY DEF AuxInv, TraceFails, TypesOK, PlacesOK, TodoOK
<1>5. StoredOK'
  BY DEF AuxInv, TraceFails, TypesOK, PlacesOK, CountersOK, StoredOK, Fresh, Surface
<1>6. RecordsDistinct'
  BY DEF AuxInv, TraceFails, RecordsDistinct
<1>7. LoggedOK'
  BY DEF AuxInv, TraceFails, TypesOK, PlacesOK, LoggedOK, Joined
<1>8. DrawsOK'
  BY DEF AuxInv, TraceFails, TypesOK, PlacesOK, CountersOK, DrawsOK, Ends, NoInfo
<1>9. DrawIndexExact'
  BY DEF AuxInv, TraceFails, DrawIndexExact, DrawIndex, EndsBefore
<1>. QED
  BY <1>1, <1>2, <1>3, <1>4, <1>5, <1>6, <1>7, <1>8, <1>9 DEF AuxInv

\* Nothing is left to store.
LEMMA CallbackReturnsPreserves ==
  ASSUME AuxInv, CallbackReturns
  PROVE  AuxInv'
<1>. USE DEF Active, Counting, CountsDraws
<1>1. TypesOK'
  BY Bounds DEF AuxInv, CallbackReturns, TypesOK
<1>2. PlacesOK'
  BY DEF AuxInv, CallbackReturns, TypesOK, PlacesOK
<1>3. CountersOK'
  BY DEF AuxInv, CallbackReturns, TypesOK, PlacesOK, CountersOK
<1>4. TodoOK'
  BY DEF AuxInv, CallbackReturns, TypesOK, PlacesOK, TodoOK
<1>5. StoredOK'
  BY DEF AuxInv, CallbackReturns, TypesOK, PlacesOK, CountersOK, StoredOK, Fresh, Surface
<1>6. RecordsDistinct'
  BY DEF AuxInv, CallbackReturns, RecordsDistinct
<1>7. LoggedOK'
  BY DEF AuxInv, CallbackReturns, TypesOK, PlacesOK, LoggedOK, Joined
<1>8. DrawsOK'
  BY DEF AuxInv, CallbackReturns, TypesOK, PlacesOK, CountersOK, DrawsOK, Ends
<1>9. DrawIndexExact'
  BY DEF AuxInv, CallbackReturns, DrawIndexExact, DrawIndex, EndsBefore
<1>. QED
  BY <1>1, <1>2, <1>3, <1>4, <1>5, <1>6, <1>7, <1>8, <1>9 DEF AuxInv

\* Nothing of this packet has been stored.
LEMMA TraceBeginPreserves ==
  ASSUME AuxInv, TraceBegin
  PROVE  AuxInv'
<1>. USE DEF Active, Counting, CountsDraws
<1>1. TypesOK'
  BY Bounds DEF AuxInv, TraceBegin, TypesOK
<1>2. PlacesOK'
  BY DEF AuxInv, TraceBegin, TypesOK, PlacesOK
<1>3. CountersOK'
  BY DEF AuxInv, TraceBegin, TypesOK, PlacesOK, CountersOK
<1>4. TodoOK'
  BY DEF AuxInv, TraceBegin, TypesOK, PlacesOK, TodoOK
<1>5. StoredOK'
  BY DEF AuxInv, TraceBegin, TypesOK, PlacesOK, CountersOK, StoredOK, Fresh, Surface
<1>6. RecordsDistinct'
  BY DEF AuxInv, TraceBegin, RecordsDistinct
<1>7. LoggedOK'
  BY DEF AuxInv, TraceBegin, TypesOK, PlacesOK, LoggedOK, Joined
<1>8. DrawsOK'
  BY DEF AuxInv, TraceBegin, TypesOK, PlacesOK, CountersOK, DrawsOK, Ends
<1>9. DrawIndexExact'
  BY DEF AuxInv, TraceBegin, DrawIndexExact, DrawIndex, EndsBefore
<1>. QED
  BY <1>1, <1>2, <1>3, <1>4, <1>5, <1>6, <1>7, <1>8, <1>9 DEF AuxInv

\* A trace begins with nothing.
LEMMA TraceBeginsPreserves ==
  ASSUME AuxInv, NEW discards \in BOOLEAN, TraceBegins(discards)
  PROVE  AuxInv'
<1>. USE DEF Active, Counting, CountsDraws
<1>1. TypesOK'
  <2>1. NoInfo \in Infos /\ NewContext \in [draw : Nat, dump : Nat]
    BY DEF NoInfo, Infos, NoMethod, NoOp, NewContext
  <2>. QED
    BY <2>1, Bounds DEF AuxInv, TraceBegins, TypesOK
<1>2. PlacesOK'
  BY DEF AuxInv, TraceBegins, TypesOK, PlacesOK
<1>3. CountersOK'
  BY DEF AuxInv, TraceBegins, CountersOK, NewContext
<1>4. TodoOK'
  BY DEF AuxInv, TraceBegins, TypesOK, PlacesOK, TodoOK
<1>5. StoredOK'
  BY DEF AuxInv, TraceBegins, TypesOK, PlacesOK, CountersOK, StoredOK, Fresh, Surface
<1>6. RecordsDistinct'
  BY DEF AuxInv, TraceBegins, RecordsDistinct
<1>7. LoggedOK'
  BY DEF AuxInv, TraceBegins, TypesOK, PlacesOK, LoggedOK, Joined
<1>8. DrawsOK'
  <2>1. Ends' = {}
    BY DEF TraceBegins, Ends
  <2>2. Cardinality(Ends') = 0
    BY <2>1, FS_EmptySet
  <2>. QED
    BY <2>2 DEF TraceBegins, DrawsOK, NewContext, NoInfo
<1>9. DrawIndexExact'
  BY DEF AuxInv, TraceBegins, DrawIndexExact, DrawIndex, EndsBefore
<1>. QED
  BY <1>1, <1>2, <1>3, <1>4, <1>5, <1>6, <1>7, <1>8, <1>9 DEF AuxInv

\* The packet is younger than every record and every packet.
LEMMA NextPacketPreserves ==
  ASSUME AuxInv, NEW method \in Methods \cup {NoMethod}, NEW op \in Ops \cup {NoOp},
         op = NoOp \/ method = "begin_end", NextPacket(method, op)
  PROVE  AuxInv'
<1>. USE DEF Active, Counting, CountsDraws
<1>1. TypesOK'
  <2>1. ctx.draw \in Nat /\ ctx.dump \in Nat /\ index + 1 \in 0..MaxPackets
    BY Bounds DEF AuxInv, TypesOK, NextPacket
  <2>2. info' \in Infos
    BY <2>1 DEF NextPacket, Infos
  <2>. QED
    BY <2>1, <2>2 DEF AuxInv, NextPacket, FirstCallback, TypesOK
<1>2. PlacesOK'
  BY DEF AuxInv, NextPacket, FirstCallback, TypesOK, PlacesOK, Methods, NoMethod
<1>3. CountersOK'
  BY DEF AuxInv, NextPacket, FirstCallback, TypesOK, PlacesOK, CountersOK
<1>4. TodoOK'
  BY DEF AuxInv, NextPacket, FirstCallback, TypesOK, PlacesOK, TodoOK
<1>5. StoredOK'
  BY DEF AuxInv, NextPacket, FirstCallback, TypesOK, PlacesOK, CountersOK, StoredOK, Fresh, Surface
<1>6. RecordsDistinct'
  BY DEF AuxInv, NextPacket, FirstCallback, RecordsDistinct
<1>7. LoggedOK'
  BY DEF AuxInv, NextPacket, FirstCallback, TypesOK, PlacesOK, LoggedOK, Joined
<1>8. DrawsOK'
  <2>1. Ends' = Ends
    BY DEF NextPacket, Ends
  <2>2. pc = "loop" /\ ctx' = ctx /\ info'.draw = ctx.draw /\ info'.op = op
        /\ pc' \in {"pre", "post", "log"}
    BY DEF NextPacket, FirstCallback
  <2>3. pc' = "log" /\ Counting => op = NoOp
    BY DEF NextPacket, FirstCallback, NoMethod
  <2>4. /\ Counting' = Counting /\ CountsDraws' = CountsDraws
        /\ UNCHANGED <<discard, stored, logged>>
    BY DEF NextPacket
  <2>. HIDE DEF Counting, CountsDraws
  <2>. QED
    BY <2>1, <2>2, <2>3, <2>4 DEF AuxInv, TypesOK, DrawsOK, NoOp
<1>9. DrawIndexExact'
  BY DEF AuxInv, NextPacket, FirstCallback, DrawIndexExact, DrawIndex, EndsBefore
<1>. QED
  BY <1>1, <1>2, <1>3, <1>4, <1>5, <1>6, <1>7, <1>8, <1>9 DEF AuxInv

\* The layers of the next stage.
LEMMA StoreTextureStagePreserves ==
  ASSUME AuxInv, NEW layers \in 0..MaxLayers, StoreTextureStage(layers)
  PROVE  AuxInv'
<1>. USE DEF Active, Counting, CountsDraws
<1>0. PICK s, t : /\ s \in Nat /\ s = stage + 1 /\ s \in 1..Stages /\ stage \in Nat
                 /\ t = TextureCaptures(s, layers) /\ todo' = t /\ stage' = s
                 /\ pc = "pre_store" /\ pc' = "pre_store"
  BY Bounds DEF AuxInv, TypesOK, StoreTextureStage
<1>10. /\ t \in Seq(Whats) /\ DOMAIN t = 1..layers /\ layers \in Nat
      /\ \A l \in 1..layers : t[l].type = "texture" /\ t[l].stage = s /\ t[l].layer = l
  <2>1. layers \in Nat /\ s \in Nat
    BY <1>0, Bounds
  <2>2. t = TextureCaptures(s, layers)
    BY <1>0
  <2>3. TextureCaptures(s, layers) \in Seq(Whats)
    BY <2>1, Layers
  <2>4. DOMAIN TextureCaptures(s, layers) = 1..layers
    BY <2>1, Layers
  <2>5. ASSUME NEW l \in 1..layers
        PROVE  /\ TextureCaptures(s, layers)[l].type = "texture"
               /\ TextureCaptures(s, layers)[l].stage = s
               /\ TextureCaptures(s, layers)[l].layer = l
    BY <2>1, Layers
  <2>. QED
    BY <2>1, <2>2, <2>3, <2>4, <2>5
<1>1. TypesOK'
  BY <1>10, <1>0, Bounds DEF AuxInv, StoreTextureStage, TypesOK
<1>2. PlacesOK'
  BY <1>0 DEF AuxInv, StoreTextureStage, TypesOK, PlacesOK
<1>3. CountersOK'
  BY DEF AuxInv, StoreTextureStage, TypesOK, PlacesOK, CountersOK
<1>4. TodoOK'
  <2>1. config # {}
    BY <1>0, Bounds DEF AuxInv, TypesOK, TodoOK, StoreTextureStage
  <2>2. config' = config
    BY DEF StoreTextureStage
  <2>. QED
    BY <1>0, <1>10, <2>1, <2>2 DEF TodoOK, SurfaceKinds
<1>5. StoredOK'
  <2>1. ASSUME NEW r \in Records, Fresh(r)
        PROVE  Fresh(r)'
    <3>1. r.what.stage \in Nat
      BY <2>1 DEF Records, Whats
    <3>. QED
      BY <1>0, <1>10, <2>1, <3>1 DEF Fresh, StoreTextureStage
  <2>2. \A i \in DOMAIN stored : stored[i] \in Records
    BY DEF AuxInv, TypesOK
  <2>. QED
    BY <2>1, <2>2 DEF AuxInv, StoredOK, Surface, StoreTextureStage
<1>6. RecordsDistinct'
  BY DEF AuxInv, StoreTextureStage, RecordsDistinct
<1>7. LoggedOK'
  BY DEF AuxInv, StoreTextureStage, TypesOK, PlacesOK, LoggedOK, Joined
<1>8. DrawsOK'
  BY DEF AuxInv, StoreTextureStage, TypesOK, PlacesOK, CountersOK, DrawsOK, Ends
<1>9. DrawIndexExact'
  BY DEF AuxInv, StoreTextureStage, DrawIndexExact, DrawIndex, EndsBefore
<1>. QED
  BY <1>1, <1>2, <1>3, <1>4, <1>5, <1>6, <1>7, <1>8, <1>9 DEF AuxInv

\* A record of the running callback, or one that is given up.
LEMMA StoreOfPreserves ==
  ASSUME AuxInv, NEW types, StoreOf(types)
  PROVE  AuxInv'
<1>. USE DEF Active, Counting, CountsDraws
<1>. DEFINE r == [packet |-> info.packet, draw |-> info.draw, dump |-> info.dump,
                  what |-> Head(todo)]
<1>0. /\ todo' = Tail(todo) /\ Len(todo) \in Nat \ {0} /\ DOMAIN todo = 1..Len(todo)
      /\ Tail(todo) \in Seq(Whats) /\ DOMAIN todo' = 1..(Len(todo) - 1)
      /\ Head(todo) = todo[1] /\ todo[1] \in Whats /\ r.what = todo[1]
      /\ \A i \in DOMAIN todo' : todo'[i] = todo[i + 1]
      /\ \/ stored' = stored
         \/ /\ stored' = Append(stored, r) /\ Len(stored) \in Nat
            /\ DOMAIN stored = 1..Len(stored) /\ DOMAIN stored' = 1..(Len(stored) + 1)
            /\ stored'[Len(stored) + 1] = r
            /\ \A i \in DOMAIN stored : stored'[i] = stored[i]
  <2>1. todo \in Seq(Whats) /\ todo # <<>> /\ todo' = Tail(todo)
    BY DEF AuxInv, TypesOK, StoreOf
  <2>2. /\ Head(todo) \in Whats /\ Tail(todo) \in Seq(Whats) /\ Len(todo) \in Nat \ {0}
        /\ DOMAIN todo = 1..Len(todo) /\ Head(todo) = todo[1]
        /\ DOMAIN Tail(todo) = 1..(Len(todo) - 1)
        /\ \A i \in DOMAIN Tail(todo) : Tail(todo)[i] = todo[i + 1]
    BY <2>1, Taken
  <2>3. r \in Records /\ stored \in Seq(Records)
    BY <2>2 DEF AuxInv, TypesOK, Infos, Records
  <2>4. /\ Len(stored) \in Nat /\ DOMAIN stored = 1..Len(stored)
        /\ DOMAIN Append(stored, r) = 1..(Len(stored) + 1)
        /\ Append(stored, r)[Len(stored) + 1] = r
        /\ \A i \in DOMAIN stored : Append(stored, r)[i] = stored[i]
    BY <2>3, Added
  <2>. QED
    BY <2>1, <2>2, <2>4 DEF StoreOf
<1>1. TypesOK'
  <2>1. CASE stored' = stored
    BY <2>1, <1>0, Bounds DEF AuxInv, StoreOf, TypesOK
  <2>2. CASE stored' = Append(stored, r)
    <3>1. r \in Records
      BY <1>0 DEF AuxInv, TypesOK, Infos, Records
    <3>2. Append(stored, r) \in Seq(Records)
      BY <3>1, Added DEF AuxInv, TypesOK
    <3>. QED
      BY <2>2, <3>2, <1>0, Bounds DEF AuxInv, StoreOf, TypesOK
  <2>. QED
    BY <1>0, <2>1, <2>2
<1>2. PlacesOK'
  BY DEF AuxInv, StoreOf, TypesOK, PlacesOK
<1>3. CountersOK'
  BY DEF AuxInv, StoreOf, TypesOK, CountersOK
<1>4. TodoOK'
  <2>1. ASSUME NEW i \in DOMAIN todo', NEW j \in DOMAIN todo'
        PROVE  /\ i + 1 \in DOMAIN todo /\ todo'[i] = todo[i + 1] /\ (i # j => i + 1 # j + 1)
               /\ j + 1 \in DOMAIN todo /\ todo'[j] = todo[j + 1]
    BY <1>0
  <2>2. todo # <<>> /\ UNCHANGED <<pc, stage, config, ctx, info>>
    BY DEF StoreOf
  <2>. QED
    BY <2>1, <2>2 DEF AuxInv, TodoOK
<1>5. StoredOK'
  <2>1. /\ UNCHANGED <<pc, stage, ctx, info, index, discard>>
        /\ pc \in {"pre_store", "post_store"} /\ stage \in Nat
    BY <1>0, Bounds DEF AuxInv, TypesOK, StoreOf
  <2>2. ASSUME NEW s, Fresh(s)
        PROVE  Fresh(s)'
    <3>1. \A j \in DOMAIN todo' : todo'[j] # s.what
      BY <1>0, <2>2 DEF Fresh
    <3>. QED
      BY <2>1, <2>2, <3>1 DEF Fresh
  <2>3. ASSUME NEW s, s = r
        PROVE  Fresh(s)'
    <3>1. \A j \in DOMAIN todo' : todo'[j] # r.what
      BY <1>0 DEF AuxInv, TodoOK
    <3>2. pc = "pre_store" => r.what.type = "texture" /\ r.what.stage <= stage
      BY <1>0, <2>1 DEF AuxInv, TodoOK
    <3>3. ~discard /\ info.method \in {"begin_end", "dump"}
      BY <2>1 DEF AuxInv, PlacesOK
    <3>. QED
      BY <2>1, <2>3, <3>1, <3>2, <3>3 DEF Fresh
  <2>4. r.packet = index /\ index \in Nat /\ index > 0 /\ (Surface(r) => r.dump < ctx.dump)
    <3>1. ctx.dump \in Nat /\ info.dump \in Nat /\ info.packet = index /\ index > 0
          /\ index \in Nat
      BY <2>1, Bounds DEF AuxInv, TypesOK, PlacesOK, Infos
    <3>2. todo[1].type \in SurfaceKinds => ctx.dump > info.dump
      BY <1>0 DEF AuxInv, TodoOK
    <3>. QED
      BY <1>0, <3>1, <3>2 DEF Surface
  <2>5. ASSUME NEW s, \/ \E i \in DOMAIN stored : s = stored[i]
                      \/ s = r
        PROVE  /\ s.packet \in 1..index
               /\ Surface(s) => s.dump < ctx.dump
               /\ IF s.packet = index THEN Fresh(s)' ELSE Surface(s) => s.dump < info.dump
    <3>1. CASE s = r
      BY <2>3, <2>4, <3>1
    <3>2. CASE \E i \in DOMAIN stored : s = stored[i]
      BY <2>1, <2>2, <3>2 DEF AuxInv, StoredOK
    <3>. QED
      BY <2>5, <3>1, <3>2
  <2>6. ASSUME NEW i \in DOMAIN stored'
        PROVE  \/ \E k \in DOMAIN stored : stored'[i] = stored[k]
               \/ stored'[i] = r
    BY <1>0
  <2>. HIDE DEF r
  <2>. QED
    BY <2>1, <2>5, <2>6 DEF StoredOK, Surface
<1>6. RecordsDistinct'
  <2>1. ASSUME NEW i \in DOMAIN stored
        PROVE  /\ stored[i].packet = r.packet => stored[i].what # r.what
               /\ Surface(stored[i]) /\ Surface(r) /\ stored[i].dump = r.dump =>
                    stored[i].packet = r.packet
    <3>1. r.packet = index /\ Active
      BY DEF AuxInv, PlacesOK, StoreOf
    <3>2. stored[i].dump \in Nat /\ info.dump \in Nat
      <4>1. stored \in Seq(Records) /\ info \in Infos
        BY DEF AuxInv, TypesOK
      <4>2. stored[i] \in Records
        BY <4>1
      <4>. QED
        BY <4>1, <4>2 DEF Records, Infos
    <3>. QED
      BY <1>0, <3>1, <3>2 DEF AuxInv, StoredOK, Fresh
  <2>2. CASE stored' = stored
    BY <2>2 DEF AuxInv, RecordsDistinct
  <2>3. CASE stored' = Append(stored, r)
    <3>1. ASSUME NEW i \in DOMAIN stored, NEW j \in DOMAIN stored
          PROVE  /\ i # j /\ stored[i].packet = stored[j].packet => stored[i].what # stored[j].what
                 /\ Surface(stored[i]) /\ Surface(stored[j]) /\ stored[i].dump = stored[j].dump =>
                      stored[i].packet = stored[j].packet
      BY DEF AuxInv, RecordsDistinct, Surface
    <3>2. ASSUME NEW i \in DOMAIN stored', NEW j \in DOMAIN stored'
          PROVE  /\ i # j /\ stored'[i].packet = stored'[j].packet =>
                      stored'[i].what # stored'[j].what
                 /\ Surface(stored'[i]) /\ Surface(stored'[j])
                   /\ stored'[i].dump = stored'[j].dump =>
                      stored'[i].packet = stored'[j].packet
      <4>1. CASE i \in DOMAIN stored /\ j \in DOMAIN stored
        BY <1>0, <2>3, <3>1, <4>1
      <4>2. CASE i \in DOMAIN stored /\ j \notin DOMAIN stored
        BY <1>0, <2>1, <2>3, <4>2
      <4>3. CASE i \notin DOMAIN stored /\ j \in DOMAIN stored
        BY <1>0, <2>1, <2>3, <4>3
      <4>4. CASE i \notin DOMAIN stored /\ j \notin DOMAIN stored
        BY <1>0, <2>3, <4>4
      <4>. QED
        BY <4>1, <4>2, <4>3, <4>4
    <3>. QED
      BY <3>2 DEF RecordsDistinct, Surface
  <2>. QED
    BY <1>0, <2>2, <2>3
<1>7. LoggedOK'
  <2>1. /\ UNCHANGED <<pc, index, logged>> /\ Active
        /\ r.packet = index
    BY DEF AuxInv, PlacesOK, StoreOf
  <2>2. \A s : Joined(s)' <=> Joined(s)
    BY <2>1 DEF Joined
  <2>. QED
    BY <1>0, <2>1, <2>2 DEF AuxInv, LoggedOK
<1>8. DrawsOK'
  <2>1. ~discard
    BY DEF AuxInv, PlacesOK, StoreOf
  <2>. HIDE DEF CountsDraws
  <2>2. CountsDraws' = CountsDraws
    BY DEF StoreOf, CountsDraws
  <2>. QED
    BY <2>1, <2>2 DEF AuxInv, StoreOf, DrawsOK, Ends
<1>9. DrawIndexExact'
  <2>1. UNCHANGED <<config, discard, logged>> /\ Active /\ r.draw = info.draw /\ r.packet = index
    BY DEF AuxInv, PlacesOK, StoreOf
  <2>2. \A n : EndsBefore(n)' = EndsBefore(n)
    BY <2>1 DEF EndsBefore
  <2>3. r.draw = DrawIndex(r.packet) /\ \A n : DrawIndex(n)' = DrawIndex(n)
    <3>1. {j \in DOMAIN logged : logged[j].packet < index /\ logged[j].op = "end"} = Ends
      BY <2>1 DEF AuxInv, LoggedOK, Ends
    <3>2. ~discard
      BY DEF AuxInv, PlacesOK, StoreOf
    <3>. QED
      BY <2>1, <2>2, <3>1, <3>2 DEF AuxInv, DrawsOK, EndsBefore, DrawIndex
  <2>. QED
    BY <1>0, <2>1, <2>3 DEF AuxInv, DrawIndexExact
<1>. QED
  BY <1>1, <1>2, <1>3, <1>4, <1>5, <1>6, <1>7, <1>8, <1>9 DEF AuxInv

\* What a callback after the packet stores and counts.
LEMMA PostPreserves ==
  ASSUME AuxInv, NEW c, NEW n \in [draw : Nat, dump : Nat], PostCallback(c, n),
         info.method \in {"begin_end", "dump"},
         Among(c, {"pgraph", "pfb"} \cup SurfaceKinds), c # <<>> => config # {},
         n.draw \in {ctx.draw, ctx.draw + 1}, n.dump \in {ctx.dump, ctx.dump + 1},
         n.dump = ctx.dump => \A i \in DOMAIN c : c[i].type \notin SurfaceKinds,
         Counting => n.draw = ctx.draw + IF info.op = "end" THEN 1 ELSE 0,
         ~CountsDraws => n.draw = ctx.draw
  PROVE  AuxInv'
<1>. USE DEF Active, Counting, CountsDraws
<1>0. /\ pc = "post" /\ pc' = "post_store" /\ todo' = c /\ ctx' = n /\ c \in Seq(Whats)
      /\ UNCHANGED <<config, hasBuffer, working, discard, index, info, stage, failures, stored,
                     logged>>
      /\ info.packet = index /\ index \in Nat /\ index > 0 /\ stage = Stages /\ ~discard
      /\ ctx.draw = info.draw /\ ctx.dump = info.dump
      /\ info.draw < index /\ info.dump < index
      /\ ctx.draw \in Nat /\ ctx.dump \in Nat /\ n.draw \in Nat /\ n.dump \in Nat
  BY Bounds DEF AuxInv, TypesOK, PlacesOK, CountersOK, PostCallback, Among
<1>1. TypesOK'
  BY <1>0, Bounds DEF AuxInv, TypesOK
<1>2. PlacesOK'
  BY <1>0 DEF AuxInv, PlacesOK
<1>3. CountersOK'
  BY <1>0 DEF AuxInv, CountersOK
<1>4. TodoOK'
  <2>1. ASSUME NEW i \in DOMAIN c
        PROVE  /\ c[i].type # "texture"
               /\ c[i].type \in SurfaceKinds => n.dump > info.dump
               /\ \A j \in DOMAIN c : i # j => c[i] # c[j]
    BY <1>0 DEF Among, SurfaceKinds
  <2>. QED
    BY <1>0, <2>1 DEF AuxInv, TodoOK
<1>5. StoredOK'
  <2>1. ASSUME NEW i \in DOMAIN stored, stored[i].packet = index
        PROVE  Fresh(stored[i])'
    <3>1. Fresh(stored[i])
      BY <1>0, <2>1 DEF AuxInv, StoredOK
    <3>2. \A j \in DOMAIN c : c[j].type # "texture"
      BY DEF Among, SurfaceKinds
    <3>. QED
      BY <1>0, <3>1, <3>2 DEF Fresh
  <2>2. ASSUME NEW i \in DOMAIN stored, Surface(stored[i])
        PROVE  stored[i].dump < n.dump
    <3>1. stored[i] \in Records
      BY DEF AuxInv, TypesOK
    <3>. QED
      BY <1>0, <2>2, <3>1 DEF AuxInv, StoredOK, Records
  <2>. QED
    BY <1>0, <2>1, <2>2 DEF AuxInv, StoredOK, Surface
<1>6. RecordsDistinct'
  BY <1>0 DEF AuxInv, RecordsDistinct
<1>7. LoggedOK'
  BY <1>0 DEF AuxInv, LoggedOK, Joined
<1>8. DrawsOK'
  <2>. HIDE DEF CountsDraws
  <2>1. CountsDraws' = CountsDraws
    BY <1>0 DEF CountsDraws
  <2>2. Ends' = Ends
    BY <1>0 DEF Ends
  <2>. HIDE DEF Ends
  <2>3. ~CountsDraws => n.draw = 0
    BY <1>0 DEF AuxInv, DrawsOK
  <2>4. Counting' => ctx'.draw = info.draw + IF info.op = "end" THEN 1 ELSE 0
    BY <1>0, <2>1
  <2>5. Counting' => info.draw = Cardinality(Ends)
    BY <1>0, <2>1 DEF AuxInv, DrawsOK
  <2>6. ~CountsDraws => info.draw = 0
    BY <1>0 DEF AuxInv, DrawsOK
  <2>. QED
    BY <1>0, <2>1, <2>2, <2>3, <2>4, <2>5, <2>6 DEF DrawsOK
<1>9. DrawIndexExact'
  <2>1. \A k : DrawIndex(k)' = DrawIndex(k)
    BY <1>0 DEF DrawIndex, EndsBefore
  <2>. QED
    BY <1>0, <2>1 DEF AuxInv, DrawIndexExact
<1>. QED
  BY <1>1, <1>2, <1>3, <1>4, <1>5, <1>6, <1>7, <1>8, <1>9 DEF AuxInv

\* A clear or a release counts the surfaces it stores.
LEMMA TraceSurfacesPreserves ==
  ASSUME AuxInv, NEW registers \in SurfaceRegisters, TraceSurfaces(registers)
  PROVE  AuxInv'
<1>1. PICK c, n : c = SurfaceCaptures(registers) /\ n = CountDump(ctx, registers)
  OBVIOUS
<1>2. PostCallback(c, n) /\ info.method = "dump" /\ info.op = NoOp
  BY <1>1 DEF TraceSurfaces, AuxInv, PlacesOK
<1>3. /\ ctx \in [draw : Nat, dump : Nat] /\ n \in [draw : Nat, dump : Nat] /\ n.draw = ctx.draw
      /\ n.dump = IF DumpsSurfaces(registers) THEN ctx.dump + 1 ELSE ctx.dump
  BY <1>1 DEF AuxInv, TypesOK, CountDump
<1>4. /\ Among(c, {"pgraph", "pfb"} \cup SurfaceKinds)
      /\ DumpsSurfaces(registers) \/ c = <<>>
  BY <1>1, Captured DEF Among
<1>5. DumpsSurfaces(registers) => config # {}
  BY DEF DumpsSurfaces
<1>6. /\ c # <<>> => config # {}
      /\ n.draw \in {ctx.draw, ctx.draw + 1} /\ n.dump \in {ctx.dump, ctx.dump + 1}
      /\ n.dump = ctx.dump => \A i \in DOMAIN c : c[i].type \notin SurfaceKinds
      /\ Counting => n.draw = ctx.draw + IF info.op = "end" THEN 1 ELSE 0
      /\ ~CountsDraws => n.draw = ctx.draw
  BY <1>2, <1>3, <1>4, <1>5 DEF NoOp
<1>. QED
  BY <1>2, <1>3, <1>4, <1>6, PostPreserves

\* The end of a draw counts itself and the surfaces it stores.
LEMMA TraceEndPreserves ==
  ASSUME AuxInv, NEW registers \in SurfaceRegisters, TraceEnd(registers)
  PROVE  AuxInv'
<1>1. /\ info.method = "begin_end" /\ ctx \in [draw : Nat, dump : Nat]
  BY DEF TraceEnd, AuxInv, TypesOK
<1>2. CASE config \cap {"depth", "color", "pgraph", "pfb"} # {} /\ info.op = "end"
  <2>1. PICK c, n : /\ c = RawCaptures \o SurfaceCaptures(registers)
                    /\ n = CountDump([ctx EXCEPT !.draw = @ + 1], registers)
    OBVIOUS
  <2>2. PostCallback(c, n)
    BY <1>2, <2>1 DEF TraceEnd
  <2>3. /\ n \in [draw : Nat, dump : Nat] /\ n.draw = ctx.draw + 1
        /\ n.dump = IF DumpsSurfaces(registers) THEN ctx.dump + 1 ELSE ctx.dump
    <3>1. PICK d : d = [ctx EXCEPT !.draw = @ + 1]
      OBVIOUS
    <3>2. d \in [draw : Nat, dump : Nat] /\ d.draw = ctx.draw + 1 /\ d.dump = ctx.dump
      BY <1>1, <3>1
    <3>3. n = IF DumpsSurfaces(registers) THEN [d EXCEPT !.dump = @ + 1] ELSE d
      BY <2>1, <3>1 DEF CountDump
    <3>. QED
      BY <3>2, <3>3
  <2>4. Among(c, {"pgraph", "pfb"} \cup SurfaceKinds)
    BY <2>1, Captured
  <2>5. ~DumpsSurfaces(registers) => \A i \in DOMAIN c : c[i].type \notin SurfaceKinds
    BY <2>1, Captured DEF Among, SurfaceKinds
  <2>6. /\ c # <<>> => config # {}
        /\ n.draw \in {ctx.draw, ctx.draw + 1} /\ n.dump \in {ctx.dump, ctx.dump + 1}
        /\ n.dump = ctx.dump => \A i \in DOMAIN c : c[i].type \notin SurfaceKinds
        /\ Counting => n.draw = ctx.draw + IF info.op = "end" THEN 1 ELSE 0
        /\ ~CountsDraws => n.draw = ctx.draw
    BY <1>1, <1>2, <2>3, <2>5 DEF CountsDraws
  <2>. QED
    BY <1>1, <2>2, <2>3, <2>4, <2>6, PostPreserves
<1>3. CASE ~(config \cap {"depth", "color", "pgraph", "pfb"} # {} /\ info.op = "end")
  <2>1. PICK c, n : c = <<>> /\ n = ctx
    OBVIOUS
  <2>2. PostCallback(c, n)
    BY <1>3, <2>1 DEF TraceEnd
  <2>3. Among(c, {"pgraph", "pfb"} \cup SurfaceKinds)
    BY <2>1 DEF Among
  <2>4. /\ c # <<>> => config # {}
        /\ n.draw \in {ctx.draw, ctx.draw + 1} /\ n.dump \in {ctx.dump, ctx.dump + 1}
        /\ n.dump = ctx.dump => \A i \in DOMAIN c : c[i].type \notin SurfaceKinds
        /\ Counting => n.draw = ctx.draw + IF info.op = "end" THEN 1 ELSE 0
        /\ ~CountsDraws => n.draw = ctx.draw
    BY <1>1, <1>3, <2>1 DEF Counting, CountsDraws
  <2>5. info.method \in {"begin_end", "dump"} /\ n \in [draw : Nat, dump : Nat]
    BY <1>1, <2>1
  <2>. QED
    BY <2>2, <2>3, <2>4, <2>5, PostPreserves
<1>. QED
  BY <1>2, <1>3

\* The packet joins the records it left, and the draw that it ended.
LEMMA LogCommandPreserves ==
  ASSUME AuxInv, LogCommand
  PROVE  AuxInv'
<1>. USE DEF Active, Counting, CountsDraws
<1>. DEFINE p == [packet |-> info.packet, draw |-> info.draw, dump |-> info.dump,
                  op |-> info.op]
<1>0. /\ pc = "log" /\ pc' \in {"loop", "idle"} /\ info' = NoInfo
      /\ UNCHANGED <<config, discard, index, ctx, stored>>
      /\ info.packet = index /\ index \in Nat /\ p.packet = index /\ p.op = info.op
      /\ p.draw = info.draw /\ p.dump = info.dump /\ p \in Packets
      /\ Len(logged) \in Nat /\ DOMAIN logged = 1..Len(logged)
      /\ DOMAIN Append(logged, p) = 1..(Len(logged) + 1)
      /\ Append(logged, p)[Len(logged) + 1] = p
      /\ \A j \in DOMAIN logged : Append(logged, p)[j] = logged[j]
      /\ logged' = IF discard \/ info.method = NoMethod THEN logged ELSE Append(logged, p)
  <2>1. info \in Infos /\ logged \in Seq(Packets) /\ index \in Nat /\ info.packet = index
    BY Bounds DEF AuxInv, TypesOK, PlacesOK, LogCommand
  <2>2. p \in Packets
    BY <2>1 DEF Infos, Packets
  <2>3. /\ Len(logged) \in Nat /\ DOMAIN logged = 1..Len(logged)
        /\ DOMAIN Append(logged, p) = 1..(Len(logged) + 1)
        /\ Append(logged, p)[Len(logged) + 1] = p
        /\ \A j \in DOMAIN logged : Append(logged, p)[j] = logged[j]
    BY <2>1, <2>2, Added
  <2>. QED
    BY <2>1, <2>2, <2>3 DEF LogCommand
<1>1. TypesOK'
  <2>1. NoInfo \in Infos
    BY DEF NoInfo, Infos, NoMethod, NoOp
  <2>2. CASE logged' = logged
    BY <2>1, <2>2 DEF AuxInv, LogCommand, TypesOK
  <2>3. CASE logged' = Append(logged, p)
    <3>1. Append(logged, p) \in Seq(Packets)
      BY <1>0, Added DEF AuxInv, TypesOK
    <3>. QED
      BY <2>1, <2>3, <3>1 DEF AuxInv, LogCommand, TypesOK
  <2>. QED
    BY <1>0, <2>2, <2>3
<1>2. PlacesOK'
  BY DEF AuxInv, LogCommand, TypesOK, PlacesOK, NoInfo
<1>3. CountersOK'
  BY DEF AuxInv, LogCommand, TypesOK, PlacesOK, CountersOK
<1>4. TodoOK'
  BY DEF AuxInv, LogCommand, TypesOK, PlacesOK, TodoOK
<1>5. StoredOK'
  BY DEF AuxInv, LogCommand, TypesOK, PlacesOK, CountersOK, StoredOK, Fresh, Surface
<1>6. RecordsDistinct'
  BY DEF AuxInv, LogCommand, RecordsDistinct
<1>7. LoggedOK'
  <2>1. ASSUME NEW s, Joined(s)
        PROVE  Joined(s)'
    BY <1>0, <2>1 DEF Joined
  <2>2. ASSUME NEW i \in DOMAIN stored, stored[i].packet = index
        PROVE  Joined(stored[i])'
    <3>1. Fresh(stored[i])
      BY <1>0, <2>2 DEF AuxInv, StoredOK
    <3>2. logged' = Append(logged, p)
      BY <1>0, <3>1 DEF Fresh, NoMethod
    <3>3. /\ p.packet = stored[i].packet /\ p.draw = stored[i].draw /\ p.dump = stored[i].dump
      BY <1>0, <2>2, <3>1 DEF Fresh
    <3>4. Len(logged) + 1 \in DOMAIN logged' /\ logged'[Len(logged) + 1] = p
      BY <1>0, <3>2
    <3>. QED
      BY <1>0, <3>3, <3>4 DEF Joined
  <2>3. \A i \in DOMAIN stored : Joined(stored[i]) \/ stored[i].packet = index
    BY <1>0 DEF AuxInv, LoggedOK
  <2>4. \A i \in DOMAIN stored' : Joined(stored[i])'
    BY <1>0, <2>1, <2>2, <2>3
  <2>5. ASSUME NEW j \in DOMAIN logged'
        PROVE  /\ logged'[j].packet \in 0..index
               /\ \A k \in DOMAIN logged' : j # k => logged'[j].packet # logged'[k].packet
    <3>1. /\ \A k \in DOMAIN logged : logged[k].packet \in 0..index /\ logged[k].packet < index
          /\ \A k, l \in DOMAIN logged : k # l => logged[k].packet # logged[l].packet
      BY <1>0 DEF AuxInv, LoggedOK
    <3>2. CASE logged' = logged
      BY <2>5, <3>1, <3>2
    <3>3. CASE logged' = Append(logged, p)
      <4>1. ASSUME NEW k \in DOMAIN logged'
            PROVE  \/ k \in DOMAIN logged /\ logged'[k] = logged[k]
                   \/ k = Len(logged) + 1 /\ k \notin DOMAIN logged /\ logged'[k].packet = index
        BY <1>0, <3>3
      <4>. QED
        BY <1>0, <2>5, <3>1, <4>1
    <3>. QED
      BY <1>0, <3>2, <3>3
  <2>. QED
    BY <1>0, <2>4, <2>5 DEF LoggedOK
<1>8. DrawsOK'
  <2>. SUFFICES ASSUME Counting
       PROVE  ctx.draw = Cardinality(Ends')
    BY <1>0 DEF AuxInv, DrawsOK, NoInfo
  <2>1. /\ info.draw = Cardinality(Ends)
        /\ ctx.draw = info.draw + IF info.op = "end" THEN 1 ELSE 0
    BY <1>0 DEF AuxInv, DrawsOK
  <2>2. info.op = "end" => logged' = Append(logged, p)
    BY <1>0 DEF AuxInv, PlacesOK, NoOp, NoMethod
  <2>3. IsFiniteSet(Ends) /\ Cardinality(Ends) \in Nat
    BY EndsFinite DEF AuxInv, TypesOK
  <2>4. CASE info.op = "end"
    <3>1. Ends' = Ends \cup {Len(logged) + 1} /\ Len(logged) + 1 \notin Ends
      BY <1>0, <2>2, <2>4 DEF Ends
    <3>. QED
      <4>1. Cardinality(Ends \cup {Len(logged) + 1}) = Cardinality(Ends) + 1
        BY <2>3, <3>1, FS_AddElement
      <4>. QED
        BY <2>1, <2>4, <3>1, <4>1
  <2>5. CASE info.op # "end"
    <3>1. Ends' = Ends
      BY <1>0, <2>5 DEF Ends
    <3>. QED
      BY <2>1, <2>3, <2>5, <3>1
  <2>. QED
    BY <2>4, <2>5
<1>9. DrawIndexExact'
  <2>. SUFFICES ASSUME ~discard
       PROVE  /\ \A i \in DOMAIN stored, n \in Nat :
                   n = stored[i].packet => stored[i].draw = DrawIndex(n)'
              /\ \A j \in DOMAIN logged', n \in Nat :
                   n = logged'[j].packet => logged'[j].draw = DrawIndex(n)'
    <3>1. stored \in Seq(Records) /\ logged' \in Seq(Packets)
      BY <1>0, <1>1 DEF AuxInv, TypesOK
    <3>2. /\ \A i \in DOMAIN stored : stored[i].packet \in Nat
          /\ \A j \in DOMAIN logged' : logged'[j].packet \in Nat
      <4>1. ASSUME NEW i \in DOMAIN stored
            PROVE  stored[i] \in Records
        BY <3>1
      <4>2. ASSUME NEW j \in DOMAIN logged'
            PROVE  logged'[j] \in Packets
        BY <3>1
      <4>. QED
        BY <4>1, <4>2 DEF Records, Packets
    <3>. QED
      <4>1. stored' = stored /\ (discard => stored = <<>> /\ logged' = <<>>)
        BY <1>0 DEF AuxInv, DrawsOK
      <4>. QED
        BY <3>2, <4>1 DEF DrawIndexExact
  <2>1. ASSUME NEW n \in Nat, n <= index
        PROVE  DrawIndex(n)' = DrawIndex(n)
    <3>1. {j \in DOMAIN logged' : logged'[j].packet < n /\ logged'[j].op = "end"}
          = {j \in DOMAIN logged : logged[j].packet < n /\ logged[j].op = "end"}
      BY <1>0, <2>1
    <3>. QED
      BY <1>0, <3>1 DEF EndsBefore, DrawIndex
  <2>2. /\ \A i \in DOMAIN stored : stored[i].packet \in 1..index
        /\ \A j \in DOMAIN logged : logged[j].packet \in 0..index
    BY <1>0 DEF AuxInv, StoredOK, LoggedOK
  <2>3. /\ \A i \in DOMAIN stored : stored[i].draw = DrawIndex(stored[i].packet)
        /\ \A j \in DOMAIN logged : logged[j].draw = DrawIndex(logged[j].packet)
    BY DEF AuxInv, DrawIndexExact
  <2>4. p.draw = DrawIndex(p.packet)
    <3>1. {j \in DOMAIN logged : logged[j].packet < index /\ logged[j].op = "end"} = Ends
      BY <1>0 DEF AuxInv, LoggedOK, Ends
    <3>. QED
      BY <1>0, <3>1 DEF AuxInv, DrawsOK, EndsBefore, DrawIndex
  <2>5. ASSUME NEW i \in DOMAIN stored, NEW n \in Nat, n = stored[i].packet
        PROVE  stored[i].draw = DrawIndex(n)'
    BY <2>1, <2>2, <2>3, <2>5
  <2>6. ASSUME NEW j \in DOMAIN logged', NEW n \in Nat, n = logged'[j].packet
        PROVE  logged'[j].draw = DrawIndex(n)'
    <3>1. CASE j \in DOMAIN logged
      <4>1. logged'[j] = logged[j]
        BY <1>0, <3>1
      <4>. QED
        BY <2>1, <2>2, <2>3, <2>6, <3>1, <4>1
    <3>2. CASE j \notin DOMAIN logged
      <4>1. logged'[j] = p
        BY <1>0, <2>6, <3>2
      <4>. QED
        BY <1>0, <2>1, <2>4, <2>6, <4>1
    <3>. QED
      BY <3>1, <3>2
  <2>. QED
    BY <2>5, <2>6
<1>. QED
  BY <1>1, <1>2, <1>3, <1>4, <1>5, <1>6, <1>7, <1>8, <1>9 DEF AuxInv

-----------------------------------------------------------------------------
(* The theorems.                                                                *)

LEMMA AuxInit == Init => AuxInv
<1>. SUFFICES ASSUME Init PROVE AuxInv
  OBVIOUS
<1>. USE DEF Init, Active
<1>1. config \in SUBSET Captures /\ logged = <<>> /\ stored = <<>> /\ todo = <<>>
  BY ConfigsAssumption
<1>2. TypesOK
  <2>1. NoInfo \in Infos /\ NewContext \in [draw : Nat, dump : Nat]
    BY DEF NoInfo, Infos, NoMethod, NoOp, NewContext
  <2>2. hasBuffer = (config # {})
    BY DEF AuxCaptureEnabled
  <2>3. todo \in Seq(Whats) /\ stored \in Seq(Records) /\ logged \in Seq(Packets)
    BY <1>1
  <2>4. index \in 0..MaxPackets /\ stage \in 0..Stages /\ failures \in 0..MaxFailures
    BY Bounds
  <2>. QED
    BY <1>1, <2>1, <2>2, <2>3, <2>4 DEF TypesOK
<1>3. PlacesOK /\ CountersOK /\ TodoOK
  BY <1>1 DEF PlacesOK, CountersOK, TodoOK, NoInfo, NewContext
<1>4. StoredOK /\ RecordsDistinct /\ LoggedOK
  BY <1>1 DEF StoredOK, RecordsDistinct, LoggedOK
<1>5. DrawsOK /\ DrawIndexExact
  <2>1. Ends = {}
    BY <1>1 DEF Ends
  <2>2. Cardinality(Ends) = 0
    BY <2>1, FS_EmptySet
  <2>. QED
    BY <1>1, <2>2 DEF DrawsOK, DrawIndexExact, NewContext, NoInfo
<1>. QED
  BY <1>2, <1>3, <1>4, <1>5 DEF AuxInv

LEMMA AuxStep == AuxInv /\ [Next]_vars => AuxInv'
<1>. SUFFICES ASSUME AuxInv, [Next]_vars PROVE AuxInv'
  OBVIOUS
<1>1. CASE ClientStep
  BY <1>1, DetachPreserves, TraceBeginsPreserves DEF ClientStep
<1>2. CASE GameStep
  <2>1. PICK method \in Methods \cup {NoMethod}, op \in Ops \cup {NoOp} :
          (op = NoOp \/ method = "begin_end") /\ NextPacket(method, op)
    BY <1>2 DEF GameStep, Methods, NoMethod
  <2>. QED
    BY <2>1, NextPacketPreserves
<1>3. CASE TracerStep
  <2>1. CASE TraceStops \/ TraceBegin \/ CallbackReturns \/ TraceFails \/ LogCommand
    BY <2>1, TraceStopsPreserves, TraceBeginPreserves, CallbackReturnsPreserves,
       TraceFailsPreserves, LogCommandPreserves
  <2>2. CASE \E layers \in 0..MaxLayers : StoreTextureStage(layers)
    BY <2>2, StoreTextureStagePreserves
  <2>3. CASE \E registers \in SurfaceRegisters : TraceSurfaces(registers) \/ TraceEnd(registers)
    BY <2>3, TraceSurfacesPreserves, TraceEndPreserves
  <2>4. CASE StoreRegion \/ StoreRDI \/ StoreSurface \/ StoreTextureLayer
    BY <2>4, StoreOfPreserves DEF StoreRegion, StoreRDI, StoreSurface, StoreTextureLayer
  <2>. QED
    BY <1>3, <2>1, <2>2, <2>3, <2>4 DEF TracerStep
<1>4. CASE UNCHANGED vars
  <2>. USE <1>4 DEF vars
  <2>1. TypesOK' /\ PlacesOK' /\ CountersOK' /\ TodoOK'
    BY DEF AuxInv, TypesOK, PlacesOK, CountersOK, TodoOK, Active
  <2>2. StoredOK' /\ RecordsDistinct'
    BY DEF AuxInv, StoredOK, Fresh, Surface, RecordsDistinct, Active
  <2>3. LoggedOK' /\ DrawsOK' /\ DrawIndexExact'
    BY DEF AuxInv, LoggedOK, Joined, Active, DrawsOK, Counting, CountsDraws, Ends,
           DrawIndexExact, DrawIndex, EndsBefore
  <2>. QED
    BY <2>1, <2>2, <2>3 DEF AuxInv
<1>. QED
  BY <1>1, <1>2, <1>3, <1>4 DEF Next

\* What a packet's callbacks store, and what the trace has logged, is in step with the
\* counters at every step.
THEOREM AuxInvariant == Spec => []AuxInv
<1>. QED
  BY AuxInit, AuxStep, PTL DEF Spec

\* A trace counts no more draws and dumps than it has packets.
THEOREM AuxTypeCorrect == Spec => []TypeOK
<1>1. AuxInv => TypeOK
  <2>. SUFFICES ASSUME AuxInv PROVE TypeOK
    OBVIOUS
  <2>1. /\ hasBuffer \in BOOLEAN /\ ctx \in [draw : Nat, dump : Nat] /\ info \in Infos
        /\ index \in 0..MaxPackets /\ index \in Nat /\ stage \in 0..Stages
        /\ ctx.draw <= index /\ ctx.dump <= index
    BY Bounds DEF AuxInv, TypesOK, CountersOK
  <2>2. info.packet \in 0..index
    BY <2>1 DEF AuxInv, PlacesOK, NoInfo
  <2>. QED
    BY <2>1, <2>2 DEF AuxInv, TypesOK, TypeOK, Infos
<1>. QED
  BY <1>1, AuxInvariant, PTL

\* LogAuxData is called only when TracerCreate made an aux buffer.
THEOREM CapturesHaveBufferHolds == Spec => []CapturesHaveBuffer
<1>1. AuxInv => CapturesHaveBuffer
  BY DEF AuxInv, TypesOK, TodoOK, CapturesHaveBuffer
<1>. QED
  BY <1>1, AuxInvariant, PTL

\* A record that a trace leaves finds exactly one packet, with its counters, and a packet
\* finds no record twice, whatever was given up and wherever a detach landed.
THEOREM CapturesMatchPacketsHolds == Spec => []CapturesMatchPackets
<1>1. AuxInv => CapturesMatchPackets
  <2>. SUFFICES ASSUME AuxInv, pc \in {"idle", "loop"}, NEW i \in DOMAIN stored
                PROVE  \E j \in DOMAIN logged :
                         /\ logged[j].packet = stored[i].packet
                         /\ logged[j].draw = stored[i].draw /\ logged[j].dump = stored[i].dump
                         /\ \A k \in DOMAIN logged \ {j} : logged[k].packet # stored[i].packet
    BY DEF AuxInv, CapturesMatchPackets
  <2>1. PICK j \in DOMAIN logged :
          /\ logged[j].packet = stored[i].packet
          /\ logged[j].draw = stored[i].draw /\ logged[j].dump = stored[i].dump
    BY DEF AuxInv, LoggedOK, Joined, Active
  <2>2. \A k \in DOMAIN logged \ {j} : logged[k].packet # logged[j].packet
    BY DEF AuxInv, LoggedOK
  <2>. QED
    BY <2>1, <2>2
<1>. QED
  BY <1>1, AuxInvariant, PTL

\* The draw index of every record and packet in every configuration: the number of draws
\* that ended before it where the end of a draw captures something, 0 where it does not.
THEOREM DrawIndexExactHolds == Spec => []DrawIndexExact
<1>1. AuxInv => DrawIndexExact
  BY DEF AuxInv
<1>. QED
  BY <1>1, AuxInvariant, PTL
=============================================================================
