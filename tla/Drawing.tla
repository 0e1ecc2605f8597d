------------------------------ MODULE Drawing ------------------------------
(* The vertex buffers of the development host and the draw calls of its        *)
(* Renderer: src/devhost/src/vertex_buffer.cpp and renderer.cpp.               *)
(*                                                                             *)
(* Two things can go wrong unseen.  The GPU caches vertices by address, and a  *)
(* flag of the buffer decides whether a draw call makes it forget them; and    *)
(* each draw call cuts what it sends into push buffer blocks of its own.  A    *)
(* vertex is its position in the buffer; what the client writes into one is    *)
(* abstracted to whether the GPU's copies are older.                           *)
EXTENDS Integers, SequencesExt

CONSTANTS
  Buffers,   \* addresses that vertex memory is allocated at
  SizeOf,    \* the number of vertices allocated at each
  NoBuffer,
  PerBatch,  \* kVerticesPerPush, 120
  PerPush,   \* kElementsPerPush and kIndicesPerPush, 64
  HalfWord,  \* 2^16, the indices an ARRAY_ELEMENT16 can tell apart
  Layouts,   \* words per vertex of the fields the client enables
  IndexLists \* what the client draws by index

ASSUME BuffersAssumption == NoBuffer \notin Buffers /\ SizeOf \in [Buffers -> Nat \ {0}]
ASSUME PushAssumption    == PerPush \in Nat /\ HalfWord \in Nat \ {0}
\* Whole points, lines, triangles and quads.
ASSUME BatchAssumption   == PerBatch \in Nat \ {0} /\ PerBatch % 12 = 0
ASSUME LayoutAssumption  == Layouts \subseteq Nat \ {0}
ASSUME IndexAssumption   == IndexLists \subseteq Seq(Nat)

Copies == {"normalized", "linear"}

VARIABLES
  buffer,    \* vertex_buffer_ of the Renderer
  allocated, \* the buffers that exist
  valid,     \* cache_valid_ of each
  linear,    \* linear_vertex_buffer_: none, current or outdated
  late,      \* Linearize was called while cache_valid_ was set
  cached,    \* what the GPU holds of each copy: none, fresh or stale
  stage0,    \* texture stage 0 is enabled and has a linear format
  last       \* the last draw call

vars == <<buffer, allocated, valid, linear, late, cached, stage0, last>>

Nothing == [c \in Copies |-> "none"]
NoDraw  == [asked |-> <<>>, blocks |-> <<>>, whole |-> TRUE, prim |-> "POINTS",
            copy |-> "normalized", data |-> "current"]

Init ==
  /\ buffer = NoBuffer /\ allocated = {}
  /\ valid = [b \in Buffers |-> FALSE]
  /\ linear = [b \in Buffers |-> "none"]
  /\ late = [b \in Buffers |-> FALSE]
  /\ cached = [b \in Buffers |-> Nothing]
  /\ stage0 = FALSE
  /\ last = NoDraw

\* The GPU's copies when the memory of one changes.
Aged(held) == IF held = "none" THEN "none" ELSE "stale"

-----------------------------------------------------------------------------
(* The client's calls.                                                         *)

\* The new buffer may get the address of the one it replaces, if nobody else holds
\* that, or of one that was freed before.
AllocateVertexBuffer(b) ==
  /\ b \notin allocated \/ b = buffer
  /\ buffer' = b
  /\ allocated' = allocated \cup {b}
  /\ valid' = [valid EXCEPT ![b] = FALSE]
  /\ linear' = [linear EXCEPT ![b] = "none"]
  /\ late' = [late EXCEPT ![b] = FALSE]
  /\ cached' = [cached EXCEPT ![b] = [c \in Copies |-> Aged(@[c])]]
  /\ last' = NoDraw
  /\ UNCHANGED stage0

\* Mutant: the Renderer holds a pointer to its buffer, not a reference.
FreeHeld(b) ==
  /\ b \in allocated
  /\ allocated' = allocated \ {b}
  /\ valid' = [valid EXCEPT ![b] = FALSE]
  /\ linear' = [linear EXCEPT ![b] = "none"]
  /\ late' = [late EXCEPT ![b] = FALSE]
  /\ last' = NoDraw
  /\ UNCHANGED <<buffer, cached, stage0>>

\* The last reference to a buffer the Renderer does not hold.
Free(b) ==
  /\ b \in allocated /\ b # buffer
  /\ allocated' = allocated \ {b}
  /\ valid' = [valid EXCEPT ![b] = FALSE]
  /\ linear' = [linear EXCEPT ![b] = "none"]
  /\ late' = [late EXCEPT ![b] = FALSE]
  /\ last' = NoDraw
  /\ UNCHANGED <<buffer, cached, stage0>>

SetVertexBuffer(b) ==
  /\ b \in allocated
  /\ buffer' = b
  /\ last' = NoDraw
  /\ UNCHANGED <<allocated, valid, linear, late, cached, stage0>>

\* Mutant: the vertices change and the flag is not touched.
DefineQuietly(b) ==
  /\ b \in allocated
  /\ cached' = [cached EXCEPT ![b].normalized = Aged(@)]
  /\ linear' = [linear EXCEPT ![b] = IF @ = "none" THEN @ ELSE "outdated"]
  /\ last' = NoDraw
  /\ UNCHANGED <<buffer, allocated, valid, late, stage0>>

\* DefineTriangle, DefineBiTri, SetDiffuse and SetSpecular.
Define(b) ==
  /\ b \in allocated
  /\ valid' = [valid EXCEPT ![b] = FALSE]
  /\ cached' = [cached EXCEPT ![b].normalized = Aged(@)]
  /\ linear' = [linear EXCEPT ![b] = IF @ = "none" THEN @ ELSE "outdated"]
  /\ last' = NoDraw
  /\ UNCHANGED <<buffer, allocated, late, stage0>>

\* Lock, writes through the pointer that it returns, and Unlock, which does nothing;
\* Translate is such a client.
Lock(b) == Define(b)

\* The linear copy is made anew; cache_valid_ is left alone.
Linearize(b) ==
  /\ b \in allocated
  /\ linear' = [linear EXCEPT ![b] = "current"]
  /\ cached' = [cached EXCEPT ![b].linear = Aged(@)]
  /\ late' = [late EXCEPT ![b] = @ \/ valid[b]]
  /\ last' = NoDraw
  /\ UNCHANGED <<buffer, allocated, valid, stage0>>

SetStage0 ==
  /\ stage0' = ~stage0
  /\ last' = NoDraw
  /\ UNCHANGED <<buffer, allocated, valid, linear, late, cached>>

-----------------------------------------------------------------------------
(* How the draw calls cut their work into push buffer blocks.  A block is the   *)
(* sequence of the pushes between a pb_begin and its pb_end, a push the         *)
(* vertices it names.                                                           *)

\* Mutant: a batch one vertex longer than the block it was made for.
BatchesOverlong(n) ==
  [k \in 1..((n + PerBatch) \div (PerBatch + 1)) |->
     LET start == (k - 1) * (PerBatch + 1)
     IN <<[i \in 1..(IF n - start < PerBatch + 1 THEN n - start ELSE PerBatch + 1) |->
             start + i - 1]>>]

\* DrawArrays: each batch is between a BEGIN and an END of its own.
Batches(n) ==
  [k \in 1..((n + PerBatch - 1) \div PerBatch) |->
     LET start == (k - 1) * PerBatch
     IN <<[i \in 1..(IF n - start < PerBatch THEN n - start ELSE PerBatch) |->
             start + i - 1]>>]

\* DrawInlineBuffer: every vertex is a block.
Vertices(n) == [k \in 1..n |-> <<<<k - 1>>>>]

Opened == [blocks |-> <<<<>>>>, pushed |-> 0]

Into(blocks, push) == [blocks EXCEPT ![Len(blocks)] = Append(@, push)]

\* DrawInlineArray: the block is ended after the vertex that makes it too long.
PushVertex(words, acc, v) ==
  LET pushed == acc.pushed + words
      blocks == Into(acc.blocks, <<v>>)
  IN IF pushed > PerPush THEN [blocks |-> Append(blocks, <<>>), pushed |-> 0]
                         ELSE [blocks |-> blocks, pushed |-> pushed]

InlineArray(n, words) ==
  FoldLeft(LAMBDA acc, v : PushVertex(words, acc, v), Opened, [k \in 1..n |-> k - 1]).blocks

\* num_pushed++ > kIndicesPerPush: the push that opens a block is not counted.
PushElement(acc, push) ==
  IF acc.pushed > PerPush
    THEN [blocks |-> Append(acc.blocks, <<push>>), pushed |-> 0]
    ELSE [blocks |-> Into(acc.blocks, push), pushed |-> acc.pushed + 1]

\* Mutant: the indices are drawn in pairs and the odd one is forgotten.
Elements16Even(ix) ==
  FoldLeft(PushElement, Opened,
           [k \in 1..(Len(ix) \div 2) |->
              <<ix[2 * k - 1] % HalfWord, ix[2 * k] % HalfWord>>]).blocks

\* DrawInlineElements16: pairs of 16 bits, an odd last index as 32 bits.
Elements16(ix) ==
  LET pairs == FoldLeft(PushElement, Opened,
                        [k \in 1..(Len(ix) \div 2) |->
                           <<ix[2 * k - 1] % HalfWord, ix[2 * k] % HalfWord>>]).blocks
  IN IF Len(ix) % 2 = 0 THEN pairs ELSE Into(pairs, <<ix[Len(ix)]>>)

Elements32(ix) ==
  FoldLeft(PushElement, Opened, [k \in 1..Len(ix) |-> <<ix[k]>>]).blocks

-----------------------------------------------------------------------------
(* The draw calls.                                                              *)

\* DrawPrimitive: how many vertices one takes where primitives share none.
PerPrimitive == [POINTS |-> 1, LINES |-> 2, TRIANGLES |-> 3, QUADS |-> 4]
Lists        == DOMAIN PerPrimitive
Primitives   == Lists \cup {"STRIP"}

\* SetVertexBufferAttributes: the whole cache is broken, whoever filled it.
Kept == IF valid[buffer] THEN cached ELSE [b \in Buffers |-> Nothing]

Copy == IF stage0 THEN "linear" ELSE "normalized"

\* What the GPU takes a vertex from.
Fetched ==
  CASE Kept[buffer][Copy] = "stale"                         -> "stale"
    [] Copy = "linear" /\ linear[buffer] = "none"           -> "null"
    [] Copy = "linear" /\ linear[buffer] = "outdated"       -> "outdated"
    [] OTHER                                                -> "current"

DrawCall(asked, blocks, whole, prim, copy, data) ==
  /\ buffer # NoBuffer
  /\ valid' = [valid EXCEPT ![buffer] = TRUE]
  /\ late' = IF valid[buffer] THEN late ELSE [b \in Buffers |-> FALSE]
  /\ last' = [asked |-> asked, blocks |-> blocks, whole |-> whole, prim |-> prim,
              copy |-> copy, data |-> data]
  /\ UNCHANGED <<buffer, allocated, linear, stage0>>

\* The GPU fetches the vertices and keeps them.
DrawFetched(asked, blocks, whole, prim) ==
  /\ DrawCall(asked, blocks, whole, prim, Copy, Fetched)
  /\ cached' = [Kept EXCEPT ![buffer][Copy] =
                  IF @ = "none" /\ Fetched # "null" THEN "fresh" ELSE @]

\* The CPU reads the normalized copy.  Lock and SetCacheValid undo each other.
DrawInline(asked, blocks) ==
  /\ DrawCall(asked, blocks, TRUE, "STRIP", "normalized", "current")
  /\ cached' = Kept

All(n) == [k \in 1..n |-> k - 1]

DrawArrays(prim) ==
  DrawFetched(All(SizeOf[buffer]), Batches(SizeOf[buffer]), FALSE, prim)

DrawInlineBuffer ==
  DrawInline(All(SizeOf[buffer]), Vertices(SizeOf[buffer]))

DrawInlineArray(words) ==
  DrawInline(All(SizeOf[buffer]), InlineArray(SizeOf[buffer], words))

\* The client's indices are of vertices of the buffer, and "must be < 0xFFFF".
DrawInlineElements16(ix) ==
  /\ \A i \in 1..Len(ix) : ix[i] < HalfWord /\ ix[i] < SizeOf[buffer]
  /\ DrawFetched(ix, Elements16(ix), TRUE, "STRIP")

DrawInlineElements32(ix) ==
  /\ \A i \in 1..Len(ix) : ix[i] < SizeOf[buffer]
  /\ DrawFetched(ix, Elements32(ix), TRUE, "STRIP")

\* ConvertFromTriangleStripToTriangles: src is the newest vertex that was copied.
CopyTriangle(acc, i) ==
  [src |-> acc.src + 1,
   dst |-> acc.dst \o IF i % 2 = 1 THEN <<acc.src, acc.src - 1, acc.src + 1>>
                                   ELSE <<acc.src - 1, acc.src, acc.src + 1>>]

Triangles(n) ==
  FoldLeft(CopyTriangle, [src |-> 2, dst |-> <<0, 1, 2>>], [i \in 1..(n - 3) |-> i]).dst

\* What a strip means: with each vertex a triangle of the last three, every other one
\* with its first two swapped so that all have the winding of the first.
StripTriangle(i) == IF i % 2 = 0 THEN <<i, i + 1, i + 2>> ELSE <<i + 1, i, i + 2>>
Strip(n) == FlattenSeq([k \in 1..(n - 2) |-> StripTriangle(k - 1)])

\* The buffer is a strip; it is converted and given away.
ConvertStrip ==
  /\ SizeOf[buffer] >= 3
  /\ last' = [NoDraw EXCEPT !.asked = Strip(SizeOf[buffer]),
                            !.blocks = <<<<Triangles(SizeOf[buffer])>>>>]
  /\ UNCHANGED <<buffer, allocated, valid, linear, late, cached, stage0>>

Draw ==
  \/ \E prim \in Primitives : DrawArrays(prim)
  \/ DrawInlineBuffer
  \/ \E words \in Layouts : DrawInlineArray(words)
  \/ \E ix \in IndexLists : DrawInlineElements16(ix) \/ DrawInlineElements32(ix)

Next ==
  \/ \E b \in Buffers : \/ AllocateVertexBuffer(b) \/ Free(b) \/ SetVertexBuffer(b)
                        \/ Define(b) \/ Lock(b) \/ Linearize(b)
  \/ SetStage0
  \/ buffer # NoBuffer /\ (Draw \/ ConvertStrip)

Spec == Init /\ [][Next]_vars

-----------------------------------------------------------------------------
\* Every variable stays in its type; the Renderer holds a buffer that exists.
TypeOK ==
  /\ buffer \in allocated \cup {NoBuffer} /\ allocated \subseteq Buffers
  /\ valid \in [Buffers -> BOOLEAN] /\ late \in [Buffers -> BOOLEAN]
  /\ linear \in [Buffers -> {"none", "current", "outdated"}]
  /\ cached \in [Buffers -> [Copies -> {"none", "fresh", "stale"}]]
  /\ stage0 \in BOOLEAN
  /\ last.copy \in Copies /\ last.data \in {"current", "stale", "null", "outdated"}

\* No draw call uses vertices that are older than the client's last change to them:
\* not after a buffer is changed between draws of others, nor after one is freed and
\* another takes its address.  With a linear texture that holds for a buffer that was
\* linearized after its last change and before the draw that made its cache valid.
DrawsCurrentVertices ==
  /\ last.copy = "normalized" => last.data = "current"
  /\ last.copy = "linear" /\ last.data = "stale" => late[buffer]

\* Every draw call sends the vertices it was asked for, each once and in order,
\* wherever it starts a new block and however it packs them; and a strip that is
\* converted draws the same triangles with the same winding.
DrawnAsAsked == FlattenSeq(FlattenSeq(last.blocks)) = last.asked

\* DrawArrays, which begins a new primitive with each batch, cuts no point, line,
\* triangle or quad in two; a strip, fan or polygon only if it exceeds a batch.
PrimitivesWhole ==
  ~last.whole =>
    IF last.prim \in Lists
      THEN \A k \in 1..(Len(last.blocks) - 1) :
             Len(last.blocks[k][1]) % PerPrimitive[last.prim] = 0
      ELSE Len(last.asked) <= PerBatch => Len(last.blocks) <= 1

\* Why the vertices are current: what a valid buffer may leave in the cache.
CacheInv ==
  /\ \A b \in allocated : valid[b] => cached[b].normalized # "stale"
  /\ \A b \in allocated : valid[b] /\ cached[b].linear = "stale" => late[b]
=============================================================================
