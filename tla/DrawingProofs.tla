--------------------------- MODULE DrawingProofs ---------------------------
(* For all vertex buffers, sizes, layouts and index lists: no draw call uses   *)
(* vertices that are older than the client's last change to them, and each     *)
(* sends what it was asked for, however many blocks that takes.                *)
(*                                                                             *)
(* The blocks are computed by FoldLeft and flattened by FlattenSeq, which are  *)
(* recursive functions.  What they compute is shown one element at a time, by  *)
(* an induction over the naturals that is stated with a set.                   *)
EXTENDS Drawing, WellFoundedInduction, TLAPS

-----------------------------------------------------------------------------
(* The cache of the GPU.                                                      *)

\* What the GPU holds of a buffer's two copies.
Held == [Copies -> {"none", "fresh", "stale"}]

\* Memory that changes ages the copies of it.
LEMMA AgedType ==
  /\ \A held \in {"none", "fresh", "stale"} : Aged(held) \in {"none", "fresh", "stale"}
  /\ \A h \in Held : [c \in Copies |-> Aged(h[c])] \in Held
  /\ \A h \in Held, c \in Copies : [h EXCEPT ![c] = Aged(@)] \in Held
  /\ Nothing \in Held
BY DEF Aged, Held, Copies, Nothing

\* What a draw call leaves of the cache is what it was, or nothing.
LEMMA KeptType ==
  ASSUME cached \in [Buffers -> Held]
  PROVE  Kept \in [Buffers -> Held]
BY AgedType DEF Kept

DrawInv == TypeOK /\ CacheInv /\ DrawsCurrentVertices

\* Nothing is drawn yet.
LEMMA DrawInitially == Init => DrawInv
<1>. SUFFICES ASSUME Init PROVE DrawInv
  OBVIOUS
<1>1. TypeOK
  BY AgedType DEF Init, TypeOK, NoDraw, Copies, Held
<1>2. CacheInv
  BY DEF Init, CacheInv
<1>3. DrawsCurrentVertices
  BY DEF Init, DrawsCurrentVertices, NoDraw
<1>. QED
  BY <1>1, <1>2, <1>3 DEF DrawInv

\* The calls that are no draw calls.
LEMMA ClientPreserves ==
  ASSUME DrawInv, NEW b \in Buffers,
         \/ AllocateVertexBuffer(b) \/ Free(b) \/ SetVertexBuffer(b)
         \/ Define(b) \/ Lock(b) \/ Linearize(b)
  PROVE  DrawInv'
<1>. USE DEF DrawInv, TypeOK, Held
<1>1. last' = NoDraw
  BY DEF AllocateVertexBuffer, Free, SetVertexBuffer, Define, Lock, Linearize
<1>2. DrawsCurrentVertices' /\ last'.copy \in Copies /\ last'.data = "current"
  BY <1>1 DEF DrawsCurrentVertices, NoDraw, Copies
<1>3. CASE AllocateVertexBuffer(b)
  BY <1>2, <1>3, AgedType DEF AllocateVertexBuffer, CacheInv
<1>4. CASE Free(b)
  BY <1>2, <1>4 DEF Free, CacheInv
<1>5. CASE SetVertexBuffer(b)
  BY <1>2, <1>5 DEF SetVertexBuffer, CacheInv
<1>6. CASE Define(b) \/ Lock(b)
  <2>1. Define(b)
    BY <1>6 DEF Lock
  <2>2. cached' \in [Buffers -> Held] /\ linear' \in [Buffers -> {"none", "current", "outdated"}]
    BY <2>1, AgedType DEF Define, Copies
  <2>3. \A o \in Buffers : o # b => cached'[o] = cached[o] /\ valid'[o] = valid[o]
    BY <2>1 DEF Define
  <2>4. ~valid'[b] /\ valid' \in [Buffers -> BOOLEAN]
    BY <2>1 DEF Define
  <2>5. CacheInv'
    BY <2>1, <2>2, <2>3, <2>4 DEF Define, CacheInv
  <2>6. TypeOK'
    BY <1>2, <2>1, <2>2, <2>4 DEF Define
  <2>. QED
    BY <1>2, <2>5, <2>6
<1>7. CASE Linearize(b)
  <2>1. late' \in [Buffers -> BOOLEAN] /\ late'[b] = (late[b] \/ valid[b])
    BY <1>7 DEF Linearize
  <2>2. \A o \in Buffers : o # b => late'[o] = late[o] /\ cached'[o] = cached[o]
    BY <1>7 DEF Linearize
  <2>3. /\ cached' \in [Buffers -> Held]
        /\ cached'[b].normalized = cached[b].normalized
    BY <1>7, AgedType DEF Linearize, Copies
  <2>4. CacheInv'
    BY <1>7, <2>1, <2>2, <2>3 DEF Linearize, CacheInv
  <2>5. TypeOK'
    BY <1>2, <1>7, <2>1, <2>3 DEF Linearize
  <2>. QED
    BY <1>2, <2>4, <2>5
<1>. QED
  BY <1>3, <1>4, <1>5, <1>6, <1>7

\* What every draw call does, given what it leaves in the cache.
LEMMA DrawCallPreserves ==
  ASSUME DrawInv, buffer # NoBuffer,
         NEW asked, NEW blocks, NEW whole, NEW prim, NEW copy \in Copies,
         NEW data \in {"current", "stale", "null", "outdated"},
         DrawCall(asked, blocks, whole, prim, copy, data),
         cached' \in [Buffers -> Held],
         \A b \in Buffers : b # buffer => cached'[b] = Kept[b],
         \A c \in Copies : cached'[buffer][c] = "stale" => Kept[buffer][c] = "stale",
         copy = "normalized" => data = "current",
         data = "stale" => Kept[buffer][copy] = "stale"
  PROVE  DrawInv'
<1>. USE DEF DrawInv, TypeOK, Held
<1>1. buffer \in allocated /\ allocated \subseteq Buffers
  OBVIOUS
<1>2. TypeOK'
  BY <1>1 DEF DrawCall
<1>3. CASE valid[buffer]
  <2>1. Kept = cached /\ late' = late /\ valid' = valid
    BY <1>1, <1>3 DEF DrawCall, Kept
  <2>2. CacheInv'
    BY <1>1, <1>3, <2>1 DEF DrawCall, CacheInv, Copies
  <2>3. DrawsCurrentVertices'
    BY <1>1, <1>3, <2>1 DEF DrawCall, CacheInv, DrawsCurrentVertices, Copies
  <2>. QED
    BY <1>2, <2>2, <2>3
<1>4. CASE ~valid[buffer]
  <2>1. \A b \in Buffers, c \in Copies : Kept[b][c] = "none"
    BY <1>4 DEF Kept, Nothing
  <2>2. \A b \in Buffers, c \in Copies : cached'[b][c] # "stale"
    BY <2>1
  <2>3. CacheInv' /\ data # "stale"
    BY <1>1, <2>1, <2>2 DEF DrawCall, CacheInv, Copies
  <2>4. DrawsCurrentVertices'
    BY <2>3 DEF DrawCall, DrawsCurrentVertices
  <2>. QED
    BY <1>2, <2>3, <2>4
<1>. QED
  BY <1>3, <1>4

\* A draw call that has the GPU fetch the vertices.
LEMMA FetchedPreserves ==
  ASSUME DrawInv, buffer # NoBuffer, NEW asked, NEW blocks, NEW whole, NEW prim,
         DrawFetched(asked, blocks, whole, prim)
  PROVE  DrawInv'
<1>1. buffer \in Buffers /\ Kept \in [Buffers -> Held] /\ Copy \in Copies
  BY KeptType DEF DrawInv, TypeOK, Held, Copy, Copies
<1>2. Fetched \in {"current", "stale", "null", "outdated"}
  BY DEF Fetched
<1>3. Fetched = "stale" => Kept[buffer][Copy] = "stale"
  BY DEF Fetched
<1>4. Copy = "normalized" => Fetched = "current"
  <2>1. Copy = "normalized" => Kept[buffer][Copy] # "stale"
    BY <1>1 DEF Kept, DrawInv, CacheInv, TypeOK, Nothing, Copies
  <2>. QED
    BY <2>1 DEF Fetched
<1>5. cached' = [Kept EXCEPT ![buffer][Copy] =
                   IF @ = "none" /\ Fetched # "null" THEN "fresh" ELSE @]
  BY DEF DrawFetched
<1>6. /\ cached' \in [Buffers -> Held]
      /\ \A b \in Buffers : b # buffer => cached'[b] = Kept[b]
      /\ \A c \in Copies : cached'[buffer][c] = "stale" => Kept[buffer][c] = "stale"
  BY <1>1, <1>5 DEF Held, Copies
<1>7. DrawCall(asked, blocks, whole, prim, Copy, Fetched)
  BY DEF DrawFetched
<1>. QED
  BY <1>1, <1>2, <1>3, <1>4, <1>6, <1>7, DrawCallPreserves

\* A draw call for which the CPU reads them.
LEMMA InlinePreserves ==
  ASSUME DrawInv, buffer # NoBuffer, NEW asked, NEW blocks, DrawInline(asked, blocks)
  PROVE  DrawInv'
<1>1. Kept \in [Buffers -> Held]
  BY KeptType DEF DrawInv, TypeOK, Held
<1>2. cached' = Kept /\ DrawCall(asked, blocks, TRUE, "STRIP", "normalized", "current")
  BY DEF DrawInline
<1>3. "normalized" \in Copies
  BY DEF Copies
<1>. QED
  BY <1>1, <1>2, <1>3, DrawCallPreserves

\* Every step keeps it.
LEMMA DrawInductive == Spec => []DrawInv
<1>1. DrawInv /\ [Next]_vars => DrawInv'
  <2>. SUFFICES ASSUME DrawInv, [Next]_vars PROVE DrawInv'
    OBVIOUS
  <2>1. CASE \E b \in Buffers : \/ AllocateVertexBuffer(b) \/ Free(b) \/ SetVertexBuffer(b)
                                \/ Define(b) \/ Lock(b) \/ Linearize(b)
    BY <2>1, ClientPreserves
  <2>2. CASE SetStage0
    BY <2>2 DEF SetStage0, DrawInv, TypeOK, CacheInv, DrawsCurrentVertices, NoDraw, Copies
  <2>3. ASSUME buffer # NoBuffer, NEW prim \in Primitives, DrawArrays(prim) PROVE DrawInv'
    BY <2>3, FetchedPreserves DEF DrawArrays
  <2>4. CASE buffer # NoBuffer /\ DrawInlineBuffer
    BY <2>4, InlinePreserves DEF DrawInlineBuffer
  <2>5. ASSUME buffer # NoBuffer, NEW words \in Layouts, DrawInlineArray(words) PROVE DrawInv'
    BY <2>5, InlinePreserves DEF DrawInlineArray
  <2>6. ASSUME buffer # NoBuffer, NEW ix \in IndexLists,
               DrawInlineElements16(ix) \/ DrawInlineElements32(ix)
        PROVE  DrawInv'
    BY <2>6, FetchedPreserves DEF DrawInlineElements16, DrawInlineElements32
  <2>7. CASE ConvertStrip
    <3>1. last'.copy = "normalized" /\ last'.data = "current"
      BY <2>7 DEF ConvertStrip, NoDraw
    <3>. QED
      BY <2>7, <3>1 DEF ConvertStrip, DrawInv, TypeOK, CacheInv, DrawsCurrentVertices, Copies
  <2>8. CASE UNCHANGED vars
    BY <2>8 DEF vars, DrawInv, TypeOK, CacheInv, DrawsCurrentVertices
  <2>. QED
    BY <2>1, <2>2, <2>3, <2>4, <2>5, <2>6, <2>7, <2>8 DEF Next, Draw
<1>. QED
  BY <1>1, DrawInitially, PTL DEF Spec

\* The Renderer never holds a buffer that was freed, and what it keeps of its draw calls
\* stays in its type.
THEOREM BufferHeld == Spec => []TypeOK
BY DrawInductive, PTL DEF DrawInv

\* However vertices are defined, locked, linearized, allocated and freed between the
\* draw calls: the cache is broken before older ones would be drawn.
THEOREM VerticesAreCurrent == Spec => []DrawsCurrentVertices
BY DrawInductive, PTL DEF DrawInv

-----------------------------------------------------------------------------
(* Induction over the naturals, from the least element of a set of them.       *)

\* A set of naturals that is not empty has a least element.
LEMMA LeastNat ==
  ASSUME NEW S \in SUBSET Nat, S # {}
  PROVE  \E x \in S : \A y \in S : x <= y
<1>. DEFINE R == {p \in Nat \X Nat : p[1] < p[2]}
<1>1. IsWellFoundedOn(R, Nat)
  BY NatLessThanWellFounded, Zenon DEF OpToRel
<1>2. \A x, y \in Nat : y < x => <<y, x>> \in R
  OBVIOUS
<1>. HIDE DEF R
<1>3. \E x \in S : \A y \in S : ~(<<y, x>> \in R)
  BY <1>1, WFMin
<1>4. \A x, y \in S : ~(y < x) => x <= y
  OBVIOUS
<1>. QED
  BY <1>2, <1>3, <1>4

\* A set that has zero and with each number the next has all of them.
LEMMA Induction ==
  ASSUME NEW S, 0 \in S, \A n \in Nat : n \in S => n + 1 \in S
  PROVE  \A n \in Nat : n \in S
<1>. SUFFICES ASSUME Nat \ S # {} PROVE FALSE
  OBVIOUS
<1>1. PICK x \in Nat \ S : \A y \in Nat \ S : x <= y
  BY LeastNat
<1>2. x # 0 /\ x - 1 \in Nat /\ x - 1 \in S
  BY <1>1
<1>. QED
  BY <1>1, <1>2

-----------------------------------------------------------------------------
(* What FlattenSeq and FoldLeft compute, one element at a time.                *)

\* A sequence with one more element.
LEMMA AppendFacts ==
  ASSUME NEW S, NEW q \in Seq(S), NEW x \in S
  PROVE  /\ Append(q, x) \in Seq(S) /\ Append(q, x) # <<>>
         /\ Len(q) \in Nat /\ Len(Append(q, x)) = Len(q) + 1
         /\ Append(q, x)[Len(q) + 1] = x /\ \A i \in 1..Len(q) : Append(q, x)[i] = q[i]
<1>1. Len(Append(q, x)) = Len(q) + 1 /\ Len(q) \in Nat
  OBVIOUS
<1>2. Append(q, x) # <<>>
  BY <1>1
<1>. QED
  BY <1>1, <1>2

\* f is the recursive function that FlattenSeq chooses, up to n.
Flattens(f, s, n) == \A i \in 1..n : f[i] = IF i = 1 THEN s[1] ELSE f[i - 1] \o s[i]

\* Such a function exists.
LEMMA FlattenExists ==
  ASSUME NEW T, NEW s \in Seq(Seq(T))
  PROVE  \E f \in [1..Len(s) -> Seq(T)] : Flattens(f, s, Len(s))
<1>. DEFINE S == {n \in Nat : n <= Len(s) =>
                    \E f \in [1..n -> Seq(T)] : Flattens(f, s, n)}
<1>1. 0 \in S
  <2>1. 1..0 = {}
    OBVIOUS
  <2>2. [i \in 1..0 |-> <<>>] \in [1..0 -> Seq(T)] /\ Flattens([i \in 1..0 |-> <<>>], s, 0)
    BY <2>1 DEF Flattens
  <2>. QED
    BY <2>2
<1>2. ASSUME NEW n \in Nat, n \in S, n + 1 <= Len(s)
      PROVE  \E f \in [1..(n + 1) -> Seq(T)] : Flattens(f, s, n + 1)
  <2>1. PICK f \in [1..n -> Seq(T)] : Flattens(f, s, n)
    BY <1>2
  <2>. DEFINE e == IF n = 0 THEN s[1] ELSE f[n] \o s[n + 1]
              g == [i \in 1..(n + 1) |-> IF i = n + 1 THEN e ELSE f[i]]
  <2>2. e \in Seq(T)
    <3>1. s[n + 1] \in Seq(T) /\ (n = 0 => s[1] \in Seq(T))
      BY <1>2
    <3>2. n # 0 => f[n] \in Seq(T)
      BY <2>1
    <3>. QED
      BY <3>1, <3>2
  <2>6. n = 0 => e = s[1]
    OBVIOUS
  <2>7. n # 0 => e = f[n] \o s[n + 1]
    OBVIOUS
  <2>. HIDE DEF e
  <2>3. g \in [1..(n + 1) -> Seq(T)]
    BY <2>1, <2>2
  <2>4. \A i \in 1..n : g[i] = f[i]
    OBVIOUS
  <2>5. ASSUME NEW i \in 1..(n + 1)
        PROVE  g[i] = IF i = 1 THEN s[1] ELSE g[i - 1] \o s[i]
    <3>1. CASE i = n + 1
      <4>1. g[i] = e
        BY <3>1
      <4>2. n # 0 => g[i - 1] = f[n]
        BY <2>4, <3>1
      <4>. QED
        <5>1. i = 1 <=> n = 0
          BY <3>1
        <5>. QED
          BY <2>6, <2>7, <3>1, <4>1, <4>2, <5>1
    <3>2. CASE i # n + 1
      <4>1. i \in 1..n /\ (i # 1 => i - 1 \in 1..n)
        BY <3>2
      <4>2. g[i] = f[i] /\ (i # 1 => g[i - 1] = f[i - 1])
        BY <2>4, <4>1
      <4>3. f[i] = IF i = 1 THEN s[1] ELSE f[i - 1] \o s[i]
        BY <2>1, <4>1 DEF Flattens
      <4>. QED
        BY <4>2, <4>3
    <3>. QED
      BY <3>1, <3>2
  <2>. QED
    BY <2>3, <2>5 DEF Flattens
<1>3. \A n \in Nat : n \in S => n + 1 \in S
  BY <1>2
<1>. HIDE DEF S
<1>4. Len(s) \in S
  BY <1>1, <1>3, Induction
<1>. QED
  BY <1>4 DEF S

\* It is the one that FlattenSeq chooses.
LEMMA FlattenIs ==
  ASSUME NEW T, NEW s \in Seq(Seq(T)), s # <<>>
  PROVE  \E f \in [1..Len(s) -> Seq(T)] :
           Flattens(f, s, Len(s)) /\ FlattenSeq(s) = f[Len(s)]
<1>. DEFINE F(f) == [i \in 1..Len(s) |-> IF i = 1 THEN s[i] ELSE f[i - 1] \o s[i]]
            h == CHOOSE f : f = F(f)
<1>1. PICK f \in [1..Len(s) -> Seq(T)] : Flattens(f, s, Len(s))
  BY FlattenExists
<1>2. f = F(f)
  BY <1>1 DEF Flattens
<1>3. h = F(h)
  BY <1>2
<1>4. FlattenSeq(s) = h[Len(s)]
  BY DEF FlattenSeq
<1>5. \A i \in 1..Len(s) : h[i] = IF i = 1 THEN s[i] ELSE h[i - 1] \o s[i]
  BY <1>3
<1>6. DOMAIN h = 1..Len(s)
  BY <1>3
<1>. HIDE DEF h
<1>7. \A i \in 1..Len(s) : h[i] \in Seq(T)
  <2>. DEFINE S == {n \in Nat : n + 1 \in 1..Len(s) => h[n + 1] \in Seq(T)}
  <2>1. 0 \in S
    BY <1>5
  <2>2. ASSUME NEW n \in Nat, n \in S, n + 2 \in 1..Len(s)
        PROVE  h[n + 2] \in Seq(T)
    <3>1. h[n + 1] \in Seq(T) /\ s[n + 2] \in Seq(T)
      BY <2>2
    <3>2. h[n + 2] = h[n + 1] \o s[n + 2]
      <4>1. (n + 2) - 1 = n + 1 /\ n + 2 # 1
        OBVIOUS
      <4>. QED
        BY <1>5, <2>2, <4>1
    <3>. QED
      BY <3>1, <3>2
  <2>3. \A n \in Nat : n \in S => n + 1 \in S
    BY <2>2
  <2>. HIDE DEF S
  <2>4. \A n \in Nat : n \in S
    BY <2>1, <2>3, Induction
  <2>5. \A i \in 1..Len(s) : i - 1 \in S
    BY <2>4
  <2>. QED
    BY <2>5 DEF S
<1>8. h \in [1..Len(s) -> Seq(T)]
  BY <1>3, <1>7
<1>9. Flattens(h, s, Len(s))
  BY <1>5 DEF Flattens
<1>. QED
  BY <1>4, <1>8, <1>9

\* What is flattened is of the elements.
LEMMA FlattenType ==
  ASSUME NEW T, NEW s \in Seq(Seq(T))
  PROVE  FlattenSeq(s) \in Seq(T)
<1>1. CASE s = <<>>
  BY <1>1 DEF FlattenSeq
<1>2. CASE s # <<>>
  <2>1. Len(s) \in 1..Len(s)
    BY <1>2
  <2>2. \E f \in [1..Len(s) -> Seq(T)] : FlattenSeq(s) = f[Len(s)]
    BY <1>2, FlattenIs
  <2>. QED
    BY <2>1, <2>2
<1>. QED
  BY <1>1, <1>2

\* Nothing flattens to nothing.
LEMMA FlattenEmpty == FlattenSeq(<<>>) = <<>>
BY DEF FlattenSeq

\* One more sequence is added at the end.
LEMMA FlattenAppend ==
  ASSUME NEW T, NEW s \in Seq(Seq(T)), NEW e \in Seq(T)
  PROVE  FlattenSeq(Append(s, e)) = FlattenSeq(s) \o e
<1>. DEFINE t == Append(s, e)
            m == Len(s)
<1>1. /\ t \in Seq(Seq(T)) /\ Len(t) = m + 1 /\ t # <<>> /\ m \in Nat /\ t[m + 1] = e
      /\ \A i \in 1..m : t[i] = s[i]
  BY AppendFacts
<1>. HIDE DEF t
<1>2. PICK g \in [1..(m + 1) -> Seq(T)] : Flattens(g, t, m + 1) /\ FlattenSeq(t) = g[m + 1]
  BY <1>1, FlattenIs
<1>3. CASE s = <<>>
  <2>1. m = 0 /\ 1 \in 1..(m + 1)
    BY <1>3
  <2>2. g[1] = e
    BY <1>1, <1>2, <2>1 DEF Flattens
  <2>3. FlattenSeq(s) = <<>>
    BY <1>3, FlattenEmpty
  <2>. QED
    BY <1>2, <2>1, <2>2, <2>3 DEF t
<1>4. CASE s # <<>>
  <2>1. PICK f \in [1..m -> Seq(T)] : Flattens(f, s, m) /\ FlattenSeq(s) = f[m]
    BY <1>4, FlattenIs
  <2>2. m \in 1..m /\ m + 1 \in 1..(m + 1) /\ m + 1 # 1
    BY <1>4
  <2>3. f[m] = g[m]
    <3>. DEFINE S == {n \in Nat : n + 1 \in 1..m => f[n + 1] = g[n + 1]}
    <3>1. 0 \in S
      <4>1. 1 \in 1..m /\ 1 \in 1..(m + 1)
        BY <1>1, <2>2
      <4>2. f[1] = s[1] /\ g[1] = t[1]
        BY <1>2, <2>1, <4>1 DEF Flattens
      <4>. QED
        BY <1>1, <4>1, <4>2
    <3>2. ASSUME NEW n \in Nat, n \in S, n + 2 \in 1..m
          PROVE  f[n + 2] = g[n + 2]
      <4>1. f[n + 1] = g[n + 1]
        BY <3>2
      <4>2. f[n + 2] = f[n + 1] \o s[n + 2]
        <5>1. (n + 2) - 1 = n + 1 /\ n + 2 # 1
          OBVIOUS
        <5>. QED
          BY <2>1, <3>2, <5>1 DEF Flattens
      <4>3. g[n + 2] = g[n + 1] \o t[n + 2]
        <5>1. (n + 2) - 1 = n + 1 /\ n + 2 # 1 /\ n + 2 \in 1..(m + 1)
          BY <1>1, <3>2
        <5>. QED
          BY <1>2, <5>1 DEF Flattens
      <4>. QED
        BY <1>1, <3>2, <4>1, <4>2, <4>3
    <3>3. \A n \in Nat : n \in S => n + 1 \in S
      BY <3>2
    <3>. HIDE DEF S
    <3>4. \A n \in Nat : n \in S
      BY <3>1, <3>3, Induction
    <3>5. m - 1 \in Nat /\ (m - 1) + 1 = m
      BY <1>1, <2>2
    <3>6. m - 1 \in S
      BY <3>4, <3>5
    <3>. QED
      BY <2>2, <3>5, <3>6 DEF S
  <2>4. g[m + 1] = g[m] \o t[m + 1]
    <3>1. (m + 1) - 1 = m
      BY <1>1
    <3>. QED
      BY <1>2, <2>2, <3>1 DEF Flattens
  <2>. QED
    BY <1>1, <1>2, <2>1, <2>3, <2>4 DEF t
<1>. QED
  BY <1>3, <1>4

\* The largest of the numbers up to n, and of a part of them that has n + 1.
LEMMA LargestOf ==
  ASSUME NEW n \in Nat, NEW u \in SUBSET (1..(n + 1)), n + 1 \in u
  PROVE  Max(u) = n + 1
<1>1. \A y \in u : n + 1 >= y
  OBVIOUS
<1>2. ASSUME NEW x \in u, \A y \in u : x >= y PROVE x = n + 1
  <2>1. x >= n + 1 /\ x \in 1..(n + 1)
    BY <1>2
  <2>. QED
    BY <2>1
<1>. DEFINE P(x) == \A y \in u : x >= y
<1>. QED
  BY <1>1, <1>2 DEF Max

\* The largest of them is one of them.
LEMMA LargestIn ==
  ASSUME NEW n \in Nat, NEW u \in SUBSET (1..n), u # {}
  PROVE  Max(u) \in u
<1>. DEFINE S == {m \in Nat : \A v \in SUBSET (1..m) : v # {} =>
                               \E x \in v : \A y \in v : x >= y}
<1>1. 0 \in S
  <2>1. 1..0 = {}
    OBVIOUS
  <2>. QED
    BY <2>1
<1>2. ASSUME NEW m \in Nat, m \in S, NEW v \in SUBSET (1..(m + 1)), v # {}
      PROVE  \E x \in v : \A y \in v : x >= y
  <2>1. CASE m + 1 \in v
    BY <2>1
  <2>2. CASE m + 1 \notin v
    <3>1. v \in SUBSET (1..m)
      BY <2>2
    <3>. QED
      BY <1>2, <3>1
  <2>. QED
    BY <2>1, <2>2
<1>3. \A m \in Nat : m \in S => m + 1 \in S
  BY <1>2
<1>. HIDE DEF S
<1>4. n \in S
  BY <1>1, <1>3, Induction
<1>5. \E x \in u : \A y \in u : x >= y
  BY <1>4 DEF S
<1>. QED
  BY <1>5 DEF Max

\* h is the recursive function on the parts of 1..n that FoldLeft chooses for op.
Folds(h, op, b, s, n) ==
  \A u \in SUBSET (1..n) :
    h[u] = IF u = {} THEN b ELSE op[h[u \ {Max(u)}]][s[Max(u)]]

\* Such a function exists.
LEMMA FoldExists ==
  ASSUME NEW D, NEW T, NEW op \in [D -> [T -> D]], NEW b \in D, NEW s \in Seq(T)
  PROVE  \E h \in [SUBSET (1..Len(s)) -> D] : Folds(h, op, b, s, Len(s))
<1>. DEFINE Foldable(n) == \E h \in [SUBSET (1..n) -> D] : Folds(h, op, b, s, n)
            S == {n \in Nat : n <= Len(s) => Foldable(n)}
<1>1. 0 \in S
  <2>1. \A u \in SUBSET (1..0) : u = {}
    OBVIOUS
  <2>2. [u \in SUBSET (1..0) |-> b] \in [SUBSET (1..0) -> D]
        /\ Folds([u \in SUBSET (1..0) |-> b], op, b, s, 0)
    BY <2>1 DEF Folds
  <2>3. Foldable(0)
    BY <2>2
  <2>. HIDE DEF Foldable
  <2>. QED
    BY <2>3
<1>2. ASSUME NEW n \in Nat, Foldable(n), n + 1 <= Len(s)
      PROVE  Foldable(n + 1)
  <2>1. PICK h \in [SUBSET (1..n) -> D] : Folds(h, op, b, s, n)
    BY <1>2
  <2>. DEFINE g == [u \in SUBSET (1..(n + 1)) |->
                      IF n + 1 \in u THEN op[h[u \ {n + 1}]][s[n + 1]] ELSE h[u]]
  <2>2. s[n + 1] \in T
    BY <1>2
  <2>3. \A u \in SUBSET (1..(n + 1)) : u \ {n + 1} \in SUBSET (1..n)
    OBVIOUS
  <2>4. \A u \in SUBSET (1..(n + 1)) : n + 1 \notin u => u \in SUBSET (1..n)
    OBVIOUS
  <2>5. \A u \in SUBSET (1..n) : u \in SUBSET (1..(n + 1)) /\ n + 1 \notin u
    OBVIOUS
  <2>6. ASSUME NEW u \in SUBSET (1..(n + 1))
        PROVE  (IF n + 1 \in u THEN op[h[u \ {n + 1}]][s[n + 1]] ELSE h[u]) \in D
    <3>1. CASE n + 1 \in u
      <4>1. h[u \ {n + 1}] \in D
        BY <2>1, <2>3
      <4>2. op[h[u \ {n + 1}]] \in [T -> D]
        BY <4>1
      <4>3. op[h[u \ {n + 1}]][s[n + 1]] \in D
        BY <2>2, <4>2
      <4>. QED
        BY <3>1, <4>3
    <3>2. CASE n + 1 \notin u
      BY <2>1, <2>4, <3>2
    <3>. QED
      BY <3>1, <3>2
  <2>7. g \in [SUBSET (1..(n + 1)) -> D]
    BY <2>6
  <2>8. \A u \in SUBSET (1..n) : g[u] = h[u]
    BY <2>5
  <2>9. ASSUME NEW u \in SUBSET (1..(n + 1))
        PROVE  g[u] = IF u = {} THEN b ELSE op[g[u \ {Max(u)}]][s[Max(u)]]
    <3>1. CASE n + 1 \in u
      <4>1. Max(u) = n + 1 /\ u # {}
        BY <3>1, LargestOf
      <4>2. g[u] = op[h[u \ {n + 1}]][s[n + 1]]
        BY <3>1
      <4>3. g[u \ {n + 1}] = h[u \ {n + 1}]
        BY <2>3, <2>8
      <4>. HIDE DEF g
      <4>. QED
        BY <4>1, <4>2, <4>3
    <3>2. CASE n + 1 \notin u
      <4>1. u \in SUBSET (1..n) /\ u \ {Max(u)} \in SUBSET (1..n)
        BY <2>4, <3>2
      <4>2. g[u] = h[u] /\ g[u \ {Max(u)}] = h[u \ {Max(u)}]
        BY <2>8, <4>1
      <4>3. h[u] = IF u = {} THEN b ELSE op[h[u \ {Max(u)}]][s[Max(u)]]
        BY <2>1, <4>1 DEF Folds
      <4>. HIDE DEF g
      <4>. QED
        BY <4>2, <4>3
    <3>. QED
      BY <3>1, <3>2
  <2>. HIDE DEF g
  <2>. QED
    BY <2>7, <2>9 DEF Folds
<1>. HIDE DEF Foldable
<1>3. \A n \in Nat : n \in S => n + 1 \in S
  BY <1>2
<1>. HIDE DEF S
<1>6. \A n \in Nat : n \in S
  BY <1>1, <1>3, Induction
<1>4. Len(s) \in S
  BY <1>6
<1>5. Foldable(Len(s))
  BY <1>4 DEF S
<1>. QED
  BY <1>5 DEF Foldable

\* A prefix of the sequence and the one before it.
LEMMA FoldPrefixes ==
  ASSUME NEW b, NEW n \in Nat, NEW h,
         \A u \in SUBSET (1..n) : u = {} => h[u] = b
  PROVE  /\ h[1..0] = b
         /\ \A k \in 1..n : /\ 1..k \in SUBSET (1..n) /\ 1..k # {}
                             /\ Max(1..k) = k /\ (1..k) \ {k} = 1..(k - 1)
<1>1. 1..0 \in SUBSET (1..n) /\ 1..0 = {}
  OBVIOUS
<1>2. ASSUME NEW k \in 1..n
      PROVE  /\ 1..k \in SUBSET (1..n) /\ 1..k # {}
             /\ Max(1..k) = k /\ (1..k) \ {k} = 1..(k - 1)
  <2>1. k - 1 \in Nat /\ (k - 1) + 1 = k /\ k \in 1..k
    OBVIOUS
  <2>2. Max(1..k) = k
    <3>1. \A y \in 1..k : k >= y
      OBVIOUS
    <3>2. \A x \in 1..k : (\A y \in 1..k : x >= y) => x = k
      OBVIOUS
    <3>. QED
      BY <2>1, <3>1, <3>2 DEF Max
  <2>3. (1..k) \ {k} = 1..(k - 1)
    OBVIOUS
  <2>. QED
    BY <2>1, <2>2, <2>3
<1>. QED
  BY <1>1, <1>2

\* Such a function goes through the accumulators of the fold.
Follows(h, D, op, b, s) ==
  \A u \in SUBSET (1..Len(s)) :
    IF u = {} THEN h[u] = b
    ELSE h[u \ {Max(u)}] \in D => h[u] = op[h[u \ {Max(u)}]][s[Max(u)]]

Accumulates(acc, op, b, s, result) ==
  /\ acc[0] = b /\ acc[Len(s)] = result
  /\ \A k \in 1..Len(s) : acc[k] = op[acc[k - 1]][s[k]]

\* Those accumulators are of D, and the last is the result.
LEMMA FoldSteps ==
  ASSUME NEW D, NEW T, NEW op \in [D -> [T -> D]], NEW b \in D, NEW s \in Seq(T), NEW h,
         Follows(h, D, op, b, s)
  PROVE  \E acc \in [0..Len(s) -> D] : Accumulates(acc, op, b, s, h[1..Len(s)])
<1>. DEFINE acc == [k \in 0..Len(s) |-> h[1..k]]
<1>1. Len(s) \in Nat /\ \A k \in 1..Len(s) : s[k] \in T
  OBVIOUS
<1>2. /\ h[1..0] = b
      /\ \A k \in 1..Len(s) : /\ 1..k \in SUBSET (1..Len(s)) /\ 1..k # {}
                              /\ Max(1..k) = k /\ (1..k) \ {k} = 1..(k - 1)
  BY <1>1, FoldPrefixes DEF Follows
<1>3. ASSUME NEW k \in 1..Len(s), h[1..(k - 1)] \in D
      PROVE  h[1..k] = op[h[1..(k - 1)]][s[k]]
  <2>. DEFINE u == 1..k
  <2>1. u \in SUBSET (1..Len(s)) /\ u # {} /\ Max(u) = k /\ u \ {k} = 1..(k - 1)
    BY <1>2
  <2>. HIDE DEF u
  <2>2. h[u \ {Max(u)}] \in D => h[u] = op[h[u \ {Max(u)}]][s[Max(u)]]
    BY <2>1 DEF Follows
  <2>3. h[u] = op[h[1..(k - 1)]][s[k]]
    BY <1>3, <2>1, <2>2
  <2>. QED
    BY <2>3 DEF u
<1>4. \A n \in Nat : n <= Len(s) => h[1..n] \in D
  <2>. DEFINE S == {n \in Nat : n <= Len(s) => h[1..n] \in D}
  <2>1. 0 \in S
    BY <1>2
  <2>2. ASSUME NEW n \in Nat, n <= Len(s) => h[1..n] \in D, n + 1 <= Len(s)
        PROVE  h[1..(n + 1)] \in D
    <3>1. n + 1 \in 1..Len(s) /\ (n + 1) - 1 = n /\ h[1..n] \in D /\ s[n + 1] \in T
      BY <1>1, <2>2
    <3>2. h[1..(n + 1)] = op[h[1..n]][s[n + 1]]
      BY <1>3, <3>1
    <3>3. op[h[1..n]] \in [T -> D]
      BY <3>1
    <3>. QED
      BY <3>1, <3>2, <3>3
  <2>3. \A n \in Nat : n \in S => n + 1 \in S
    BY <2>2
  <2>. HIDE DEF S
  <2>4. \A n \in Nat : n \in S
    BY <2>1, <2>3, Induction
  <2>. QED
    BY <2>4 DEF S
<1>5. acc \in [0..Len(s) -> D] /\ acc[0] = b /\ acc[Len(s)] = h[1..Len(s)]
  BY <1>1, <1>2, <1>4
<1>6. ASSUME NEW k \in 1..Len(s)
      PROVE  acc[k] = op[acc[k - 1]][s[k]]
  <2>1. k \in 0..Len(s) /\ k - 1 \in 0..Len(s) /\ k - 1 \in Nat /\ k - 1 <= Len(s)
    BY <1>1
  <2>2. h[1..(k - 1)] \in D
    BY <1>4, <2>1
  <2>. QED
    BY <1>3, <2>1, <2>2
<1>7. Accumulates(acc, op, b, s, h[1..Len(s)])
  BY <1>5, <1>6 DEF Accumulates
<1>. QED
  BY <1>5, <1>7

\* The accumulators of DrawInlineArray.
PushesVertices(acc, words, s) ==
  /\ acc[0] = Opened /\ acc[Len(s)] = FoldLeft(LAMBDA a, v : PushVertex(words, a, v), Opened, s)
  /\ \A k \in 1..Len(s) : acc[k] = PushVertex(words, acc[k - 1], s[k])

\* FoldLeft goes through them.
LEMMA InlineArrayFold ==
  ASSUME NEW D, NEW T, NEW words, Opened \in D,
         \A a \in D, p \in T : PushVertex(words, a, p) \in D,
         NEW s \in Seq(T)
  PROVE  \E acc \in [0..Len(s) -> D] : PushesVertices(acc, words, s)
<1>. DEFINE op == [a \in D |-> [p \in T |-> PushVertex(words, a, p)]]
            F(h) == [u \in SUBSET (DOMAIN s) |->
                       IF u = {} THEN Opened
                       ELSE PushVertex(words, h[u \ {Max(u)}], s[Max(u)])]
            i == CHOOSE h : h = F(h)
<1>1. op \in [D -> [T -> D]] /\ \A a \in D, p \in T : op[a][p] = PushVertex(words, a, p)
  OBVIOUS
<1>2. DOMAIN s = 1..Len(s) /\ Len(s) \in Nat /\ \A k \in 1..Len(s) : s[k] \in T
  OBVIOUS
<1>3. FoldLeft(LAMBDA acc, v : PushVertex(words, acc, v), Opened, s) = i[DOMAIN s]
  BY DEF FoldLeft, MapThenFoldSet
<1>. HIDE DEF op
<1>4. PICK h \in [SUBSET (1..Len(s)) -> D] : Folds(h, op, Opened, s, Len(s))
  BY <1>1, FoldExists
<1>5. ASSUME NEW u \in SUBSET (1..Len(s)), u # {}
      PROVE  Max(u) \in 1..Len(s) /\ s[Max(u)] \in T
  BY <1>2, <1>5, LargestIn
<1>6. ASSUME NEW u \in SUBSET (1..Len(s))
      PROVE  h[u] = IF u = {} THEN Opened
                    ELSE PushVertex(words, h[u \ {Max(u)}], s[Max(u)])
  <2>1. h[u] = IF u = {} THEN Opened ELSE op[h[u \ {Max(u)}]][s[Max(u)]]
    BY <1>4 DEF Folds
  <2>2. h[u \ {Max(u)}] \in D
    BY <1>4
  <2>. QED
    BY <1>1, <1>5, <2>1, <2>2
<1>7. h = F(h)
  BY <1>2, <1>4, <1>6
<1>8. i = F(i)
  BY <1>7
<1>. HIDE DEF i
<1>9. ASSUME NEW u \in SUBSET (1..Len(s))
      PROVE  IF u = {} THEN i[u] = Opened
             ELSE i[u \ {Max(u)}] \in D => i[u] = op[i[u \ {Max(u)}]][s[Max(u)]]
  <2>1. i[u] = IF u = {} THEN Opened ELSE PushVertex(words, i[u \ {Max(u)}], s[Max(u)])
    BY <1>2, <1>8
  <2>. QED
    BY <1>1, <1>5, <2>1
<1>10. PICK acc \in [0..Len(s) -> D] : Accumulates(acc, op, Opened, s, i[1..Len(s)])
  <2>1. Follows(i, D, op, Opened, s)
    BY <1>9 DEF Follows
  <2>. QED
    BY <1>1, <2>1, FoldSteps
<1>11. ASSUME NEW k \in 1..Len(s)
       PROVE  acc[k] = PushVertex(words, acc[k - 1], s[k])
  <2>1. k - 1 \in 0..Len(s)
    BY <1>2
  <2>. QED
    BY <1>1, <1>2, <1>10, <2>1 DEF Accumulates
<1>. QED
  BY <1>2, <1>3, <1>10, <1>11 DEF Accumulates, PushesVertices


\* The accumulators of DrawInlineElements16 and 32.
PushesElements(acc, s) ==
  /\ acc[0] = Opened /\ acc[Len(s)] = FoldLeft(PushElement, Opened, s)
  /\ \A k \in 1..Len(s) : acc[k] = PushElement(acc[k - 1], s[k])

\* FoldLeft goes through them.
LEMMA ElementsFold ==
  ASSUME NEW D, NEW T, Opened \in D, \A a \in D, p \in T : PushElement(a, p) \in D,
         NEW s \in Seq(T)
  PROVE  \E acc \in [0..Len(s) -> D] : PushesElements(acc, s)
<1>. DEFINE op == [a \in D |-> [p \in T |-> PushElement(a, p)]]
            F(h) == [u \in SUBSET (DOMAIN s) |->
                       IF u = {} THEN Opened
                       ELSE PushElement(h[u \ {Max(u)}], s[Max(u)])]
            i == CHOOSE h : h = F(h)
<1>1. op \in [D -> [T -> D]] /\ \A a \in D, p \in T : op[a][p] = PushElement(a, p)
  OBVIOUS
<1>2. DOMAIN s = 1..Len(s) /\ Len(s) \in Nat /\ \A k \in 1..Len(s) : s[k] \in T
  OBVIOUS
<1>3. FoldLeft(PushElement, Opened, s) = i[DOMAIN s]
  BY DEF FoldLeft, MapThenFoldSet
<1>. HIDE DEF op
<1>4. PICK h \in [SUBSET (1..Len(s)) -> D] : Folds(h, op, Opened, s, Len(s))
  BY <1>1, FoldExists
<1>5. ASSUME NEW u \in SUBSET (1..Len(s)), u # {}
      PROVE  Max(u) \in 1..Len(s) /\ s[Max(u)] \in T
  BY <1>2, <1>5, LargestIn
<1>6. ASSUME NEW u \in SUBSET (1..Len(s))
      PROVE  h[u] = IF u = {} THEN Opened
                    ELSE PushElement(h[u \ {Max(u)}], s[Max(u)])
  <2>1. h[u] = IF u = {} THEN Opened ELSE op[h[u \ {Max(u)}]][s[Max(u)]]
    BY <1>4 DEF Folds
  <2>2. h[u \ {Max(u)}] \in D
    BY <1>4
  <2>. QED
    BY <1>1, <1>5, <2>1, <2>2
<1>7. h = F(h)
  BY <1>2, <1>4, <1>6
<1>8. i = F(i)
  BY <1>7
<1>. HIDE DEF i
<1>9. ASSUME NEW u \in SUBSET (1..Len(s))
      PROVE  IF u = {} THEN i[u] = Opened
             ELSE i[u \ {Max(u)}] \in D => i[u] = op[i[u \ {Max(u)}]][s[Max(u)]]
  <2>1. i[u] = IF u = {} THEN Opened ELSE PushElement(i[u \ {Max(u)}], s[Max(u)])
    BY <1>2, <1>8
  <2>. QED
    BY <1>1, <1>5, <2>1
<1>10. PICK acc \in [0..Len(s) -> D] : Accumulates(acc, op, Opened, s, i[1..Len(s)])
  <2>1. Follows(i, D, op, Opened, s)
    BY <1>9 DEF Follows
  <2>. QED
    BY <1>1, <2>1, FoldSteps
<1>11. ASSUME NEW k \in 1..Len(s)
       PROVE  acc[k] = PushElement(acc[k - 1], s[k])
  <2>1. k - 1 \in 0..Len(s)
    BY <1>2
  <2>. QED
    BY <1>1, <1>2, <1>10, <2>1 DEF Accumulates
<1>. QED
  BY <1>2, <1>3, <1>10, <1>11 DEF Accumulates, PushesElements

\* The accumulators of ConvertFromTriangleStripToTriangles.
CopiesTriangles(acc, b, s) ==
  /\ acc[0] = b /\ acc[Len(s)] = FoldLeft(CopyTriangle, b, s)
  /\ \A k \in 1..Len(s) : acc[k] = CopyTriangle(acc[k - 1], s[k])

\* FoldLeft goes through them.
LEMMA TrianglesFold ==
  ASSUME NEW D, NEW T, NEW b \in D, \A a \in D, p \in T : CopyTriangle(a, p) \in D,
         NEW s \in Seq(T)
  PROVE  \E acc \in [0..Len(s) -> D] : CopiesTriangles(acc, b, s)
<1>. DEFINE op == [a \in D |-> [p \in T |-> CopyTriangle(a, p)]]
            F(h) == [u \in SUBSET (DOMAIN s) |->
                       IF u = {} THEN b
                       ELSE CopyTriangle(h[u \ {Max(u)}], s[Max(u)])]
            i == CHOOSE h : h = F(h)
<1>1. op \in [D -> [T -> D]] /\ \A a \in D, p \in T : op[a][p] = CopyTriangle(a, p)
  OBVIOUS
<1>2. DOMAIN s = 1..Len(s) /\ Len(s) \in Nat /\ \A k \in 1..Len(s) : s[k] \in T
  OBVIOUS
<1>3. FoldLeft(CopyTriangle, b, s) = i[DOMAIN s]
  BY DEF FoldLeft, MapThenFoldSet
<1>. HIDE DEF op
<1>4. PICK h \in [SUBSET (1..Len(s)) -> D] : Folds(h, op, b, s, Len(s))
  BY <1>1, FoldExists
<1>5. ASSUME NEW u \in SUBSET (1..Len(s)), u # {}
      PROVE  Max(u) \in 1..Len(s) /\ s[Max(u)] \in T
  BY <1>2, <1>5, LargestIn
<1>6. ASSUME NEW u \in SUBSET (1..Len(s))
      PROVE  h[u] = IF u = {} THEN b
                    ELSE CopyTriangle(h[u \ {Max(u)}], s[Max(u)])
  <2>1. h[u] = IF u = {} THEN b ELSE op[h[u \ {Max(u)}]][s[Max(u)]]
    BY <1>4 DEF Folds
  <2>2. h[u \ {Max(u)}] \in D
    BY <1>4
  <2>. QED
    BY <1>1, <1>5, <2>1, <2>2
<1>7. h = F(h)
  BY <1>2, <1>4, <1>6
<1>8. i = F(i)
  BY <1>7
<1>. HIDE DEF i
<1>9. ASSUME NEW u \in SUBSET (1..Len(s))
      PROVE  IF u = {} THEN i[u] = b
             ELSE i[u \ {Max(u)}] \in D => i[u] = op[i[u \ {Max(u)}]][s[Max(u)]]
  <2>1. i[u] = IF u = {} THEN b ELSE CopyTriangle(i[u \ {Max(u)}], s[Max(u)])
    BY <1>2, <1>8
  <2>. QED
    BY <1>1, <1>5, <2>1
<1>10. PICK acc \in [0..Len(s) -> D] : Accumulates(acc, op, b, s, i[1..Len(s)])
  <2>1. Follows(i, D, op, b, s)
    BY <1>9 DEF Follows
  <2>. QED
    BY <1>1, <2>1, FoldSteps
<1>11. ASSUME NEW k \in 1..Len(s)
       PROVE  acc[k] = CopyTriangle(acc[k - 1], s[k])
  <2>1. k - 1 \in 0..Len(s)
    BY <1>2
  <2>. QED
    BY <1>1, <1>2, <1>10, <2>1 DEF Accumulates
<1>. QED
  BY <1>2, <1>3, <1>10, <1>11 DEF Accumulates, CopiesTriangles

-----------------------------------------------------------------------------
(* Blocks, pushes and what they flatten to.                                   *)

\* A push goes into the last block.
LEMMA IntoLast ==
  ASSUME NEW T, NEW bs \in Seq(Seq(T)), bs # <<>>, NEW p \in T
  PROVE  /\ Into(bs, p) \in Seq(Seq(T)) /\ Into(bs, p) # <<>>
         /\ FlattenSeq(Into(bs, p)) = Append(FlattenSeq(bs), p)
<1>. DEFINE m == Len(bs)
            front == [i \in 1..(m - 1) |-> bs[i]]
<1>1. m \in Nat /\ m >= 1 /\ m \in 1..m /\ m - 1 \in Nat
  OBVIOUS
<1>2. front \in Seq(Seq(T)) /\ Len(front) = m - 1 /\ bs[m] \in Seq(T)
  BY <1>1
<1>3. Append(bs[m], p) \in Seq(T)
  BY <1>2
<1>4. bs = Append(front, bs[m])
  <2>1. Append(front, bs[m]) \in Seq(Seq(T)) /\ Len(Append(front, bs[m])) = m
    BY <1>1, <1>2, AppendFacts
  <2>2. \A i \in 1..m : Append(front, bs[m])[i] = bs[i]
    <3>1. /\ Append(front, bs[m])[(m - 1) + 1] = bs[m]
          /\ \A i \in 1..(m - 1) : Append(front, bs[m])[i] = front[i]
      BY <1>2, AppendFacts
    <3>. QED
      BY <1>1, <3>1
  <2>. QED
    BY <2>1, <2>2
<1>5. Into(bs, p) = Append(front, Append(bs[m], p))
  <2>. DEFINE r == Append(front, Append(bs[m], p))
  <2>1. r \in Seq(Seq(T)) /\ Len(r) = m
    BY <1>1, <1>2, <1>3, AppendFacts
  <2>2. \A i \in 1..m : r[i] = IF i = m THEN Append(bs[m], p) ELSE bs[i]
    <3>1. /\ r[(m - 1) + 1] = Append(bs[m], p)
          /\ \A i \in 1..(m - 1) : r[i] = front[i]
      BY <1>2, <1>3, AppendFacts
    <3>. QED
      BY <1>1, <3>1
  <2>3. Into(bs, p) = [i \in 1..m |-> IF i = m THEN Append(bs[m], p) ELSE bs[i]]
    BY DEF Into
  <2>. HIDE DEF r
  <2>4. r = [i \in 1..m |-> r[i]]
    BY <2>1
  <2>. QED
    BY <2>2, <2>3, <2>4 DEF r
<1>6. FlattenSeq(Into(bs, p)) = FlattenSeq(front) \o Append(bs[m], p)
  BY <1>2, <1>3, <1>5, FlattenAppend
<1>7. FlattenSeq(bs) = FlattenSeq(front) \o bs[m]
  <2>1. FlattenSeq(Append(front, bs[m])) = FlattenSeq(front) \o bs[m]
    BY <1>2, FlattenAppend
  <2>. QED
    BY <1>4, <2>1
<1>8. \A x, y \in Seq(T) : x \o Append(y, p) = Append(x \o y, p)
  OBVIOUS
<1>9. FlattenSeq(front) \in Seq(T)
  BY <1>2, FlattenType
<1>10. Into(bs, p) \in Seq(Seq(T)) /\ Into(bs, p) # <<>>
  BY <1>2, <1>3, <1>5, AppendFacts
<1>. HIDE DEF front
<1>. QED
  BY <1>2, <1>6, <1>7, <1>8, <1>9, <1>10

\* A new block is empty.
LEMMA NewBlock ==
  ASSUME NEW T, NEW bs \in Seq(Seq(T))
  PROVE  /\ Append(bs, <<>>) \in Seq(Seq(T)) /\ Append(bs, <<>>) # <<>>
         /\ FlattenSeq(Append(bs, <<>>)) = FlattenSeq(bs)
<1>1. <<>> \in Seq(T) /\ \A x \in Seq(T) : x \o <<>> = x
  OBVIOUS
<1>2. FlattenSeq(bs) \in Seq(T)
  BY FlattenType
<1>3. FlattenSeq(Append(bs, <<>>)) = FlattenSeq(bs) \o <<>>
  BY <1>1, FlattenAppend
<1>. QED
  BY <1>1, <1>2, <1>3, AppendFacts

\* What has been sent when each push was added to the blocks in turn.
LEMMA PushedInTurn ==
  ASSUME NEW T, NEW p \in Seq(T), NEW sent,
         sent[0] = <<>>, \A k \in 1..Len(p) : sent[k] = Append(sent[k - 1], p[k])
  PROVE  sent[Len(p)] = p
<1>. DEFINE prefix(k) == [i \in 1..k |-> p[i]]
            S == {n \in Nat : n <= Len(p) => sent[n] = prefix(n)}
<1>1. 0 \in S
  <2>1. prefix(0) = <<>>
    OBVIOUS
  <2>. QED
    BY <2>1
<1>2. ASSUME NEW n \in Nat, sent[n] = prefix(n), n + 1 <= Len(p)
      PROVE  sent[n + 1] = prefix(n + 1)
  <2>1. n + 1 \in 1..Len(p) /\ (n + 1) - 1 = n /\ p[n + 1] \in T
    BY <1>2
  <2>2. sent[n + 1] = Append(prefix(n), p[n + 1])
    BY <1>2, <2>1
  <2>3. prefix(n) \in Seq(T) /\ Len(prefix(n)) = n
    BY <1>2
  <2>4. \A i \in 1..(n + 1) : Append(prefix(n), p[n + 1])[i] = p[i]
    <3>1. /\ Append(prefix(n), p[n + 1])[n + 1] = p[n + 1]
          /\ \A i \in 1..n : Append(prefix(n), p[n + 1])[i] = prefix(n)[i]
      BY <2>1, <2>3, AppendFacts
    <3>. QED
      BY <3>1
  <2>5. prefix(n + 1) \in Seq(T) /\ Len(prefix(n + 1)) = n + 1
    BY <1>2
  <2>6. Append(prefix(n), p[n + 1]) \in Seq(T) /\ Len(Append(prefix(n), p[n + 1])) = n + 1
    BY <2>1, <2>3, AppendFacts
  <2>. QED
    BY <2>2, <2>4, <2>5, <2>6
<1>. HIDE DEF prefix
<1>3. \A n \in Nat : n \in S => n + 1 \in S
  <2>1. \A n \in Nat : n + 1 <= Len(p) => n <= Len(p)
    OBVIOUS
  <2>2. ASSUME NEW n \in Nat, n <= Len(p) => sent[n] = prefix(n)
        PROVE  n + 1 <= Len(p) => sent[n + 1] = prefix(n + 1)
    BY <1>2, <2>1, <2>2
  <2>. QED
    BY <2>2
<1>. HIDE DEF S
<1>4. \A n \in Nat : n \in S
  BY <1>1, <1>3, Induction
<1>5. sent[Len(p)] = prefix(Len(p))
  BY <1>4 DEF S
<1>. QED
  BY <1>5 DEF prefix

\* What a sequence of sequences flattens to, if its prefixes are known.
LEMMA FlattenInTurn ==
  ASSUME NEW T, NEW s \in Seq(Seq(T)), NEW sent,
         sent[0] = <<>>,
         \A k \in 1..Len(s) : sent[k] \in Seq(T) /\ sent[k] = sent[k - 1] \o s[k]
  PROVE  FlattenSeq(s) = sent[Len(s)]
<1>1. CASE s = <<>>
  BY <1>1, FlattenEmpty
<1>2. CASE s # <<>>
  <2>1. PICK f \in [1..Len(s) -> Seq(T)] : Flattens(f, s, Len(s)) /\ FlattenSeq(s) = f[Len(s)]
    BY <1>2, FlattenIs
  <2>2. Len(s) \in Nat /\ Len(s) >= 1
    BY <1>2
  <2>. DEFINE S == {n \in Nat : n + 1 \in 1..Len(s) => f[n + 1] = sent[n + 1]}
  <2>3. 0 \in S
    <3>1. 1 \in 1..Len(s) /\ s[1] \in Seq(T)
      BY <2>2
    <3>2. f[1] = s[1] /\ sent[1] = sent[0] \o s[1]
      <4>1. 1 - 1 = 0
        OBVIOUS
      <4>. QED
        BY <2>1, <3>1, <4>1 DEF Flattens
    <3>. QED
      BY <3>1, <3>2
  <2>4. ASSUME NEW n \in Nat, n \in S, n + 2 \in 1..Len(s)
        PROVE  f[n + 2] = sent[n + 2]
    <3>1. (n + 2) - 1 = n + 1 /\ n + 2 # 1 /\ n + 1 \in 1..Len(s)
      BY <2>4
    <3>2. f[n + 2] = f[n + 1] \o s[n + 2]
      BY <2>1, <2>4, <3>1 DEF Flattens
    <3>3. sent[n + 2] = sent[n + 1] \o s[n + 2]
      BY <2>4, <3>1
    <3>. QED
      BY <2>4, <3>1, <3>2, <3>3
  <2>5. \A n \in Nat : n \in S => n + 1 \in S
    BY <2>4
  <2>. HIDE DEF S
  <2>6. \A n \in Nat : n \in S
    BY <2>3, <2>5, Induction
  <2>7. Len(s) - 1 \in S /\ (Len(s) - 1) + 1 = Len(s) /\ Len(s) \in 1..Len(s)
    BY <2>2, <2>6
  <2>. QED
    BY <2>1, <2>7 DEF S
<1>. QED
  BY <1>1, <1>2

-----------------------------------------------------------------------------
(* The blocks of the draw calls that push one element after the other.        *)

\* The accumulators of a draw call whose pushes are of T.
Accumulators(T) == [blocks : Seq(Seq(T)) \ {<<>>}, pushed : Nat]

\* The first block is open and empty.
LEMMA OpenedAccumulator ==
  ASSUME NEW T
  PROVE  Opened \in Accumulators(T) /\ FlattenSeq(Opened.blocks) = <<>>
<1>1. \A S : <<>> \in Seq(S)
  OBVIOUS
<1>2. <<<<>>>> = Append(<<>>, <<>>)
  OBVIOUS
<1>3. <<>> \in Seq(Seq(T)) /\ <<>> \in Seq(T)
  BY <1>1
<1>4. <<<<>>>> \in Seq(Seq(T)) /\ <<<<>>>> # <<>>
  BY <1>2, <1>3, AppendFacts
<1>5. FlattenSeq(<<<<>>>>) = <<>> \o <<>>
  BY <1>2, <1>3, FlattenAppend, FlattenEmpty
<1>. QED
  BY <1>4, <1>5 DEF Opened, Accumulators

\* One push of DrawInlineElements16 or 32.
LEMMA ElementPushed ==
  ASSUME NEW T, NEW acc \in Accumulators(T), NEW p \in T
  PROVE  /\ PushElement(acc, p) \in Accumulators(T)
         /\ FlattenSeq(PushElement(acc, p).blocks) = Append(FlattenSeq(acc.blocks), p)
<1>1. acc.blocks \in Seq(Seq(T)) /\ acc.blocks # <<>> /\ acc.pushed + 1 \in Nat
  BY DEF Accumulators
<1>. DEFINE full  == [blocks |-> Append(acc.blocks, <<p>>), pushed |-> 0]
            going == [blocks |-> Into(acc.blocks, p), pushed |-> acc.pushed + 1]
<1>2. full \in Accumulators(T) /\ FlattenSeq(full.blocks) = Append(FlattenSeq(acc.blocks), p)
  <2>. DEFINE e == <<p>>
  <2>1. e \in Seq(T) /\ \A x \in Seq(T) : x \o e = Append(x, p)
    OBVIOUS
  <2>2. full = [blocks |-> Append(acc.blocks, e), pushed |-> 0]
    OBVIOUS
  <2>. HIDE DEF e, full
  <2>3. FlattenSeq(Append(acc.blocks, e)) = FlattenSeq(acc.blocks) \o e
    BY <1>1, <2>1, FlattenAppend
  <2>4. FlattenSeq(acc.blocks) \in Seq(T)
    BY <1>1, FlattenType
  <2>5. Append(acc.blocks, e) \in Seq(Seq(T)) /\ Append(acc.blocks, e) # <<>>
    BY <1>1, <2>1, AppendFacts
  <2>. QED
    BY <2>1, <2>2, <2>3, <2>4, <2>5 DEF Accumulators
<1>3. going \in Accumulators(T) /\ FlattenSeq(going.blocks) = Append(FlattenSeq(acc.blocks), p)
  BY <1>1, IntoLast DEF Accumulators
<1>4. PushElement(acc, p) = full \/ PushElement(acc, p) = going
  BY DEF PushElement
<1>. HIDE DEF full, going
<1>. QED
  BY <1>2, <1>3, <1>4

\* What DrawInlineElements16 and 32 push is in the blocks, in order.
LEMMA ElementsSent ==
  ASSUME NEW T, NEW p \in Seq(T)
  PROVE  /\ FoldLeft(PushElement, Opened, p).blocks \in Seq(Seq(T)) \ {<<>>}
         /\ FlattenSeq(FoldLeft(PushElement, Opened, p).blocks) = p
<1>. DEFINE D == Accumulators(T)
<1>1. Opened \in D /\ \A a \in D, e \in T : PushElement(a, e) \in D
  BY OpenedAccumulator, ElementPushed
<1>. HIDE DEF D
<1>2. PICK acc \in [0..Len(p) -> D] : PushesElements(acc, p)
  BY <1>1, ElementsFold
<1>. DEFINE sent == [k \in 0..Len(p) |-> FlattenSeq(acc[k].blocks)]
<1>3. Len(p) \in Nat /\ Len(p) \in 0..Len(p) /\ 0 \in 0..Len(p)
  OBVIOUS
<1>4. sent[0] = <<>>
  BY <1>2, <1>3, OpenedAccumulator DEF PushesElements
<1>5. ASSUME NEW k \in 1..Len(p)
      PROVE  sent[k] = Append(sent[k - 1], p[k])
  <2>1. k \in 0..Len(p) /\ k - 1 \in 0..Len(p) /\ p[k] \in T
    BY <1>3
  <2>2. acc[k - 1] \in Accumulators(T) /\ acc[k] = PushElement(acc[k - 1], p[k])
    BY <1>2, <2>1 DEF D, PushesElements
  <2>3. FlattenSeq(acc[k].blocks) = Append(FlattenSeq(acc[k - 1].blocks), p[k])
    BY <2>1, <2>2, ElementPushed
  <2>. QED
    BY <2>1, <2>3
<1>6. sent[Len(p)] = FlattenSeq(FoldLeft(PushElement, Opened, p).blocks)
  BY <1>2, <1>3 DEF PushesElements
<1>. HIDE DEF sent
<1>7. sent[Len(p)] = p
  BY <1>4, <1>5, PushedInTurn
<1>8. FoldLeft(PushElement, Opened, p) \in Accumulators(T)
  BY <1>2, <1>3 DEF D, PushesElements
<1>. QED
  BY <1>6, <1>7, <1>8 DEF Accumulators

\* One vertex of DrawInlineArray.
LEMMA VertexPushed ==
  ASSUME NEW acc \in Accumulators(Seq(Nat)), NEW v \in Nat, NEW words \in Nat,
         NEW push, push = <<v>>
  PROVE  /\ PushVertex(words, acc, v) \in Accumulators(Seq(Nat))
         /\ FlattenSeq(PushVertex(words, acc, v).blocks) = Append(FlattenSeq(acc.blocks), push)
<1>1. acc.blocks \in Seq(Seq(Seq(Nat))) /\ acc.blocks # <<>> /\ acc.pushed + words \in Nat
  BY DEF Accumulators
<1>. DEFINE blocks == Into(acc.blocks, push)
            full   == [blocks |-> Append(blocks, <<>>), pushed |-> 0]
            going  == [blocks |-> blocks, pushed |-> acc.pushed + words]
<1>2. push \in Seq(Nat)
  OBVIOUS
<1>3. /\ blocks \in Seq(Seq(Seq(Nat))) /\ blocks # <<>>
      /\ FlattenSeq(blocks) = Append(FlattenSeq(acc.blocks), push)
  BY <1>1, <1>2, IntoLast
<1>4. PushVertex(words, acc, v) = full \/ PushVertex(words, acc, v) = going
  BY DEF PushVertex
<1>. HIDE DEF blocks
<1>5. full \in Accumulators(Seq(Nat)) /\ FlattenSeq(full.blocks) = FlattenSeq(blocks)
  BY <1>2, <1>3, NewBlock DEF Accumulators
<1>6. going \in Accumulators(Seq(Nat)) /\ FlattenSeq(going.blocks) = FlattenSeq(blocks)
  BY <1>1, <1>3 DEF Accumulators
<1>. HIDE DEF full, going
<1>. QED
  BY <1>3, <1>4, <1>5, <1>6

\* So is what DrawInlineArray pushes.
LEMMA InlineArraySent ==
  ASSUME NEW n \in Nat, NEW words \in Nat
  PROVE  /\ InlineArray(n, words) \in Seq(Seq(Seq(Nat)))
         /\ FlattenSeq(InlineArray(n, words)) = [k \in 1..n |-> <<k - 1>>]
<1>. DEFINE D == Accumulators(Seq(Nat))
            s == [k \in 1..n |-> k - 1]
            p == [k \in 1..n |-> <<k - 1>>]
<1>1. Opened \in D /\ \A a \in D, v \in Nat : PushVertex(words, a, v) \in D
  BY OpenedAccumulator, VertexPushed
<1>2. s \in Seq(Nat) /\ Len(s) = n /\ p \in Seq(Seq(Nat)) /\ Len(p) = n
  <2>1. \A k \in 1..n : k - 1 \in Nat /\ <<k - 1>> \in Seq(Nat)
    OBVIOUS
  <2>. QED
    BY <2>1
<1>3. \A k \in 1..n : s[k] \in Nat /\ p[k] = <<s[k]>>
  OBVIOUS
<1>4. \A a \in Accumulators(Seq(Nat)), v \in Nat, e \in Seq(Nat) :
         e = <<v>> =>
           FlattenSeq(PushVertex(words, a, v).blocks) = Append(FlattenSeq(a.blocks), e)
  BY VertexPushed
<1>5. InlineArray(n, words) = FoldLeft(LAMBDA acc, v : PushVertex(words, acc, v), Opened, s).blocks
  BY DEF InlineArray
<1>. HIDE DEF D, s, p
<1>6. PICK acc \in [0..Len(s) -> D] : PushesVertices(acc, words, s)
  BY <1>1, <1>2, InlineArrayFold
<1>. DEFINE sent == [k \in 0..n |-> FlattenSeq(acc[k].blocks)]
<1>7. n \in 0..n /\ 0 \in 0..n
  OBVIOUS
<1>8. sent[0] = <<>>
  BY <1>6, <1>7, OpenedAccumulator DEF PushesVertices
<1>9. ASSUME NEW k \in 1..n
      PROVE  sent[k] = Append(sent[k - 1], p[k])
  <2>1. k \in 0..n /\ k - 1 \in 0..n
    OBVIOUS
  <2>2. acc[k - 1] \in Accumulators(Seq(Nat)) /\ acc[k] = PushVertex(words, acc[k - 1], s[k])
    BY <1>2, <1>6, <2>1 DEF D, PushesVertices
  <2>3. FlattenSeq(acc[k].blocks) = Append(FlattenSeq(acc[k - 1].blocks), p[k])
    <3>1. s[k] \in Nat /\ p[k] \in Seq(Nat) /\ p[k] = <<s[k]>>
      BY <1>2, <1>3
    <3>2. FlattenSeq(PushVertex(words, acc[k - 1], s[k]).blocks)
            = Append(FlattenSeq(acc[k - 1].blocks), p[k])
      BY <1>4, <2>2, <3>1, Zenon
    <3>. QED
      BY <2>2, <3>2
  <2>. QED
    BY <2>1, <2>3
<1>10. sent[n] = FlattenSeq(InlineArray(n, words))
  BY <1>2, <1>5, <1>6, <1>7 DEF PushesVertices
<1>. HIDE DEF sent
<1>11. sent[Len(p)] = p
  BY <1>2, <1>8, <1>9, PushedInTurn
<1>12. FoldLeft(LAMBDA a, v : PushVertex(words, a, v), Opened, s) \in Accumulators(Seq(Nat))
  BY <1>2, <1>6, <1>7 DEF D, PushesVertices
<1>. QED
  BY <1>2, <1>5, <1>10, <1>11, <1>12 DEF Accumulators, p

-----------------------------------------------------------------------------
(* Sequences that are cut, and the vertices and indices of a draw call.       *)

\* Two sequences and one that is the first and then the second.
LEMMA Concatenates ==
  ASSUME NEW T, NEW p \in Seq(T), NEW e \in Seq(T), NEW q \in Seq(T),
         Len(q) = Len(p) + Len(e), \A i \in 1..Len(p) : q[i] = p[i],
         \A j \in 1..Len(e) : q[Len(p) + j] = e[j]
  PROVE  q = p \o e
<1>. DEFINE r == p \o e
<1>1. r \in Seq(T) /\ Len(r) = Len(p) + Len(e) /\ Len(p) \in Nat /\ Len(e) \in Nat
  OBVIOUS
<1>2. ASSUME NEW i \in 1..(Len(p) + Len(e)) PROVE r[i] = q[i]
  <2>1. CASE i <= Len(p)
    <3>1. r[i] = p[i] /\ i \in 1..Len(p)
      BY <2>1
    <3>. QED
      BY <3>1
  <2>2. CASE ~(i <= Len(p))
    <3>1. i - Len(p) \in 1..Len(e) /\ Len(p) + (i - Len(p)) = i
      BY <2>2
    <3>2. r[i] = e[i - Len(p)]
      BY <2>2
    <3>3. q[Len(p) + (i - Len(p))] = e[i - Len(p)]
      BY <3>1
    <3>. QED
      BY <3>1, <3>2, <3>3
  <2>. QED
    BY <2>1, <2>2
<1>. HIDE DEF r
<1>3. r = q
  BY <1>1, <1>2
<1>. QED
  BY <1>3 DEF r

\* t is s cut after each of the positions in cut.
Cuts(t, s, cut) ==
  /\ cut[0] = 0 /\ cut[Len(t)] = Len(s)
  /\ \A k \in 1..Len(t) : /\ cut[k] = cut[k - 1] + Len(t[k])
                          /\ \A j \in 1..Len(t[k]) : t[k][j] = s[cut[k - 1] + j]

\* Then t flattens to s.
LEMMA FlattenCuts ==
  ASSUME NEW T, NEW t \in Seq(Seq(T)), NEW s \in Seq(T),
         NEW cut \in [0..Len(t) -> 0..Len(s)], Cuts(t, s, cut)
  PROVE  FlattenSeq(t) = s
<1>. DEFINE n == Len(t)
            prefix(m) == [i \in 1..m |-> s[i]]
            sent == [k \in 0..n |-> prefix(cut[k])]
<1>1. n \in Nat /\ Len(s) \in Nat /\ 0 \in 0..n /\ n \in 0..n
  OBVIOUS
<1>2. ASSUME NEW m \in 0..Len(s)
      PROVE  prefix(m) \in Seq(T) /\ Len(prefix(m)) = m /\ \A i \in 1..m : prefix(m)[i] = s[i]
  <2>1. \A i \in 1..m : s[i] \in T
    OBVIOUS
  <2>. QED
    BY <2>1
<1>3. prefix(0) = <<>> /\ prefix(Len(s)) = s
  OBVIOUS
<1>. HIDE DEF prefix
<1>4. sent[0] = <<>> /\ sent[n] = s
  BY <1>1, <1>3 DEF Cuts
<1>5. ASSUME NEW k \in 1..n
      PROVE  sent[k] \in Seq(T) /\ sent[k] = sent[k - 1] \o t[k]
  <2>1. k \in 0..n /\ k - 1 \in 0..n /\ t[k] \in Seq(T)
    BY <1>1
  <2>2. cut[k] \in 0..Len(s) /\ cut[k - 1] \in 0..Len(s)
    BY <2>1
  <2>. DEFINE p == prefix(cut[k - 1])
              q == prefix(cut[k])
              e == t[k]
              m == cut[k - 1]
  <2>3. /\ p \in Seq(T) /\ Len(p) = m /\ \A i \in 1..m : p[i] = s[i]
        /\ q \in Seq(T) /\ Len(q) = cut[k] /\ \A i \in 1..cut[k] : q[i] = s[i]
    BY <1>2, <2>2
  <2>4. cut[k] = m + Len(e) /\ \A j \in 1..Len(e) : e[j] = s[m + j]
    BY DEF Cuts
  <2>5. e \in Seq(T) /\ Len(e) \in Nat /\ m \in Nat
    BY <2>1, <2>2
  <2>6. sent[k] = q /\ sent[k - 1] = p
    BY <2>1
  <2>. HIDE DEF p, q, e, m
  <2>7. Len(q) = Len(p) + Len(e) /\ \A i \in 1..Len(p) : q[i] = p[i]
    <3>1. \A i \in 1..m : i \in 1..(m + Len(e))
      BY <2>5
    <3>. QED
      BY <2>3, <2>4, <3>1
  <2>8. \A j \in 1..Len(e) : q[Len(p) + j] = e[j]
    <3>1. \A j \in 1..Len(e) : m + j \in 1..(m + Len(e))
      BY <2>5
    <3>. QED
      BY <2>3, <2>4, <3>1
  <2>9. q = p \o e
    BY <2>3, <2>5, <2>7, <2>8, Concatenates
  <2>. QED
    BY <2>3, <2>6, <2>9 DEF e
<1>. HIDE DEF sent
<1>. QED
  BY <1>4, <1>5, FlattenInTurn

\* Pushes of one element each.
LEMMA Singles ==
  ASSUME NEW T, NEW s \in Seq(T), NEW t, t = [k \in 1..Len(s) |-> <<s[k]>>]
  PROVE  t \in Seq(Seq(T)) /\ FlattenSeq(t) = s
<1>. DEFINE cut == [k \in 0..Len(s) |-> k]
<1>1. t \in Seq(Seq(T)) /\ Len(t) = Len(s) /\ Len(s) \in Nat
  <2>1. \A k \in 1..Len(s) : <<s[k]>> \in Seq(T)
    OBVIOUS
  <2>. QED
    BY <2>1
<1>2. cut \in [0..Len(t) -> 0..Len(s)]
  BY <1>1
<1>3. ASSUME NEW k \in 1..Len(t)
      PROVE  /\ cut[k] = cut[k - 1] + Len(t[k])
             /\ \A j \in 1..Len(t[k]) : t[k][j] = s[cut[k - 1] + j]
  <2>1. cut[k] = k /\ cut[k - 1] = k - 1 /\ (k - 1) + 1 = k
    BY <1>1
  <2>. DEFINE e == <<s[k]>>
  <2>2. t[k] = e /\ Len(e) = 1 /\ e[1] = s[k]
    BY <1>1
  <2>3. \A j \in 1..1 : j = 1
    OBVIOUS
  <2>. HIDE DEF e, cut
  <2>. QED
    BY <2>1, <2>2, <2>3
<1>4. cut[0] = 0 /\ cut[Len(t)] = Len(s)
  BY <1>1
<1>. HIDE DEF cut
<1>5. Cuts(t, s, cut)
  BY <1>3, <1>4 DEF Cuts
<1>. QED
  BY <1>1, <1>2, <1>5, FlattenCuts

\* All vertices of a buffer.
LEMMA AllType ==
  ASSUME NEW n \in Nat
  PROVE  All(n) \in Seq(Nat) /\ Len(All(n)) = n /\ \A k \in 1..n : All(n)[k] = k - 1
BY DEF All

\* Each vertex in a push of its own.
LEMMA EachVertexSent ==
  ASSUME NEW n \in Nat
  PROVE  FlattenSeq([k \in 1..n |-> <<k - 1>>]) = All(n)
<1>1. [k \in 1..n |-> <<k - 1>>] = [k \in 1..Len(All(n)) |-> <<All(n)[k]>>]
  BY AllType DEF All
<1>. QED
  BY <1>1, AllType, Singles

\* DrawInlineBuffer.
LEMMA VerticesSent ==
  ASSUME NEW n \in Nat
  PROVE  FlattenSeq(FlattenSeq(Vertices(n))) = All(n)
<1>. DEFINE f == [k \in 1..n |-> <<k - 1>>]
<1>1. f \in Seq(Seq(Nat)) /\ Len(f) = n
  <2>1. \A k \in 1..n : <<k - 1>> \in Seq(Nat)
    OBVIOUS
  <2>. QED
    BY <2>1
<1>2. Vertices(n) = [k \in 1..Len(f) |-> <<f[k]>>]
  BY <1>1 DEF Vertices
<1>3. FlattenSeq(f) = All(n)
  BY EachVertexSent
<1>. HIDE DEF f
<1>4. FlattenSeq(Vertices(n)) = f
  BY <1>1, <1>2, Singles
<1>. QED
  BY <1>3, <1>4

\* DrawInlineElements32.
LEMMA Elements32Sent ==
  ASSUME NEW ix \in Seq(Nat)
  PROVE  FlattenSeq(FlattenSeq(Elements32(ix))) = ix
<1>. DEFINE p == [k \in 1..Len(ix) |-> <<ix[k]>>]
<1>1. p \in Seq(Seq(Nat)) /\ FlattenSeq(p) = ix
  BY Singles
<1>2. Elements32(ix) = FoldLeft(PushElement, Opened, p).blocks
  BY DEF Elements32
<1>. HIDE DEF p
<1>3. FlattenSeq(Elements32(ix)) = p
  BY <1>1, <1>2, ElementsSent
<1>. QED
  BY <1>1, <1>3

\* The pairs of DrawInlineElements16.
LEMMA Pairs ==
  ASSUME NEW T, NEW s \in Seq(T), NEW t \in Seq(Seq(T)), Len(s) = 2 * Len(t),
         \A k \in 1..Len(t) : t[k] = <<s[2 * k - 1], s[2 * k]>>
  PROVE  FlattenSeq(t) = s
<1>. DEFINE cut == [k \in 0..Len(t) |-> 2 * k]
<1>1. Len(t) \in Nat
  OBVIOUS
<1>2. cut \in [0..Len(t) -> 0..Len(s)]
  BY <1>1
<1>3. ASSUME NEW k \in 1..Len(t)
      PROVE  /\ cut[k] = cut[k - 1] + Len(t[k])
             /\ \A j \in 1..Len(t[k]) : t[k][j] = s[cut[k - 1] + j]
  <2>1. /\ cut[k] = 2 * k /\ cut[k - 1] = 2 * (k - 1) /\ 2 * (k - 1) + 2 = 2 * k
        /\ 2 * (k - 1) + 1 = 2 * k - 1
    BY <1>1
  <2>. DEFINE e == <<s[2 * k - 1], s[2 * k]>>
  <2>2. t[k] = e /\ Len(e) = 2 /\ e[1] = s[2 * k - 1] /\ e[2] = s[2 * k]
    BY <1>1
  <2>3. \A j \in 1..2 : j = 1 \/ j = 2
    OBVIOUS
  <2>. HIDE DEF e, cut
  <2>. QED
    BY <2>1, <2>2, <2>3
<1>4. cut[0] = 0 /\ cut[Len(t)] = Len(s)
  BY <1>1
<1>. HIDE DEF cut
<1>5. Cuts(t, s, cut)
  BY <1>3, <1>4 DEF Cuts
<1>. QED
  BY <1>1, <1>2, <1>5, FlattenCuts

\* DrawInlineElements16: the pairs, and the odd index after them.
LEMMA Elements16Sent ==
  ASSUME NEW ix \in Seq(Nat), \A i \in 1..Len(ix) : ix[i] < HalfWord
  PROVE  FlattenSeq(FlattenSeq(Elements16(ix))) = ix
<1>. DEFINE n == Len(ix) \div 2
            front == [i \in 1..(2 * n) |-> ix[i]]
            t == [k \in 1..n |-> <<ix[2 * k - 1] % HalfWord, ix[2 * k] % HalfWord>>]
            pairs == FoldLeft(PushElement, Opened, t).blocks
            odd == <<ix[Len(ix)]>>
<1>1. n \in Nat /\ Len(ix) \in Nat /\ Len(ix) = 2 * n + (Len(ix) % 2) /\ Len(ix) % 2 \in {0, 1}
  OBVIOUS
<1>2. HalfWord \in Nat \ {0}
  BY PushAssumption
<1>3. Elements16(ix) = IF Len(ix) % 2 = 0 THEN pairs ELSE Into(pairs, odd)
  BY DEF Elements16
<1>4. front \in Seq(Nat) /\ Len(front) = 2 * n /\ \A i \in 1..(2 * n) : front[i] = ix[i]
  <2>1. \A i \in 1..(2 * n) : ix[i] \in Nat
    BY <1>1
  <2>. QED
    BY <1>1, <2>1
<1>5. \A i \in 1..Len(ix) : ix[i] % HalfWord = ix[i]
  <2>1. \A v \in Nat : v < HalfWord => v % HalfWord = v
    BY <1>2
  <2>. QED
    BY <2>1
<1>6. t = [k \in 1..n |-> <<front[2 * k - 1], front[2 * k]>>]
  <2>1. ASSUME NEW k \in 1..n
        PROVE  /\ ix[2 * k - 1] % HalfWord = front[2 * k - 1]
               /\ ix[2 * k] % HalfWord = front[2 * k]
    <3>1. /\ 2 * k - 1 \in 1..(2 * n) /\ 2 * k \in 1..(2 * n)
          /\ 2 * k - 1 \in 1..Len(ix) /\ 2 * k \in 1..Len(ix)
      BY <1>1
    <3>. QED
      BY <1>4, <1>5, <3>1
  <2>. HIDE DEF front
  <2>. QED
    BY <2>1
<1>. HIDE DEF n, front, t
<1>7. t \in Seq(Seq(Nat)) /\ FlattenSeq(t) = front
  <2>1. n \in Nat /\ front \in Seq(Nat) /\ Len(front) = 2 * n
    BY <1>1, <1>4
  <2>2. \A k \in 1..n : front[2 * k - 1] \in Nat /\ front[2 * k] \in Nat
    <3>1. \A k \in 1..n : 2 * k - 1 \in 1..(2 * n) /\ 2 * k \in 1..(2 * n)
      BY <2>1
    <3>2. \A i \in 1..(2 * n) : front[i] \in Nat
      BY <2>1
    <3>. QED
      BY <3>1, <3>2
  <2>3. t \in Seq(Seq(Nat)) /\ Len(t) = n
    <3>1. \A k \in 1..n : <<front[2 * k - 1], front[2 * k]>> \in Seq(Nat)
      BY <2>2
    <3>. QED
      BY <1>6, <2>1, <3>1
  <2>4. \A k \in 1..Len(t) : t[k] = <<front[2 * k - 1], front[2 * k]>>
    BY <1>6, <2>3
  <2>5. Len(front) = 2 * Len(t)
    BY <2>1, <2>3
  <2>. QED
    BY <2>1, <2>3, <2>4, <2>5, Pairs
<1>8. pairs \in Seq(Seq(Seq(Nat))) /\ pairs # <<>> /\ FlattenSeq(pairs) = t
  BY <1>7, ElementsSent
<1>. HIDE DEF pairs
<1>9. CASE Len(ix) % 2 = 0
  <2>1. ix = front
    BY <1>1, <1>4, <1>9
  <2>. QED
    BY <1>3, <1>7, <1>8, <1>9, <2>1
<1>10. CASE Len(ix) % 2 = 1
  <2>1. /\ odd \in Seq(Nat) /\ Len(odd) = 1 /\ odd[1] = ix[Len(ix)]
        /\ Len(ix) = 2 * n + 1
    BY <1>1, <1>10
  <2>. HIDE DEF odd
  <2>2. FlattenSeq(Into(pairs, odd)) = Append(t, odd)
    BY <1>8, <2>1, IntoLast
  <2>3. FlattenSeq(Append(t, odd)) = front \o odd
    BY <1>7, <2>1, FlattenAppend
  <2>4. ix = front \o odd
    <3>1. Len(ix) = Len(front) + Len(odd) /\ \A i \in 1..Len(front) : ix[i] = front[i]
      BY <1>4, <2>1
    <3>2. \A j \in 1..Len(odd) : j = 1
      BY <2>1
    <3>3. \A j \in 1..Len(odd) : ix[Len(front) + j] = odd[j]
      BY <1>4, <2>1, <3>2
    <3>. QED
      BY <1>4, <2>1, <3>1, <3>3, Concatenates
  <2>5. Elements16(ix) = Into(pairs, odd)
    BY <1>3, <1>10
  <2>. QED
    BY <2>2, <2>3, <2>4, <2>5
<1>. QED
  BY <1>1, <1>9, <1>10

\* DrawInlineArray.
LEMMA InlineArrayDrawn ==
  ASSUME NEW n \in Nat, NEW words \in Nat
  PROVE  FlattenSeq(FlattenSeq(InlineArray(n, words))) = All(n)
BY InlineArraySent, EachVertexSent

\* Where the batches of DrawArrays end.
BatchCount(n)  == (n + PerBatch - 1) \div PerBatch
BatchEnd(n, k) == IF n < k * PerBatch THEN n ELSE k * PerBatch

\* Every batch starts where the one before ended, and the last ends with the vertices.
LEMMA BatchBounds ==
  ASSUME NEW n \in Nat
  PROVE  /\ BatchCount(n) \in Nat /\ BatchEnd(n, 0) = 0 /\ BatchEnd(n, BatchCount(n)) = n
         /\ \A k \in 0..BatchCount(n) : BatchEnd(n, k) \in 0..n
         /\ \A k \in 1..BatchCount(n) :
              /\ (k - 1) * PerBatch < n /\ BatchEnd(n, k - 1) = (k - 1) * PerBatch
              /\ k # BatchCount(n) => k * PerBatch <= n
<1>. DEFINE m == BatchCount(n)
<1>1. PerBatch \in Nat /\ PerBatch > 0
  BY BatchAssumption
<1>2. /\ m \in Nat /\ m * PerBatch <= n + PerBatch - 1
      /\ n + PerBatch - 1 < m * PerBatch + PerBatch
  <2>1. \A x, d \in Nat : d > 0 =>
          x \div d \in Nat /\ (x \div d) * d <= x /\ x < (x \div d) * d + d
    <3>1. ASSUME NEW x \in Int, NEW d \in Int, d > 0
          PROVE  (x \div d) * d <= x /\ x < (x \div d) * d + d /\ x \div d \in Int
      BY <3>1
    <3>2. ASSUME NEW x \in Nat, NEW d \in Nat, d > 0 PROVE x \div d >= 0
      BY <3>2
    <3>. QED
      BY <3>1, <3>2
  <2>2. n + PerBatch - 1 \in Nat
    BY <1>1
  <2>. QED
    BY <1>1, <2>1, <2>2 DEF BatchCount
<1>. HIDE DEF m
<1>3. \A a, b, d \in Nat : a <= b => a * d <= b * d
  OBVIOUS
<1>4. ASSUME NEW k \in 1..m
      PROVE  /\ (k - 1) * PerBatch < n /\ BatchEnd(n, k - 1) = (k - 1) * PerBatch
             /\ k # m => k * PerBatch <= n
  <2>1. k \in Nat /\ k - 1 \in Nat /\ k <= m
    BY <1>2
  <2>2. k * PerBatch <= m * PerBatch
    BY <1>1, <1>2, <1>3, <2>1
  <2>3. (k - 1) * PerBatch = k * PerBatch - PerBatch /\ k * PerBatch \in Nat
    BY <1>1, <2>1
  <2>4. m * PerBatch \in Nat /\ (k - 1) * PerBatch \in Nat
    BY <1>1, <1>2, <2>1
  <2>5. (k - 1) * PerBatch < n
    BY <1>1, <1>2, <2>2, <2>3, <2>4
  <2>6. k # m => k * PerBatch <= n
    <3>1. SUFFICES ASSUME k # m PROVE k * PerBatch <= n
      OBVIOUS
    <3>2. k + 1 \in Nat /\ k + 1 <= m
      BY <1>2, <2>1, <3>1
    <3>3. (k + 1) * PerBatch <= m * PerBatch
      BY <1>1, <1>2, <1>3, <3>2
    <3>4. (k + 1) * PerBatch = k * PerBatch + PerBatch
      BY <1>1, <2>1
    <3>. QED
      BY <1>1, <1>2, <2>3, <2>4, <3>3, <3>4
  <2>. QED
    BY <2>4, <2>5, <2>6 DEF BatchEnd
<1>5. \A k \in 0..m : BatchEnd(n, k) \in 0..n
  <2>1. \A k \in 0..m : k * PerBatch \in Nat
    BY <1>1
  <2>. QED
    BY <2>1 DEF BatchEnd
<1>6. BatchEnd(n, 0) = 0
  BY <1>1 DEF BatchEnd
<1>7. BatchEnd(n, m) = n
  <2>1. m * PerBatch \in Nat
    BY <1>1, <1>2
  <2>. QED
    BY <1>1, <1>2, <2>1 DEF BatchEnd
<1>. QED
  BY <1>2, <1>4, <1>5, <1>6, <1>7 DEF m

\* The vertices of a batch.
Batch(n, k) ==
  [i \in 1..(BatchEnd(n, k) - BatchEnd(n, k - 1)) |-> BatchEnd(n, k - 1) + i - 1]

\* Batches, by where they start and end.
LEMMA BatchesAre ==
  ASSUME NEW n \in Nat
  PROVE  /\ Batches(n) = [k \in 1..BatchCount(n) |-> <<Batch(n, k)>>]
         /\ \A k \in 1..BatchCount(n) :
              /\ Batch(n, k) \in Seq(Nat)
              /\ Len(Batch(n, k)) = BatchEnd(n, k) - BatchEnd(n, k - 1)
<1>1. ASSUME NEW k \in 1..BatchCount(n)
      PROVE  /\ BatchEnd(n, k - 1) = (k - 1) * PerBatch
             /\ BatchEnd(n, k) - BatchEnd(n, k - 1)
                  = IF n - (k - 1) * PerBatch < PerBatch THEN n - (k - 1) * PerBatch ELSE PerBatch
             /\ BatchEnd(n, k) - BatchEnd(n, k - 1) \in Nat /\ BatchEnd(n, k - 1) \in Nat
  <2>1. BatchEnd(n, k - 1) = (k - 1) * PerBatch /\ (k - 1) * PerBatch < n
    BY BatchBounds
  <2>2. /\ PerBatch \in Nat /\ k - 1 \in Nat /\ k \in Nat
        /\ k * PerBatch = (k - 1) * PerBatch + PerBatch
    BY BatchAssumption, BatchBounds
  <2>3. (k - 1) * PerBatch \in Nat /\ k * PerBatch \in Nat
    BY <2>2
  <2>. QED
    BY <2>1, <2>2, <2>3 DEF BatchEnd
<1>2. ASSUME NEW k \in 1..BatchCount(n)
      PROVE  /\ Batch(n, k) \in Seq(Nat)
             /\ Len(Batch(n, k)) = BatchEnd(n, k) - BatchEnd(n, k - 1)
  <2>. DEFINE length == BatchEnd(n, k) - BatchEnd(n, k - 1)
              start  == BatchEnd(n, k - 1)
  <2>1. length \in Nat /\ start \in Nat
    BY <1>1
  <2>2. Batch(n, k) = [i \in 1..length |-> start + i - 1]
    BY DEF Batch
  <2>. HIDE DEF length, start
  <2>3. \A i \in 1..length : start + i - 1 \in Nat
    BY <2>1
  <2>4. Batch(n, k) \in Seq(Nat) /\ Len(Batch(n, k)) = length
    BY <2>1, <2>2, <2>3
  <2>. QED
    BY <2>4 DEF length
<1>. QED
  BY <1>1, <1>2 DEF Batches, Batch, BatchCount

\* DrawArrays.
LEMMA BatchesSent ==
  ASSUME NEW n \in Nat
  PROVE  FlattenSeq(FlattenSeq(Batches(n))) = All(n)
<1>. DEFINE m == BatchCount(n)
            t == [k \in 1..m |-> Batch(n, k)]
            cut == [k \in 0..m |-> BatchEnd(n, k)]
<1>1. m \in Nat /\ t \in Seq(Seq(Nat)) /\ Len(t) = m
  <2>1. m \in Nat
    BY BatchBounds
  <2>2. \A k \in 1..m : Batch(n, k) \in Seq(Nat)
    BY BatchesAre
  <2>. HIDE DEF m
  <2>. QED
    BY <2>1, <2>2
<1>2. Batches(n) = [k \in 1..Len(t) |-> <<t[k]>>]
  BY <1>1, BatchesAre
<1>3. cut \in [0..Len(t) -> 0..Len(All(n))] /\ cut[0] = 0 /\ cut[Len(t)] = Len(All(n))
  <2>1. \A k \in 0..m : BatchEnd(n, k) \in 0..n
    BY BatchBounds
  <2>2. BatchEnd(n, 0) = 0 /\ BatchEnd(n, m) = n /\ 0 \in 0..m /\ m \in 0..m
    BY <1>1, BatchBounds
  <2>3. Len(All(n)) = n
    BY AllType
  <2>. HIDE DEF m, t
  <2>. QED
    BY <1>1, <2>1, <2>2, <2>3
<1>4. ASSUME NEW k \in 1..Len(t)
      PROVE  /\ cut[k] = cut[k - 1] + Len(t[k])
             /\ \A j \in 1..Len(t[k]) : t[k][j] = All(n)[cut[k - 1] + j]
  <2>1. k \in 0..m /\ k - 1 \in 0..m /\ k \in 1..m
    BY <1>1
  <2>2. cut[k] = BatchEnd(n, k) /\ cut[k - 1] = BatchEnd(n, k - 1) /\ t[k] = Batch(n, k)
    BY <1>1, <2>1
  <2>3. BatchEnd(n, k) \in 0..n /\ BatchEnd(n, k - 1) \in 0..n
    BY <2>1, BatchBounds
  <2>4. Len(Batch(n, k)) = BatchEnd(n, k) - BatchEnd(n, k - 1) /\ Len(Batch(n, k)) \in Nat
    BY <2>1, BatchesAre
  <2>5. ASSUME NEW j \in 1..Len(Batch(n, k))
        PROVE  Batch(n, k)[j] = All(n)[BatchEnd(n, k - 1) + j]
    <3>1. BatchEnd(n, k - 1) + j \in 1..n
      BY <2>3, <2>4
    <3>2. Batch(n, k)[j] = BatchEnd(n, k - 1) + j - 1
      BY <2>4 DEF Batch
    <3>3. All(n)[BatchEnd(n, k - 1) + j] = (BatchEnd(n, k - 1) + j) - 1
      BY <3>1, AllType
    <3>4. (BatchEnd(n, k - 1) + j) - 1 = BatchEnd(n, k - 1) + j - 1
      BY <2>3
    <3>. QED
      BY <3>2, <3>3, <3>4
  <2>. HIDE DEF cut, t
  <2>6. cut[k] = cut[k - 1] + Len(t[k])
    BY <2>2, <2>3, <2>4
  <2>. QED
    BY <2>2, <2>5, <2>6
<1>. HIDE DEF t, cut
<1>5. Cuts(t, All(n), cut)
  BY <1>3, <1>4 DEF Cuts
<1>6. FlattenSeq(t) = All(n)
  BY <1>1, <1>3, <1>5, AllType, FlattenCuts
<1>7. FlattenSeq(Batches(n)) = t
  BY <1>1, <1>2, Singles
<1>. QED
  BY <1>6, <1>7

-----------------------------------------------------------------------------
(* The converted strip.                                                       *)

\* ConvertFromTriangleStripToTriangles: the copies are the triangles of the strip.
LEMMA TrianglesAreStrip ==
  ASSUME NEW n \in Nat, n >= 3
  PROVE  Triangles(n) \in Seq(Nat) /\ Triangles(n) = Strip(n)
<1>. DEFINE D == [src : Nat \ {0}, dst : Seq(Nat)]
            b == [src |-> 2, dst |-> <<0, 1, 2>>]
            s == [i \in 1..(n - 3) |-> i]
            t == [k \in 1..(n - 2) |-> StripTriangle(k - 1)]
<1>1. ASSUME NEW a \in D, NEW i \in Nat
      PROVE  CopyTriangle(a, i) \in D
  <2>1. a.src \in Nat /\ a.src - 1 \in Nat /\ a.src + 1 \in Nat \ {0} /\ a.dst \in Seq(Nat)
    OBVIOUS
  <2>. DEFINE e == IF i % 2 = 1 THEN <<a.src, a.src - 1, a.src + 1>>
                                ELSE <<a.src - 1, a.src, a.src + 1>>
  <2>2. e \in Seq(Nat)
    BY <2>1
  <2>3. CopyTriangle(a, i) = [src |-> a.src + 1, dst |-> a.dst \o e]
    BY DEF CopyTriangle
  <2>. HIDE DEF e
  <2>. QED
    BY <2>1, <2>2, <2>3
<1>2. /\ n - 3 \in Nat /\ s \in Seq(Nat) /\ Len(s) = n - 3
      /\ \A k \in 1..(n - 3) : s[k] = k
  OBVIOUS
<1>3. b \in D
  <2>1. <<0, 1, 2>> \in Seq(Nat)
    OBVIOUS
  <2>. QED
    BY <2>1
<1>4. Triangles(n) = FoldLeft(CopyTriangle, b, s).dst
  BY DEF Triangles
<1>5. t \in Seq(Seq(Nat)) /\ Len(t) = n - 2 /\ \A k \in 1..(n - 2) : t[k] = StripTriangle(k - 1)
  <2>1. ASSUME NEW k \in 1..(n - 2) PROVE StripTriangle(k - 1) \in Seq(Nat)
    <3>. DEFINE i == k - 1
    <3>1. i \in Nat
      OBVIOUS
    <3>. HIDE DEF i
    <3>2. StripTriangle(i) \in Seq(Nat)
      BY <3>1 DEF StripTriangle
    <3>. QED
      BY <3>2 DEF i
  <2>. QED
    BY <2>1
<1>6. Strip(n) = FlattenSeq(t)
  BY DEF Strip
<1>. HIDE DEF D, s, t
<1>7. PICK acc \in [0..Len(s) -> D] : CopiesTriangles(acc, b, s)
  BY <1>1, <1>2, <1>3, TrianglesFold
<1>8. /\ acc[0] = b /\ acc[n - 3] = FoldLeft(CopyTriangle, b, s)
      /\ \A k \in 1..(n - 3) : acc[k] = CopyTriangle(acc[k - 1], k)
      /\ \A k \in 0..(n - 3) : acc[k] \in D
  BY <1>2, <1>7 DEF CopiesTriangles
<1>9. \A k \in Nat : k <= n - 3 => acc[k].src = k + 2
  <2>. DEFINE S == {k \in Nat : k <= n - 3 => acc[k].src = k + 2}
  <2>1. 0 \in S
    BY <1>8
  <2>2. ASSUME NEW k \in Nat, k <= n - 3 => acc[k].src = k + 2, k + 1 <= n - 3
        PROVE  acc[k + 1].src = (k + 1) + 2
    <3>1. k + 1 \in 1..(n - 3) /\ (k + 1) - 1 = k
      BY <1>2, <2>2
    <3>2. acc[k + 1] = CopyTriangle(acc[k], k + 1)
      BY <1>8, <3>1
    <3>3. acc[k + 1].src = acc[k].src + 1
      BY <3>2 DEF CopyTriangle
    <3>. QED
      BY <1>2, <2>2, <3>3
  <2>3. \A k \in Nat : k \in S => k + 1 \in S
    BY <2>2
  <2>. HIDE DEF S
  <2>4. \A k \in Nat : k \in S
    BY <2>1, <2>3, Induction
  <2>. QED
    BY <2>4 DEF S
<1>. DEFINE sent == [k \in 0..(n - 2) |-> IF k = 0 THEN <<>> ELSE acc[k - 1].dst]
<1>10. sent[0] = <<>> /\ sent[Len(t)] = Triangles(n) /\ Triangles(n) \in Seq(Nat)
  <2>1. /\ n - 2 \in 0..(n - 2) /\ 0 \in 0..(n - 2) /\ n - 2 # 0
        /\ (n - 2) - 1 = n - 3 /\ n - 3 \in 0..(n - 3)
    BY <1>2
  <2>2. acc[n - 3] \in D
    BY <1>8, <2>1
  <2>. QED
    BY <1>4, <1>5, <1>8, <2>1, <2>2 DEF D
<1>11. ASSUME NEW k \in 1..(n - 2)
       PROVE  sent[k] \in Seq(Nat) /\ sent[k] = sent[k - 1] \o t[k]
  <2>1. k \in 0..(n - 2) /\ k # 0 /\ k - 1 \in 0..(n - 2) /\ k - 1 \in 0..(n - 3) /\ n - 2 \in Nat
    BY <1>2
  <2>2. sent[k] = acc[k - 1].dst /\ acc[k - 1] \in D
    BY <1>8, <2>1
  <2>3. sent[k] \in Seq(Nat)
    BY <2>2 DEF D
  <2>4. CASE k = 1
    <3>1. sent[0] = <<>> /\ sent[1] = <<0, 1, 2>>
      BY <1>8, <2>1, <2>2, <2>4
    <3>2. t[1] = <<0, 1, 2>>
      <4>1. t[1] = StripTriangle(0)
        BY <1>5, <2>4
      <4>. QED
        BY <4>1 DEF StripTriangle
    <3>3. <<0, 1, 2>> = <<>> \o <<0, 1, 2>>
      OBVIOUS
    <3>4. k - 1 = 0
      BY <2>4
    <3>. QED
      BY <2>3, <2>4, <3>1, <3>2, <3>3, <3>4
  <2>5. CASE k # 1
    <3>1. /\ k - 1 \in 1..(n - 3) /\ (k - 1) - 1 = k - 2 /\ k - 1 # 0
          /\ k - 2 \in Nat /\ k - 2 <= n - 3
      BY <2>1, <2>5
    <3>2. acc[k - 1] = CopyTriangle(acc[k - 2], k - 1)
      BY <1>8, <3>1
    <3>3. acc[k - 2].src = k
      BY <1>9, <3>1
    <3>. DEFINE e == IF (k - 1) % 2 = 1 THEN <<k, k - 1, k + 1>> ELSE <<k - 1, k, k + 1>>
    <3>4. acc[k - 1].dst = acc[k - 2].dst \o e
      <4>1. ASSUME NEW a, NEW i
            PROVE  CopyTriangle(a, i).dst =
                     a.dst \o IF i % 2 = 1 THEN <<a.src, a.src - 1, a.src + 1>>
                                            ELSE <<a.src - 1, a.src, a.src + 1>>
        BY DEF CopyTriangle
      <4>2. acc[k - 1].dst =
              acc[k - 2].dst \o IF (k - 1) % 2 = 1
                THEN <<acc[k - 2].src, acc[k - 2].src - 1, acc[k - 2].src + 1>>
                ELSE <<acc[k - 2].src - 1, acc[k - 2].src, acc[k - 2].src + 1>>
        BY <3>2, <4>1
      <4>. QED
        BY <3>3, <4>2
    <3>5. t[k] = e
      <4>1. t[k] = StripTriangle(k - 1)
        BY <1>5
      <4>2. /\ (k - 1) % 2 = 0 \/ (k - 1) % 2 = 1
            /\ (k - 1) + 1 = k /\ (k - 1) + 2 = k + 1
        OBVIOUS
      <4>. QED
        BY <4>1, <4>2 DEF StripTriangle
    <3>6. sent[k - 1] = acc[k - 2].dst
      BY <2>1, <3>1
    <3>. QED
      BY <2>2, <2>3, <3>4, <3>5, <3>6
  <2>. QED
    BY <2>4, <2>5
<1>. HIDE DEF sent
<1>12. FlattenSeq(t) = sent[Len(t)]
  <2>1. \A k \in 1..Len(t) : sent[k] \in Seq(Nat) /\ sent[k] = sent[k - 1] \o t[k]
    BY <1>5, <1>11
  <2>. QED
    BY <1>5, <1>10, <2>1, FlattenInTurn
<1>. QED
  BY <1>6, <1>10, <1>12

-----------------------------------------------------------------------------
(* Every draw call sends what it was asked for.                               *)

\* A single sequence.
LEMMA FlattenOne ==
  ASSUME NEW T, NEW e \in Seq(T)
  PROVE  FlattenSeq(<<e>>) = e
<1>1. <<>> \in Seq(Seq(T)) /\ <<e>> = Append(<<>>, e) /\ <<>> \o e = e
  OBVIOUS
<1>2. FlattenSeq(Append(<<>>, e)) = FlattenSeq(<<>>) \o e
  BY <1>1, FlattenAppend
<1>. QED
  BY <1>1, <1>2, FlattenEmpty

\* The last draw call sent what it was asked for; DrawArrays sent it in batches.
SentInv ==
  /\ DrawnAsAsked
  /\ ~last.whole => \E n \in Nat : last.blocks = Batches(n) /\ last.asked = All(n)

\* The calls that are no draw calls leave nothing sent.
LEMMA NothingSent ==
  ASSUME last = NoDraw
  PROVE  SentInv
BY FlattenEmpty DEF SentInv, DrawnAsAsked, NoDraw

\* A draw call that cuts its work well.
LEMMA DrawCallSent ==
  ASSUME NEW asked, NEW blocks, NEW whole, NEW prim, NEW copy, NEW data,
         DrawCall(asked, blocks, whole, prim, copy, data),
         FlattenSeq(FlattenSeq(blocks)) = asked,
         ~whole => \E n \in Nat : blocks = Batches(n) /\ asked = All(n)
  PROVE  SentInv'
BY DEF DrawCall, SentInv, DrawnAsAsked

\* Every draw call does.
LEMMA DrawSent ==
  ASSUME TypeOK, buffer # NoBuffer, Draw
  PROVE  SentInv'
<1>1. buffer \in Buffers /\ SizeOf[buffer] \in Nat
  BY BuffersAssumption DEF TypeOK
<1>2. ASSUME NEW prim \in Primitives, DrawArrays(prim) PROVE SentInv'
  BY <1>1, <1>2, BatchesSent, DrawCallSent DEF DrawArrays, DrawFetched
<1>3. CASE DrawInlineBuffer
  BY <1>1, <1>3, VerticesSent, DrawCallSent DEF DrawInlineBuffer, DrawInline
<1>4. ASSUME NEW words \in Layouts, DrawInlineArray(words) PROVE SentInv'
  <2>1. words \in Nat
    BY LayoutAssumption
  <2>. QED
    BY <1>1, <1>4, <2>1, InlineArrayDrawn, DrawCallSent DEF DrawInlineArray, DrawInline
<1>5. ASSUME NEW ix \in IndexLists, DrawInlineElements16(ix) PROVE SentInv'
  <2>1. ix \in Seq(Nat) /\ \A i \in 1..Len(ix) : ix[i] < HalfWord
    BY <1>5, IndexAssumption DEF DrawInlineElements16
  <2>. QED
    BY <1>5, <2>1, Elements16Sent, DrawCallSent DEF DrawInlineElements16, DrawFetched
<1>6. ASSUME NEW ix \in IndexLists, DrawInlineElements32(ix) PROVE SentInv'
  <2>1. ix \in Seq(Nat)
    BY IndexAssumption
  <2>. QED
    BY <1>6, <2>1, Elements32Sent, DrawCallSent DEF DrawInlineElements32, DrawFetched
<1>. QED
  BY <1>2, <1>3, <1>4, <1>5, <1>6 DEF Draw

\* The strip is converted to the triangles it stands for.
LEMMA StripSent ==
  ASSUME TypeOK, buffer # NoBuffer, ConvertStrip
  PROVE  SentInv'
<1>. DEFINE n == SizeOf[buffer]
<1>1. n \in Nat /\ n >= 3
  BY BuffersAssumption DEF TypeOK, ConvertStrip
<1>. DEFINE t == Triangles(n)
            e == <<t>>
<1>2. t \in Seq(Nat) /\ t = Strip(n)
  BY <1>1, TrianglesAreStrip
<1>3. last'.whole /\ last'.asked = Strip(n) /\ last'.blocks = <<e>>
  BY DEF ConvertStrip, NoDraw
<1>. HIDE DEF n, t
<1>4. e \in Seq(Seq(Nat)) /\ FlattenSeq(e) = t
  BY <1>2, FlattenOne
<1>. HIDE DEF e
<1>5. FlattenSeq(<<e>>) = e
  BY <1>4, FlattenOne
<1>. QED
  BY <1>2, <1>3, <1>4, <1>5 DEF SentInv, DrawnAsAsked

\* Therefore it always holds.
LEMMA SentInductive == Spec => []SentInv
<1>1. Init => SentInv
  BY NothingSent DEF Init
<1>2. TypeOK /\ SentInv /\ [Next]_vars => SentInv'
  <2>. SUFFICES ASSUME TypeOK, SentInv, [Next]_vars PROVE SentInv'
    OBVIOUS
  <2>1. last' = NoDraw => SentInv'
    BY FlattenEmpty DEF SentInv, DrawnAsAsked, NoDraw
  <2>2. CASE \E b \in Buffers : \/ AllocateVertexBuffer(b) \/ Free(b) \/ SetVertexBuffer(b)
                                \/ Define(b) \/ Lock(b) \/ Linearize(b)
    BY <2>1, <2>2 DEF AllocateVertexBuffer, Free, SetVertexBuffer, Define, Lock, Linearize
  <2>3. CASE SetStage0
    BY <2>1, <2>3 DEF SetStage0
  <2>4. CASE buffer # NoBuffer /\ Draw
    BY <2>4, DrawSent
  <2>5. CASE buffer # NoBuffer /\ ConvertStrip
    BY <2>5, StripSent
  <2>6. CASE UNCHANGED vars
    BY <2>6 DEF vars, SentInv, DrawnAsAsked
  <2>. QED
    BY <2>2, <2>3, <2>4, <2>5, <2>6 DEF Next
<1>. QED
  BY <1>1, <1>2, BufferHeld, PTL DEF Spec

\* All batches but the last have as many vertices as fit, which is a number of whole
\* points, lines, triangles and quads; vertices that fit into one are in one.
LEMMA BatchesWhole ==
  ASSUME NEW n \in Nat
  PROVE  /\ \A k \in 1..(Len(Batches(n)) - 1), p \in Lists :
              Len(Batches(n)[k][1]) % PerPrimitive[p] = 0
         /\ n <= PerBatch => Len(Batches(n)) <= 1
<1>1. PerBatch \in Nat /\ PerBatch > 0 /\ PerBatch % 12 = 0
  BY BatchAssumption
<1>2. Len(Batches(n)) = BatchCount(n) /\ BatchCount(n) \in Nat
  BY BatchesAre, BatchBounds
<1>3. ASSUME NEW k \in 1..(BatchCount(n) - 1), NEW p \in Lists
      PROVE  Len(Batches(n)[k][1]) % PerPrimitive[p] = 0
  <2>1. k \in 1..BatchCount(n) /\ k # BatchCount(n)
    BY <1>2
  <2>2. Batches(n)[k] = <<Batch(n, k)>>
    BY <2>1, BatchesAre
  <2>3. Len(Batch(n, k)) = BatchEnd(n, k) - BatchEnd(n, k - 1)
    BY <2>1, BatchesAre
  <2>4. BatchEnd(n, k - 1) = (k - 1) * PerBatch /\ k * PerBatch <= n
    BY <2>1, BatchBounds
  <2>5. BatchEnd(n, k) = k * PerBatch
    <3>1. k * PerBatch \in Nat
      BY <1>1, <1>2
    <3>. QED
      BY <2>4, <3>1 DEF BatchEnd
  <2>6. k * PerBatch - (k - 1) * PerBatch = PerBatch
    BY <1>1, <1>2
  <2>7. Len(Batches(n)[k][1]) = PerBatch
    BY <2>2, <2>3, <2>4, <2>5, <2>6
  <2>8. PerPrimitive[p] \in {1, 2, 3, 4}
    BY DEF Lists, PerPrimitive
  <2>9. PerBatch % 1 = 0 /\ PerBatch % 2 = 0 /\ PerBatch % 3 = 0 /\ PerBatch % 4 = 0
    BY <1>1
  <2>. QED
    BY <2>7, <2>8, <2>9
<1>4. ASSUME n <= PerBatch
      PROVE  BatchCount(n) <= 1
  <2>1. SUFFICES ASSUME BatchCount(n) >= 2 PROVE FALSE
    BY <1>2
  <2>2. 1 \in 1..BatchCount(n) /\ 2 \in 1..BatchCount(n)
    BY <1>2, <2>1
  <2>3. (2 - 1) * PerBatch < n
    BY <2>2, BatchBounds
  <2>. QED
    BY <1>1, <1>4, <2>3
<1>. QED
  BY <1>2, <1>3, <1>4

\* However large the buffer, the layout of its vertices and the list of indices: a draw
\* call sends what it was asked for, and a converted strip is the strip.
THEOREM AllIsDrawn == Spec => []DrawnAsAsked
BY SentInductive, PTL DEF SentInv

\* However many batches DrawArrays makes, none of them ends inside a primitive.
THEOREM NoPrimitiveCut == Spec => []PrimitivesWhole
<1>1. SentInv => PrimitivesWhole
  <2>. SUFFICES ASSUME SentInv, ~last.whole
                PROVE  IF last.prim \in Lists
                         THEN \A k \in 1..(Len(last.blocks) - 1) :
                                Len(last.blocks[k][1]) % PerPrimitive[last.prim] = 0
                         ELSE Len(last.asked) <= PerBatch => Len(last.blocks) <= 1
    BY DEF PrimitivesWhole
  <2>1. PICK n \in Nat : last.blocks = Batches(n) /\ last.asked = All(n)
    BY DEF SentInv
  <2>2. Len(last.asked) = n
    BY <2>1, AllType
  <2>. QED
    BY <2>1, <2>2, BatchesWhole
<1>. QED
  BY <1>1, SentInductive, PTL
=============================================================================
