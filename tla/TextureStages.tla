--------------------------- MODULE TextureStages ---------------------------
(* The texture stages of the Renderer of the development host,                 *)
(* src/devhost/src/texture_stage.cpp: what the client sets of each, what       *)
(* PrepareDraw makes of that in the GPU, and the memory that textures and      *)
(* palettes share.                                                             *)
(*                                                                             *)
(* Commit sends the format, the filter and most of the rest to registers of    *)
(* the stage, but the border color, the bump environment and the texgen modes  *)
(* without the offset of the stage: to registers that are those of stage 0.    *)
(* Memory is counted in palettes of 1024 bytes.                                *)
EXTENDS Integers, FiniteSetsExt

CONSTANTS
  StageCount, \* kMaxTextures, 4
  MaxTexture, \* max_single_texture_size_
  TextureFormats,
  Plain,      \* that of a TextureFormatInfo nobody set
  Paletted,   \* SZ_I8_A8R8G8B8
  Default,    \* what Reset sets border color, bump environment and texgen to
  Colors      \* Default and what the client sets instead

ASSUME StageAssumption  == StageCount \in Nat \ {0, 1}
\* A texture of 256 x 256 holds many more palettes than there are stages.
ASSUME MemoryAssumption == MaxTexture \in Nat /\ MaxTexture >= StageCount
ASSUME FormatAssumption == {Plain, Paletted} \subseteq TextureFormats /\ Default \in Colors

Stages == 0..(StageCount - 1)

VARIABLES
  stage,     \* texture_stage_: [enabled, format, palette, colors] of each
  registers, \* in the GPU, of each stage: [enabled, format]
  colors,    \* in the GPU, once: border color, bump environment and texgen
  committed, \* PrepareDraw was called and nothing was set since
  memory,    \* what each part of the texture memory holds
  loaded,    \* how much of its texture each stage was given
  palettes   \* the stages whose palette was set later than stage 1's texture

textureVars == <<stage, registers, colors, committed, memory, loaded, palettes>>

Unwritten == [kind |-> "nothing", of |-> 0]
Texture(s) == [kind |-> "texture", of |-> s]
Palette(s) == [kind |-> "palette", of |-> s]

\* SetTextureOffset, SetPaletteOffset of the constructor.
TextureOffset(s) == s * MaxTexture

\* Mutant: the palettes are behind the textures of all stages but one on the other.
PaletteOffsetShared(s) == MaxTexture

\* texture_palette_memory_ is texture_memory_ and the size of ONE texture.
PaletteOffset(s) == MaxTexture + s

MemorySize == StageCount * MaxTexture + StageCount

TextureInit ==
  /\ stage = [s \in Stages |-> [enabled |-> FALSE, format |-> Plain, palette |-> FALSE,
                                colors |-> Default]]
  /\ registers = [s \in Stages |-> [enabled |-> FALSE, format |-> "unset"]]
  /\ colors = Default
  /\ committed = FALSE
  /\ memory = [a \in 0..(MemorySize - 1) |-> Unwritten]
  /\ loaded = [s \in Stages |-> 0]
  /\ palettes = {}

Set(s, new) ==
  /\ stage' = [stage EXCEPT ![s] = new]
  /\ committed' = FALSE
  /\ UNCHANGED <<registers, colors>>

Same == UNCHANGED <<memory, loaded, palettes>>

SetTextureStageEnabled(s, on) == Set(s, [stage[s] EXCEPT !.enabled = on]) /\ Same

SetTextureFormat(s, f) == Set(s, [stage[s] EXCEPT !.format = f]) /\ Same

\* SetBorderColor, SetBumpEnv, SetTexgenS and the others.
SetColors(s, c) == Set(s, [stage[s] EXCEPT !.colors = c]) /\ Same

SetPaletteSize(s) == Set(s, [stage[s] EXCEPT !.palette = TRUE]) /\ Same

\* Reset: a stage stays enabled and keeps its format and its palette.
SetDefaultTextureParams(s) == Set(s, [stage[s] EXCEPT !.colors = Default]) /\ Same

\* ASSERT(surface_size < max_texture_size): not even a texture of the maximum size.
SetRawTexture(s, size) ==
  /\ size < MaxTexture
  /\ memory' = [a \in DOMAIN memory |->
                  IF a \in TextureOffset(s)..(TextureOffset(s) + size - 1)
                    THEN Texture(s) ELSE memory[a]]
  /\ loaded' = [loaded EXCEPT ![s] = size]
  /\ palettes' = IF s = 1 THEN {} ELSE palettes
  /\ UNCHANGED <<stage, registers, colors, committed>>

SetPalette(s) ==
  /\ Set(s, [stage[s] EXCEPT !.palette = TRUE])
  /\ memory' = [memory EXCEPT ![PaletteOffset(s)] = Palette(s)]
  /\ palettes' = palettes \cup {s}
  /\ UNCHANGED loaded

\* ASSERT: "Invalid attempt to use paletted format without setting palette."
Drawable(s) == stage[s].enabled /\ stage[s].format = Paletted => stage[s].palette

\* Mutant: nothing is sent for a stage that is disabled.
CommitEnabled(s) ==
  IF stage[s].enabled THEN [enabled |-> TRUE, format |-> stage[s].format] ELSE registers[s]

\* Commit of one stage, as far as its own registers go.
Commit(s) ==
  IF stage[s].enabled THEN [enabled |-> TRUE, format |-> stage[s].format]
                      ELSE [registers[s] EXCEPT !.enabled = FALSE]

Enabled == {s \in Stages : stage[s].enabled}

\* SetupTextureStages of PrepareDraw: the stages in turn.
PrepareTextures ==
  /\ \A s \in Stages : Drawable(s)
  /\ registers' = [s \in Stages |-> Commit(s)]
  /\ colors' = IF Enabled = {} THEN colors ELSE stage[Max(Enabled)].colors
  /\ committed' = TRUE
  /\ Same /\ UNCHANGED stage

\* Initialize of main: the control registers are cleared directly too.
InitializeTextures(f) ==
  /\ stage' = [s \in Stages |-> [stage[s] EXCEPT !.enabled = FALSE, !.format = f,
                                                 !.colors = Default]]
  /\ registers' = [s \in Stages |-> [registers[s] EXCEPT !.enabled = FALSE]]
  /\ committed' = FALSE
  /\ Same /\ UNCHANGED colors

TextureNext ==
  \/ \E s \in Stages :
       \/ \E on \in BOOLEAN : SetTextureStageEnabled(s, on)
       \/ \E f \in TextureFormats : SetTextureFormat(s, f)
       \/ \E c \in Colors : SetColors(s, c)
       \/ \E size \in 1..MaxTexture : SetRawTexture(s, size)
       \/ SetPaletteSize(s) \/ SetPalette(s) \/ SetDefaultTextureParams(s)
  \/ PrepareTextures
  \/ \E f \in TextureFormats \ {Paletted} : InitializeTextures(f)

TextureSpec == TextureInit /\ [][TextureNext]_textureVars

-----------------------------------------------------------------------------
\* Every variable stays in its type; a texture is smaller than the room for it.
StagesType ==
  /\ stage \in [Stages -> [enabled : BOOLEAN, format : TextureFormats, palette : BOOLEAN,
                           colors : Colors]]
  /\ registers \in [Stages -> [enabled : BOOLEAN, format : TextureFormats \cup {"unset"}]]
  /\ committed \in BOOLEAN

MemoryType ==
  /\ memory \in [0..(MemorySize - 1) -> [kind : {"nothing", "texture", "palette"}, of : Stages]]
  /\ loaded \in [Stages -> 0..(MaxTexture - 1)]
  /\ palettes \subseteq Stages

\* After PrepareDraw the GPU samples exactly the enabled stages, each with its own
\* format, whatever was enabled before; of what is sent without the offset of the stage
\* it has what the client set for the last enabled stage.
StagesCommitted ==
  committed =>
    /\ \A s \in Stages :
         /\ registers[s].enabled = stage[s].enabled
         /\ stage[s].enabled => registers[s].format = stage[s].format
    /\ Enabled # {} => colors = stage[Max(Enabled)].colors

\* No texture and no palette overwrites another one, but the palettes and the texture
\* of stage 1, which share their memory: what a stage was given last is there, a palette
\* until stage 1 is given a texture and that texture until a palette is set.
TexturesKept ==
  /\ \A s \in Stages :
       (s # 1 \/ palettes = {}) =>
         \A a \in TextureOffset(s)..(TextureOffset(s) + loaded[s] - 1) : memory[a] = Texture(s)
  /\ \A s \in palettes : memory[PaletteOffset(s)] = Palette(s)
=============================================================================
