--------------------------- MODULE RendererProofs ---------------------------
(* For every set of shader programs, number of texture stages and size of      *)
(* textures: what the Renderer sends to the GPU agrees with its settings.      *)
EXTENDS DepthSettings, ShaderConstants, TextureStages, TLAPS

-----------------------------------------------------------------------------
(* The depth buffer.                                                           *)

\* What is chosen for a format and a mode is a depth value.
LEMMA DepthRecord ==
  ASSUME NEW f \in Formats \cup {Other}, NEW fl \in BOOLEAN
  PROVE  [format |-> f, float |-> fl] \in [format : Formats \cup {Other}, float : BOOLEAN]
OBVIOUS

LEMMA DepthType == DepthSpec => []DepthTypeOK
<1>. USE DEF DepthTypeOK
<1>1. DepthInit => DepthTypeOK
  BY DepthRecord DEF DepthInit, Formats, Modes, Other
<1>2. DepthTypeOK /\ [DepthNext]_depthVars => DepthTypeOK'
  <2>. SUFFICES ASSUME DepthTypeOK, [DepthNext]_depthVars PROVE DepthTypeOK'
    OBVIOUS
  <2>z. "Z16" \in Formats /\ Modes = {"USER", "DEFAULT_XDK", "DEFAULT_NXDK"}
    BY DEF Formats, Modes
  <2>m. ASSUME NEW f \in Formats, NEW fl \in BOOLEAN,
               \/ HandleDepthBufferFormatChange(f, fl)
               \/ XDKMatrices(f, fl)
               \/ NXDKMatrices(f)
        PROVE  /\ viewport' \in Formats \cup {Other}
               /\ projection' \in [format : Formats \cup {Other}, float : BOOLEAN]
    BY <2>m, <2>z, DepthRecord DEF HandleDepthBufferFormatChange, XDKMatrices, NXDKMatrices
  <2>d. Depth \in [format : Formats \cup {Other}, float : BOOLEAN]
    BY DepthRecord DEF Depth
  <2>1. ASSUME NEW f \in Formats, SetSurfaceFormat(f) PROVE DepthTypeOK'
    BY <2>1, <2>m DEF SetSurfaceFormat
  <2>2. ASSUME NEW f \in Formats, SetSurfaceFormatImmediate(f) PROVE DepthTypeOK'
    BY <2>2, <2>m, DepthRecord DEF SetSurfaceFormatImmediate
  <2>3. ASSUME NEW enabled \in BOOLEAN, SetDepthBufferFloatMode(enabled) PROVE DepthTypeOK'
    BY <2>3, <2>m DEF SetDepthBufferFloatMode
  <2>4. CASE SetDefaultViewportAndFixedFunctionMatrices
    BY <2>4, <2>z, <2>m DEF SetDefaultViewportAndFixedFunctionMatrices
  <2>5. CASE SetXDKDefaultViewportAndFixedFunctionMatrices
    BY <2>5, <2>z, <2>m DEF SetXDKDefaultViewportAndFixedFunctionMatrices
  <2>6. CASE SetFixedFunctionModelViewMatrix \/ SetFixedFunctionProjectionMatrix
    BY <2>6, <2>z, DepthRecord
    DEF SetFixedFunctionModelViewMatrix, SetFixedFunctionProjectionMatrix
  <2>7. CASE PrepareDepth
    BY <2>7, <2>d DEF PrepareDepth
  <2>8. CASE MainFrame
    BY <2>8, <2>z, DepthRecord DEF MainFrame
  <2>9. CASE UNCHANGED depthVars
    BY <2>9 DEF depthVars
  <2>. QED
    BY <2>1, <2>2, <2>3, <2>4, <2>5, <2>6, <2>7, <2>8, <2>9 DEF DepthNext
<1>. QED
  BY <1>1, <1>2, PTL DEF DepthSpec

\* However the format, the float mode and the matrices are changed, and in whatever
\* order: what a frame is drawn with agrees.
THEOREM DepthSettingsAgree == DepthSpec => []DepthAgrees
<1>. USE DEF DepthAgrees, Depth, XDKMatrices, NXDKMatrices, HandleDepthBufferFormatChange
<1>1. DepthInit => DepthAgrees
  BY DEF DepthInit, Other
<1>2. DepthTypeOK /\ DepthAgrees /\ [DepthNext]_depthVars => DepthAgrees'
  <2>. SUFFICES ASSUME DepthTypeOK, DepthAgrees, [DepthNext]_depthVars PROVE DepthAgrees'
    OBVIOUS
  <2>. USE DEF DepthTypeOK, Modes
  <2>1. ASSUME NEW f \in Formats, SetSurfaceFormat(f) PROVE DepthAgrees'
    BY <2>1 DEF SetSurfaceFormat
  <2>2. ASSUME NEW f \in Formats, SetSurfaceFormatImmediate(f) PROVE DepthAgrees'
    BY <2>2 DEF SetSurfaceFormatImmediate
  <2>3. ASSUME NEW enabled \in BOOLEAN, SetDepthBufferFloatMode(enabled) PROVE DepthAgrees'
    BY <2>3 DEF SetDepthBufferFloatMode
  <2>4. CASE SetDefaultViewportAndFixedFunctionMatrices
    BY <2>4 DEF SetDefaultViewportAndFixedFunctionMatrices
  <2>5. CASE SetXDKDefaultViewportAndFixedFunctionMatrices
    BY <2>5 DEF SetXDKDefaultViewportAndFixedFunctionMatrices
  <2>6. CASE SetFixedFunctionModelViewMatrix \/ SetFixedFunctionProjectionMatrix
    BY <2>6 DEF SetFixedFunctionModelViewMatrix, SetFixedFunctionProjectionMatrix
  <2>7. CASE PrepareDepth
    BY <2>7 DEF PrepareDepth
  <2>8. CASE MainFrame
    BY <2>8 DEF MainFrame
  <2>9. CASE UNCHANGED depthVars
    BY <2>9 DEF depthVars
  <2>. QED
    BY <2>1, <2>2, <2>3, <2>4, <2>5, <2>6, <2>7, <2>8, <2>9 DEF DepthNext
<1>. QED
  BY <1>1, <1>2, DepthType, PTL DEF DepthSpec

-----------------------------------------------------------------------------
(* The constants of vertex shader programs.                                    *)

\* A program that has constants draws with its own, up to date, or with those of a
\* program that was drawn after it.
THEOREM ConstantsAreCurrent == ShaderSpec => []ConstantsCurrent
<1>. DEFINE Inv == ShaderTypeOK /\ ConstantsInv
<1>. USE ProgramsAssumption DEF ShaderTypeOK, ConstantsInv
<1>1. ShaderInit => Inv
  BY DEF ShaderInit
<1>2. Inv /\ [ShaderNext]_shaderVars => Inv'
  <2>. SUFFICES ASSUME Inv, [ShaderNext]_shaderVars PROVE Inv'
    OBVIOUS
  <2>1. ASSUME NEW p \in Programs \cup {NoProgram}, SetVertexShaderProgram(p) PROVE Inv'
    BY <2>1 DEF SetVertexShaderProgram
  <2>2. ASSUME NEW p \in Programs, SetUniform(p) PROVE Inv'
    BY <2>2 DEF SetUniform
  <2>3. CASE PrepareProgram
    BY <2>3 DEF PrepareProgram
  <2>4. CASE UNCHANGED shaderVars
    BY <2>4 DEF shaderVars
  <2>. QED
    BY <2>1, <2>2, <2>3, <2>4 DEF ShaderNext
<1>3. Inv => ConstantsCurrent
  BY DEF ConstantsCurrent
<1>. QED
  BY <1>1, <1>2, <1>3, PTL DEF ShaderSpec

-----------------------------------------------------------------------------
(* The texture stages.                                                         *)

\* Whatever is enabled, disabled and set between the draws: PrepareDraw leaves the GPU
\* with the stages as the client set them.
THEOREM StagesAreCommitted == TextureSpec => []StagesCommitted
<1>. DEFINE Inv == StagesType /\ StagesCommitted
<1>. USE StageAssumption, FormatAssumption DEF StagesType, StagesCommitted
<1>1. TextureInit => Inv
  <2>. SUFFICES ASSUME TextureInit PROVE Inv
    OBVIOUS
  <2>1. [enabled |-> FALSE, format |-> Plain, palette |-> FALSE, colors |-> Default]
          \in [enabled : BOOLEAN, format : TextureFormats, palette : BOOLEAN, colors : Colors]
    OBVIOUS
  <2>2. [enabled |-> FALSE, format |-> "unset"]
          \in [enabled : BOOLEAN, format : TextureFormats \cup {"unset"}]
    OBVIOUS
  <2>. QED
    BY <2>1, <2>2 DEF TextureInit
<1>2. Inv /\ [TextureNext]_textureVars => Inv'
  <2>. SUFFICES ASSUME Inv, [TextureNext]_textureVars PROVE Inv'
    OBVIOUS
  <2>. USE DEF Set, Same, Enabled
  <2>1. ASSUME NEW s \in Stages, NEW on \in BOOLEAN, SetTextureStageEnabled(s, on) PROVE Inv'
    BY <2>1 DEF SetTextureStageEnabled
  <2>2. ASSUME NEW s \in Stages, NEW f \in TextureFormats, SetTextureFormat(s, f) PROVE Inv'
    BY <2>2 DEF SetTextureFormat
  <2>3. ASSUME NEW s \in Stages, NEW c \in Colors, SetColors(s, c) PROVE Inv'
    BY <2>3 DEF SetColors
  <2>4. ASSUME NEW s \in Stages, NEW size \in 1..MaxTexture, SetRawTexture(s, size) PROVE Inv'
    BY <2>4 DEF SetRawTexture
  <2>5. ASSUME NEW s \in Stages, SetPaletteSize(s) PROVE Inv'
    BY <2>5 DEF SetPaletteSize
  <2>6. ASSUME NEW s \in Stages, SetPalette(s) PROVE Inv'
    BY <2>6 DEF SetPalette
  <2>7. ASSUME NEW s \in Stages, SetDefaultTextureParams(s) PROVE Inv'
    BY <2>7 DEF SetDefaultTextureParams
  <2>8. CASE PrepareTextures
    <3>1. Enabled' = Enabled
      BY <2>8 DEF PrepareTextures
    <3>2. StagesType'
      BY <2>8 DEF PrepareTextures, Commit
    <3>3. ASSUME NEW s \in Stages
          PROVE  /\ registers'[s].enabled = stage[s].enabled
                 /\ stage[s].enabled => registers'[s].format = stage[s].format
      BY <2>8 DEF PrepareTextures, Commit
    <3>4. Enabled # {} => colors' = stage[Max(Enabled)].colors
      BY <2>8 DEF PrepareTextures
    <3>. QED
      BY <2>8, <3>2, <3>3, <3>4, <3>1 DEF PrepareTextures
  <2>9. ASSUME NEW f \in TextureFormats, InitializeTextures(f) PROVE Inv'
    BY <2>9 DEF InitializeTextures
  <2>10. CASE UNCHANGED textureVars
    BY <2>10 DEF textureVars
  <2>. QED
    BY <2>1, <2>2, <2>3, <2>4, <2>5, <2>6, <2>7, <2>8, <2>9, <2>10 DEF TextureNext
<1>. QED
  BY <1>1, <1>2, PTL DEF TextureSpec

\* The textures of two stages do not meet, and the palettes, one behind the other,
\* lie where the texture of stage 1 does.
LEMMA Layout ==
  /\ \A s, t \in Stages, i, j \in 0..(MaxTexture - 1) :
       s # t => TextureOffset(s) + i # TextureOffset(t) + j
  /\ \A s, t \in Stages, i \in 0..(MaxTexture - 1) :
       s # 1 => TextureOffset(s) + i # PaletteOffset(t)
  /\ \A s, t \in Stages : s # t => PaletteOffset(s) # PaletteOffset(t)
  /\ \A s \in Stages, i \in 0..(MaxTexture - 1) :
       TextureOffset(s) + i \in 0..(MemorySize - 1)
  /\ \A s \in Stages : PaletteOffset(s) \in 0..(MemorySize - 1)
<1>. USE StageAssumption, MemoryAssumption DEF Stages, TextureOffset, PaletteOffset, MemorySize
<1>1. \A n, m \in Nat : n < m => n * MaxTexture + MaxTexture <= m * MaxTexture
  <2>. SUFFICES ASSUME NEW n \in Nat, NEW m \in Nat, n < m
                PROVE  n * MaxTexture + MaxTexture <= m * MaxTexture
    OBVIOUS
  <2>1. m - n - 1 \in Nat
    OBVIOUS
  <2>2. (m - n - 1) * MaxTexture >= 0
    BY <2>1
  <2>3. (m - n - 1) * MaxTexture = m * MaxTexture - n * MaxTexture - MaxTexture
    OBVIOUS
  <2>4. n * MaxTexture \in Int /\ m * MaxTexture \in Int
    OBVIOUS
  <2>. QED
    BY <2>2, <2>3, <2>4
<1>2. \A n \in Nat : n * MaxTexture \in Nat
  OBVIOUS
<1>3. \A s, t \in Stages, i, j \in 0..(MaxTexture - 1) :
        s # t => TextureOffset(s) + i # TextureOffset(t) + j
  BY <1>1, <1>2
<1>4. \A s, t \in Stages, i \in 0..(MaxTexture - 1) :
        s # 1 => TextureOffset(s) + i # PaletteOffset(t)
  <2>1. ASSUME NEW s \in Stages, s # 1
        PROVE  s = 0 \/ 2 * MaxTexture <= s * MaxTexture
    <3>1. CASE s = 0
      BY <3>1
    <3>2. CASE s # 0
      <4>1. 1 * MaxTexture + MaxTexture <= s * MaxTexture
        BY <1>1, <2>1, <3>2
      <4>. QED
        BY <4>1
    <3>. QED
      BY <3>1, <3>2
  <2>. QED
    BY <2>1, <1>2
<1>5. \A s \in Stages, i \in 0..(MaxTexture - 1) :
        TextureOffset(s) + i \in 0..(MemorySize - 1)
  BY <1>1, <1>2
<1>6. \A s \in Stages : PaletteOffset(s) \in 0..(MemorySize - 1)
  <2>1. 1 * MaxTexture + MaxTexture <= StageCount * MaxTexture
    BY <1>1
  <2>. QED
    BY <2>1, <1>2
<1>. QED
  BY <1>3, <1>4, <1>5, <1>6

\* What is in the first places of a texture is in its room.
LEMMA Within ==
  ASSUME NEW s \in Stages, NEW n \in Int, n <= MaxTexture,
         NEW a \in TextureOffset(s)..(TextureOffset(s) + n - 1)
  PROVE  \E i \in 0..(MaxTexture - 1) : a = TextureOffset(s) + i
<1>1. TextureOffset(s) \in Int /\ MaxTexture \in Int
  BY StageAssumption, MemoryAssumption DEF Stages, TextureOffset
<1>2. a - TextureOffset(s) \in 0..(MaxTexture - 1) /\ a = TextureOffset(s) + (a - TextureOffset(s))
  BY <1>1
<1>. QED
  BY <1>2

\* Textures and palettes of every size, set in every order: none overwrites another,
\* but where the palettes share the memory of stage 1.
THEOREM TexturesAreKept == TextureSpec => []TexturesKept
<1>. DEFINE Held(s) == \A a \in TextureOffset(s)..(TextureOffset(s) + loaded[s] - 1) :
                         memory[a] = Texture(s)
<1>. DEFINE Inv == MemoryType /\ TexturesKept
<1>1. TextureInit => Inv
  <2>. SUFFICES ASSUME TextureInit PROVE Inv
    OBVIOUS
  <2>1. MemoryType
    BY StageAssumption, MemoryAssumption DEF TextureInit, MemoryType, Unwritten, Stages
  <2>2. \A s \in Stages : TextureOffset(s) \in Int /\ loaded[s] = 0
    BY StageAssumption, MemoryAssumption DEF TextureInit, TextureOffset, Stages
  <2>. QED
    BY <2>1, <2>2 DEF TextureInit, TexturesKept
<1>2. Inv /\ [TextureNext]_textureVars => Inv'
  <2>. SUFFICES ASSUME Inv, [TextureNext]_textureVars PROVE Inv'
    OBVIOUS
  <2>1. CASE UNCHANGED <<memory, loaded, palettes>>
    BY <2>1 DEF MemoryType, TexturesKept
  <2>2. ASSUME NEW s \in Stages, NEW size \in 1..MaxTexture, SetRawTexture(s, size) PROVE Inv'
    <3>1. MemoryType'
      BY <2>2, StageAssumption, MemoryAssumption DEF MemoryType, SetRawTexture, Texture
    <3>. USE DEF MemoryType
    <3>2. \A t \in Stages : loaded'[t] \in Int /\ loaded'[t] <= MaxTexture
      BY <3>1, MemoryAssumption
    <3>3. size \in Int /\ size <= MaxTexture
      BY MemoryAssumption
    <3>4. ASSUME NEW t \in Stages, t # 1 \/ palettes' = {},
                 NEW a \in TextureOffset(t)..(TextureOffset(t) + loaded'[t] - 1)
          PROVE  memory'[a] = Texture(t)
      <4>1. PICK i \in 0..(MaxTexture - 1) : a = TextureOffset(t) + i
        BY <3>4, Within, MemoryAssumption, <3>2
      <4>2. CASE t = s
        BY <2>2, <3>4, <4>1, <4>2, Layout DEF SetRawTexture
      <4>3. CASE t # s
        <5>1. t # 1 \/ palettes = {}
          BY <2>2, <3>4, <4>3 DEF SetRawTexture
        <5>2. memory[a] = Texture(t)
          BY <2>2, <3>4, <4>3, <5>1 DEF SetRawTexture, TexturesKept
        <5>3. a \notin TextureOffset(s)..(TextureOffset(s) + size - 1)
          BY <4>1, <4>3, <3>3, Layout, Within, MemoryAssumption
        <5>. QED
          BY <2>2, <4>1, <5>2, <5>3, Layout DEF SetRawTexture
      <4>. QED
        BY <4>2, <4>3
    <3>5. ASSUME NEW t \in palettes' PROVE memory'[PaletteOffset(t)] = Palette(t)
      <4>1. t \in palettes /\ s # 1 /\ t \in Stages
        BY <2>2, <3>5 DEF SetRawTexture
      <4>2. PaletteOffset(t) \notin TextureOffset(s)..(TextureOffset(s) + size - 1)
        BY <4>1, <3>3, Layout, Within, MemoryAssumption
      <4>. QED
        BY <2>2, <4>1, <4>2, Layout DEF SetRawTexture, TexturesKept
    <3>. QED
      BY <3>1, <3>4, <3>5 DEF TexturesKept
  <2>3. ASSUME NEW s \in Stages, SetPalette(s) PROVE Inv'
    <3>. USE DEF MemoryType
    <3>1. MemoryType'
      BY <2>3 DEF SetPalette, Palette
    <3>2. \A t \in Stages : loaded[t] \in Int /\ loaded[t] <= MaxTexture
      BY MemoryAssumption
    <3>3. ASSUME NEW t \in Stages, t # 1,
                 NEW a \in TextureOffset(t)..(TextureOffset(t) + loaded[t] - 1)
          PROVE  memory'[a] = Texture(t)
      <4>1. PICK i \in 0..(MaxTexture - 1) : a = TextureOffset(t) + i
        BY <3>3, Within, MemoryAssumption, <3>2
      <4>2. a # PaletteOffset(s)
        BY <3>3, <4>1, Layout
      <4>3. memory[a] = Texture(t)
        BY <3>3 DEF TexturesKept
      <4>. QED
        BY <2>3, <3>3, <4>1, <4>2, <4>3, Layout DEF SetPalette
    <3>4. ASSUME NEW t \in palettes' PROVE memory'[PaletteOffset(t)] = Palette(t)
      BY <2>3, <3>4, Layout DEF SetPalette, TexturesKept
    <3>5. palettes' # {} /\ loaded' = loaded
      BY <2>3 DEF SetPalette
    <3>. QED
      BY <3>1, <3>3, <3>4, <3>5 DEF TexturesKept
  <2>. QED
    BY <2>1, <2>2, <2>3
    DEF TextureNext, textureVars, Same, SetTextureStageEnabled, SetTextureFormat, SetColors,
        SetPaletteSize, SetDefaultTextureParams, PrepareTextures, InitializeTextures
<1>. QED
  BY <1>1, <1>2, PTL DEF TextureSpec
=============================================================================
