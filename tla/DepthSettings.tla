--------------------------- MODULE DepthSettings ---------------------------
(* The depth buffer in the Renderer of the development host: its format and    *)
(* its float mode, and the five places in the GPU that have to agree with      *)
(* them: the surface format, the depth clip, CONTROL0, the scale of the        *)
(* viewport and the projection matrix.  The first three are sent by            *)
(* PrepareDraw, the other two as soon as they change.                          *)

VARIABLES
  format,     \* depth_buffer_format_
  float,      \* depth_buffer_mode_float_
  mode,       \* fixed_function_matrix_mode_: whose the matrices are
  zeta,       \* in the GPU: the depth format of the surface
  clip,       \* the format and mode the far clip value was taken for
  control0,   \* the Z format of CONTROL0
  viewport,   \* the format the scale of the viewport was chosen for
  projection, \* the format and mode the projection was made for
  prepared    \* PrepareDraw was called and nothing was set since

depthVars == <<format, float, mode, zeta, clip, control0, viewport, projection, prepared>>

Formats == {"Z16", "Z24S8"}
Depths  == [format : Formats, float : BOOLEAN]
Modes   == {"USER", "DEFAULT_XDK", "DEFAULT_NXDK"}

Depth == [format |-> format, float |-> float]

\* What no default matrix depends on.
Other == "OTHER"

\* SetDefaultViewportAndFixedFunctionMatrices: 65535 or 16777215, in both modes.
NXDKMatrices(f) ==
  /\ viewport' = f
  /\ projection' = [format |-> f, float |-> FALSE]

\* SetXDKDefaultViewportAndFixedFunctionMatrices: one projection for each of the four.
XDKMatrices(f, fl) ==
  /\ viewport' = Other
  /\ projection' = [format |-> f, float |-> fl]

\* HandleDepthBufferFormatChange, after the change to format f and mode fl.
HandleDepthBufferFormatChange(f, fl) ==
  /\ mode = "USER"         => UNCHANGED <<viewport, projection>>
  /\ mode = "DEFAULT_XDK"  => XDKMatrices(f, fl)
  /\ mode = "DEFAULT_NXDK" => NXDKMatrices(f)

\* pb_init has set the GPU up for no format the Renderer knows of; the constructor
\* ends with SetSurfaceFormat.
DepthInit ==
  /\ format = "Z24S8" /\ float = FALSE /\ mode = "DEFAULT_NXDK"
  /\ zeta = Other /\ control0 = FALSE
  /\ clip = [format |-> Other, float |-> FALSE]
  /\ viewport = "Z24S8" /\ projection = [format |-> "Z24S8", float |-> FALSE]
  /\ prepared = FALSE

\* Mutant: the matrices of the format that is left.
SetSurfaceFormatLate(f) ==
  /\ format' = f
  /\ HandleDepthBufferFormatChange(format, float)
  /\ prepared' = FALSE
  /\ UNCHANGED <<float, mode, zeta, clip, control0>>

SetSurfaceFormat(f) ==
  /\ format' = f
  /\ HandleDepthBufferFormatChange(f, float)
  /\ prepared' = FALSE
  /\ UNCHANGED <<float, mode, zeta, clip, control0>>

\* CommitSurfaceFormat after it: CONTROL0 is not sent.
SetSurfaceFormatImmediate(f) ==
  /\ format' = f
  /\ HandleDepthBufferFormatChange(f, float)
  /\ zeta' = f
  /\ clip' = [format |-> f, float |-> float]
  /\ prepared' = FALSE
  /\ UNCHANGED <<float, mode, control0>>

SetDepthBufferFloatMode(enabled) ==
  /\ enabled # float
  /\ float' = enabled
  /\ HandleDepthBufferFormatChange(format, enabled)
  /\ prepared' = FALSE
  /\ UNCHANGED <<format, mode, zeta, clip, control0>>

SetDefaultViewportAndFixedFunctionMatrices ==
  /\ NXDKMatrices(format)
  /\ mode' = "DEFAULT_NXDK"
  /\ UNCHANGED <<format, float, zeta, clip, control0, prepared>>

SetXDKDefaultViewportAndFixedFunctionMatrices ==
  /\ XDKMatrices(format, float)
  /\ mode' = "DEFAULT_XDK"
  /\ UNCHANGED <<format, float, zeta, clip, control0, prepared>>

\* The client's own matrices.  The scale of the viewport is not touched.
SetFixedFunctionModelViewMatrix ==
  /\ mode' = "USER"
  /\ UNCHANGED <<format, float, zeta, clip, control0, viewport, projection, prepared>>

SetFixedFunctionProjectionMatrix ==
  /\ mode' = "USER"
  /\ projection' = [format |-> Other, float |-> FALSE]
  /\ UNCHANGED <<format, float, zeta, clip, control0, viewport, prepared>>

\* PrepareDraw: CommitSurfaceFormat, then Clear with SetupControl0.
PrepareDepth ==
  /\ zeta' = format
  /\ clip' = Depth
  /\ control0' = float
  /\ prepared' = TRUE
  /\ UNCHANGED <<format, float, mode, viewport, projection>>

\* A frame of main: Initialize sets a fixed point buffer of 16 bits and the default
\* matrices, which the frame replaces by its own before PrepareDraw; it sends a
\* CONTROL0 of its own after that.
MainFrame ==
  /\ format' = "Z16" /\ float' = FALSE /\ mode' = "USER"
  /\ zeta' = "Z16"
  /\ clip' = [format |-> "Z16", float |-> FALSE]
  /\ control0' = FALSE
  /\ viewport' = "Z16"
  /\ projection' = [format |-> Other, float |-> FALSE]
  /\ prepared' = TRUE

DepthNext ==
  \/ \E f \in Formats : SetSurfaceFormat(f) \/ SetSurfaceFormatImmediate(f)
  \/ \E enabled \in BOOLEAN : SetDepthBufferFloatMode(enabled)
  \/ SetDefaultViewportAndFixedFunctionMatrices
  \/ SetXDKDefaultViewportAndFixedFunctionMatrices
  \/ SetFixedFunctionModelViewMatrix \/ SetFixedFunctionProjectionMatrix
  \/ PrepareDepth \/ MainFrame

DepthSpec == DepthInit /\ [][DepthNext]_depthVars

-----------------------------------------------------------------------------
\* Every variable stays in its type.
DepthTypeOK ==
  /\ format \in Formats /\ float \in BOOLEAN /\ mode \in Modes
  /\ zeta \in Formats \cup {Other} /\ control0 \in BOOLEAN
  /\ clip \in [format : Formats \cup {Other}, float : BOOLEAN]
  /\ viewport \in Formats \cup {Other}
  /\ projection \in [format : Formats \cup {Other}, float : BOOLEAN]
  /\ prepared \in BOOLEAN

\* What a frame is drawn with agrees: after PrepareDraw the surface, the clip and
\* CONTROL0 are those of the chosen format and mode; the clip is never that of another
\* format than the surface has; and default matrices, whoever chose them and whatever
\* was changed since, are those of the chosen depth buffer (the nxdk ones ignore the
\* float mode).
DepthAgrees ==
  /\ prepared => zeta = format /\ clip = Depth /\ control0 = float
  /\ clip.format = zeta
  /\ mode = "DEFAULT_NXDK" => viewport = format /\ projection.format = format
  /\ mode = "DEFAULT_XDK"  => projection = Depth
=============================================================================
