----------------------------- MODULE MCRenderer -----------------------------
(* The Renderer of the development host: its draw calls, the depth buffer, the *)
(* constants of the vertex shader programs and the texture stages.  The four   *)
(* modules share no variable, so the steps of one are stuttering steps of the  *)
(* others and it is enough to check each by itself: the initial state chooses  *)
(* which of them moves.                                                        *)
(*                                                                             *)
(* Vertex buffers at two addresses, one of less than a batch and one of more;  *)
(* batches of 12 for the 120 of the code and blocks of more than 2 pushes for  *)
(* the 64, so that every draw call starts new blocks; indices of 3 bits.  Two  *)
(* shader programs; two texture stages, of which 1 is the one whose memory the *)
(* palettes are in.                                                            *)
EXTENDS Drawing, DepthSettings, ShaderConstants, TextureStages

CONSTANTS b1, b2

MCSizeOf     == [b \in Buffers |-> IF b = b1 THEN 3 ELSE 14]
MCIndexLists == {<<2, 1, 0>>, [k \in 1..17 |-> (5 * k) % 14], [k \in 1..9 |-> (3 * k) % 8]}

VARIABLE focus

rendererVars == <<vars, depthVars, shaderVars, textureVars, focus>>

RendererInit ==
  /\ Init /\ DepthInit /\ ShaderInit /\ TextureInit
  /\ focus \in {"drawing", "depth", "shader", "textures"}

RendererNext ==
  /\ UNCHANGED focus
  /\ \/ focus = "drawing"  /\ Next        /\ UNCHANGED <<depthVars, shaderVars, textureVars>>
     \/ focus = "depth"    /\ DepthNext   /\ UNCHANGED <<vars, shaderVars, textureVars>>
     \/ focus = "shader"   /\ ShaderNext  /\ UNCHANGED <<vars, depthVars, textureVars>>
     \/ focus = "textures" /\ TextureNext /\ UNCHANGED <<vars, depthVars, shaderVars>>

RendererSpec == RendererInit /\ [][RendererNext]_rendererVars
=============================================================================
