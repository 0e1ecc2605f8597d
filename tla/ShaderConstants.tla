-------------------------- MODULE ShaderConstants --------------------------
(* Vertex shader programs of the development host,                             *)
(* src/devhost/src/shaders/vertex_shader_program.cpp: each has constants of    *)
(* its own, the GPU has one set of them, and a flag of the program says        *)
(* whether its constants have to be sent before the next draw.                 *)

CONSTANTS Programs, NoProgram

ASSUME ProgramsAssumption == NoProgram \notin Programs

VARIABLES
  program,  \* vertex_shader_program_ of the Renderer
  filled,   \* the programs whose base_transform_constants_ is not empty
  required, \* uniform_upload_required_
  owner,    \* whose constants the GPU holds
  outdated, \* they were changed since they were sent
  drawing   \* the last step was a draw call

shaderVars == <<program, filled, required, owner, outdated, drawing>>

ShaderInit ==
  /\ program = NoProgram /\ filled = {} /\ owner = NoProgram
  /\ required = [p \in Programs |-> TRUE]
  /\ outdated = FALSE /\ drawing = FALSE

\* Activate loads the program, not its constants.
SetVertexShaderProgram(p) ==
  /\ program' = p
  /\ drawing' = FALSE
  /\ UNCHANGED <<filled, required, owner, outdated>>

\* Mutant: only the first constants are marked to be sent.
SetUniformOnce(p) ==
  /\ filled' = filled \cup {p}
  /\ outdated' = (outdated \/ owner = p)
  /\ drawing' = FALSE
  /\ UNCHANGED <<program, required, owner>>

\* SetUniformBlock, SetTransformConstantBlock.
SetUniform(p) ==
  /\ filled' = filled \cup {p}
  /\ required' = [required EXCEPT ![p] = TRUE]
  /\ outdated' = (outdated \/ owner = p)
  /\ drawing' = FALSE
  /\ UNCHANGED <<program, owner>>

\* PrepareDraw of the program, with UploadConstants, at the head of every draw call.
PrepareProgram ==
  /\ IF program \in filled /\ required[program]
       THEN /\ owner' = program /\ outdated' = FALSE
            /\ required' = [required EXCEPT ![program] = FALSE]
       ELSE UNCHANGED <<owner, outdated, required>>
  /\ drawing' = TRUE
  /\ UNCHANGED <<program, filled>>

ShaderNext ==
  \/ \E p \in Programs \cup {NoProgram} : SetVertexShaderProgram(p)
  \/ \E p \in Programs : SetUniform(p)
  \/ PrepareProgram

ShaderSpec == ShaderInit /\ [][ShaderNext]_shaderVars

-----------------------------------------------------------------------------
\* Every variable stays in its type.
ShaderTypeOK ==
  /\ program \in Programs \cup {NoProgram} /\ owner \in Programs \cup {NoProgram}
  /\ filled \subseteq Programs
  /\ required \in [Programs -> BOOLEAN]
  /\ outdated \in BOOLEAN /\ drawing \in BOOLEAN

\* No draw call of a program that has constants finds older ones of its own in the GPU,
\* and it finds another program's only if both were sent before and it came back
\* unchanged: activating a program does not send its constants again.
ConstantsCurrent ==
  drawing /\ program \in filled =>
    /\ owner = program => ~outdated
    /\ owner # program => owner \in filled /\ ~required[program]

\* Why: constants that are outdated are to be sent again, and what need not be sent
\* was sent.
ConstantsInv ==
  /\ owner # NoProgram => owner \in filled
  /\ outdated => owner # NoProgram /\ required[owner]
  /\ \A p \in Programs : ~required[p] => p \in filled /\ owner # NoProgram
  /\ drawing /\ program \in filled => ~required[program]
=============================================================================
