SPECIFICATION Spec
CONSTANTS
  Cmd = cmd
  Tracers = {t1, t2}
  Blocks = {b1, b2}
  Null = null
  Patient = FALSE
SYMMETRY Symmetry
INVARIANT OneTracer
CHECK_DEADLOCK FALSE
