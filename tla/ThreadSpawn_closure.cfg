CONSTANTS
  Callers = {c1, c2}
  Capturing = {f}
  Plain = {g}
  TableCap = 2
  Frames = 9
  StackFrames = 2
  NULL = NULL
SPECIFICATION Spec
INVARIANT RunsItsClosure
CHECK_DEADLOCK FALSE
