SPECIFICATION Spec
CONSTANTS
  c1 = c1
  c2 = c2
  Messages = {c1, c2}
  MAX_SEGMENTS = 3
  CREATE_MIN_SZ = 6
  SEGMENT_SZ = 2
  MAX_COPY_DEPTH = 4
  ADD_TAG = 1
  Shapes <- SmallShapes
  Values <- OneValue
  Habits = {}
  MaxHandles = 5
  MaxCalls = 5
SYMMETRY Symmetry
CHECK_DEADLOCK FALSE
INVARIANTS
  SlotsKept
  CopyFaithful
  SlotsReadable
