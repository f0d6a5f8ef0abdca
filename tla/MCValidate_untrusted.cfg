SPECIFICATION Spec
CONSTANTS
  Sessions <- AllSessions
  Depth = 6
CHECK_DEADLOCK FALSE
INVARIANTS
  AcceptsOnlySound
  AcceptsAllSound
  CanonicalSame
  CanonicalIsFixed
