SPECIFICATION Spec
CONSTANTS
  Programs <- MCPrograms
  None <- MCNone
INVARIANTS
  DefaultIsRead
CHECK_DEADLOCK FALSE
