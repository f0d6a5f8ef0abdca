SPECIFICATION Spec
CONSTANTS
  Programs <- MCPrograms
  None <- MCNone
INVARIANTS
  
  EveryFieldOnce
  NumbersAreStructs
CHECK_DEADLOCK FALSE
