SPECIFICATION FairSpec
CONSTANTS
  MaxKey = 9
  NoNode = NoNode
CHECK_DEADLOCK FALSE
INVARIANTS
  KeysFound
  ShortWalks
PROPERTIES
  InsertEnds
