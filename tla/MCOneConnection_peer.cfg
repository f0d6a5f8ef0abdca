SPECIFICATION ScriptSpec
CONSTANTS
  Conns = {c1}
  Servers = {s1, s2}
  NoServer = NoServer
  Qids = {q1, q2, q3}
  Nonces = {n1}
  JoinIds = {j1, j2}
  Vines = {v1}
  MAX_EXPORTS = 2
  MAX_ANSWERS = 3
  MAX_PROVISIONS = 2
  MAX_INTRODUCTIONS = 2
  MAX_JOINS = 2
  MAX_JOIN_PARTS = 2
  Embargoes = {TRUE, FALSE}
  ReleaseResults = {FALSE}
  Sends = {TRUE}
  Outcomes = {"results", "failed"}
  SwapWhileJoining = FALSE
  MaxRefs = 2
SYMMETRY Symmetry
CHECK_DEADLOCK FALSE
INVARIANTS
  CountsExact
  VinesAccounted
  KeptForOpen
  PipelinesReach
  EmbargoHolds
  JoinVerdictRight
  NoStrayReturn
  JoinPartsOpen
  NoLostQuestion
PROPERTIES
  LiftAnswersRecipient
