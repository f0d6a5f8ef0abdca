SPECIFICATION Spec
CONSTANTS
  Conns = {c1, c2}
  Servers = {s1, s2}
  NoServer = NoServer
  Qids = {q1}
  Nonces = {n1}
  JoinIds = {}
  Vines = {}
  MAX_EXPORTS = 2
  MAX_ANSWERS = 2
  MAX_PROVISIONS = 1
  MAX_INTRODUCTIONS = 0
  MAX_JOINS = 0
  MAX_JOIN_PARTS = 1
  Embargoes = {TRUE}
  ReleaseResults = {FALSE}
  Sends = {TRUE}
  Outcomes = {"results", "failed"}
  SwapWhileJoining = FALSE
  MaxRefs = 2
SYMMETRY Symmetry
CHECK_DEADLOCK FALSE
PROPERTIES
  LiftAnswersRecipient
