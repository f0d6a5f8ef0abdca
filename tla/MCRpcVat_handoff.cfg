SPECIFICATION Spec
CONSTANTS
  Conns = {c1, c2}
  Servers = {s1, s2}
  NoServer = NoServer
  Qids = {q1}
  Nonces = {n1}
  JoinIds = {}
  Vines = {v1}
  MAX_EXPORTS = 2
  MAX_ANSWERS = 1
  MAX_PROVISIONS = 1
  MAX_INTRODUCTIONS = 1
  MAX_JOINS = 0
  MAX_JOIN_PARTS = 1
  Embargoes = {FALSE}
  ReleaseResults = {TRUE, FALSE}
  Sends = {TRUE}
  Outcomes = {"results", "failed", "oversize"}
  SwapWhileJoining = FALSE
  MaxRefs = 2
SYMMETRY Symmetry
CONSTRAINT IntroducedFirst
CHECK_DEADLOCK FALSE
INVARIANTS
  TypeOK
  OneIdPerServer
  ImportsLive
  RefcountCovers
  NonceLedger
