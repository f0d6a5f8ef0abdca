SPECIFICATION FairSpec
CONSTANTS
  MAX_QUESTIONS = 2
  MAX_INTRODUCTIONS = 1
  MAX_WINDOW = 2
  IdSpace = 5
  Nonces = {n1}
  Replies = {"results", "exception"}
  Sends = {TRUE, FALSE}
  Windows <- AnyWindow
  MaxAsks = 3
  MaxBacklog = 1
CHECK_DEADLOCK FALSE
INVARIANTS
  SlotsAccounted
  ReplyIsForThisAsk
  PeerNeverConfused
  FinishHonest
PROPERTIES
  AnswersArrive
