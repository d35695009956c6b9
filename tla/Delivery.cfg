SPECIFICATION FairSpec
CONSTANTS
  MaxConnections = 2
  Sock = {4, 5}
  Kind = {"request", "logout", "bad"}
  MaxInFlight = 1
CHECK_DEADLOCK FALSE
INVARIANTS TypeOK PacketFindsSender AnswerReachesAddressee DroppedIsGone EveryoneIsWatched SelectFailureHasCause QueueIsThere
PROPERTIES RequestIsAnswered GoneIsClosed
