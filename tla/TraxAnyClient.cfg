SPECIFICATION FairSpec
CONSTANTS
  MaxConnections = 2
  Name = {n1}
  NoName = noname
  Sock = {4, 5}
  Headers = {"NEW_PL", "PL_RECONN", "JOIN_PLAYER", "DECLIN_JOIN", "ACCEPT_JOIN", "GAME_MOVE", "PL_LOGOUT", "PL_LIST_REQ", "BAD"}
  MaxInFlight = 1
  BullshitLimit = 1
  Polite = FALSE
CHECK_DEADLOCK FALSE
INVARIANTS NamesUnique LostHasNoSocket NoisyIsDropped
PROPERTIES RequestIsAnswered LossIsMarked
