SPECIFICATION Spec
CONSTANTS
  MaxConnections = 3
  Name = {n1, n2}
  NoName = noname
  Sock = {4, 5}
  Headers = {"NEW_PL", "PL_RECONN", "JOIN_PLAYER", "DECLIN_JOIN", "ACCEPT_JOIN", "GAME_MOVE", "PL_LOGOUT"}
  MaxInFlight = 2
  BullshitLimit = 1
  Polite = TRUE
CHECK_DEADLOCK FALSE
SYMMETRY Symmetry
PROPERTIES LossHasGame
