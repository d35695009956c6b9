SPECIFICATION FairSpec
CONSTANTS
  MaxClients = 2
  MaxSent = 3
  BuffSize = 2
CHECK_DEADLOCK FALSE
INVARIANTS TypeOK ConnectedIsListening ThrowHasCause
PROPERTIES LiveIsKept EndIsNoticed SentIsReported
