SPECIFICATION Spec
CONSTANTS
  Text <- MCText
  ClientMessages <- MCClientMessages
  ServerMessages <- MCServerMessages
  Changes = {1, 64, 128, 255}
  MaxJoined = 21
CHECK_DEADLOCK FALSE
INVARIANTS ClientReadsBack AlterationIsNoticed PieceIsRefused ServerReadsBack PieceIsReadBeyond ServerSumPasses
