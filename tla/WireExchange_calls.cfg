SPECIFICATION WireSpec
CONSTANTS
  Frames <- MCFrames
  I64Bytes = 2
  MaxStr = 2
  DiscardChunk = 2
  Lead2 = 194
  Lead3 = 225
  Lead4 = 241
  Cont = 144
  MaxU16 = 24
  Calls <- MCCalls
  Table <- MCTable
  Stores <- MCStores
  NodeIds <- MCNodeIds
  CapsTexts <- MCCapsTexts
INVARIANTS
  TypeOK
  ServedWhole
  ReaderAgreesWithParser
  CallsAreUnderstood
  AnswersAreUnderstood
  CapsReadAsDocumented
CHECK_DEADLOCK FALSE
