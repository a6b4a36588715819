SPECIFICATION BoardsSpec
CONSTANTS
  MaxEdges = 6
  SleepTop = 5
  Requests = {1, 2, 3}
  ByteBits = 2
  SensorBytes <- MCSensorBytes
CHECK_DEADLOCK FALSE
INVARIANTS BoardTypeOK PinsKeepTheirUse AdcNeverSpins OneWrongBitIsRejected WritesArriveExactly
PROPERTIES EdgeIsServed InitCompletes SleepIsLongEnough
