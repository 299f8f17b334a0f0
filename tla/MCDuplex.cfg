\* A publisher and a peer that writes once, over a connection of six bytes.
CONSTANTS
  Left = Left
  Right = Right
  Nobody = Nobody
  Capacity = 6
  Window = 3
  CountMod = 10
  LeftWrites = 3
  RightWrites = 1
  MaxWrites <- MCMaxWrites
  AppMessages <- MCMessages
SPECIFICATION Spec
INVARIANTS TypeOK Contiguous AcksKeepUp AcknowledgedAtRest BlockedOnlyWhenFull
PROPERTY ComesToRest
CHECK_DEADLOCK FALSE
