SPECIFICATION Spec
CONSTANTS
  None = None
  Size = 5
  Align = 2
  Name <- MCName
  Families <- MCFamilies
CHECK_DEADLOCK FALSE
INVARIANTS
  TypeOK
  EveryByteIsPlacedOnce
  PoolsCompare
  GapsAreSettled
  PoolIsOfItsFunction
  ModeIsKept
