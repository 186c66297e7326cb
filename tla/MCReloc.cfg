CONSTANTS
  Slots <- MCSlots
  StringCells <- MCStringCells
  BaseAddr <- MCBaseAddr
  Families <- MCFamilies
SPECIFICATION Spec
CHECK_DEADLOCK FALSE
INVARIANTS TypeOK IdenticalCodeMatches ShiftedCodePairs MatchReachesTheSame RelocationsReach PoolsDecodeAsData
