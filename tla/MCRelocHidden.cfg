CONSTANTS
  Slots <- MCSlots
  StringCells <- MCStringCells
  BaseAddr <- MCBaseAddr
  Families <- MCHiddenFamilies
SPECIFICATION Spec
CHECK_DEADLOCK FALSE
INVARIANTS NothingIsHidden
