SPECIFICATION Spec
CONSTANTS
  None = None
  Size = 5
  Align = 2
  Name <- MCName
  Families <- MCOverlapping
CHECK_DEADLOCK FALSE
INVARIANT RunsAreInOrder
