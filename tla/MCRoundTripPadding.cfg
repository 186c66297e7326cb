SPECIFICATION Spec
CONSTANTS
  Size = 4
  TextEnd = 1
  RodataEnd = 2
  DataEnd = 3
  LastAddr = 6
  FewSizes = {0, 2}
  FewSegments = {".text", ".data"}
  Sizes = {0, 1, 3}
  Csvs <- MCCsvs
INVARIANT
  PaddingIsKept
CHECK_DEADLOCK FALSE
