\* As MCSplitCache.cfg, where exheader.bin may be replaced between two runs.
SPECIFICATION Spec
CONSTANTS
  Binary = {b1}
  Orig = {o1, o2}
  Csv = {"one", "two", "bad"}
  Exheader = {x1, x2}
  Name = {"a", "b"}
  PieceNames <- MCPieceNames
  Unsplittable = {"bad"}
  Disturbances <- MCExheaderEdit
  MaxEdits = 2
  None = None
INVARIANT
  StampCoversInputs
