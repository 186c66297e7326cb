\* Everything the user does, in any order: edits between and under runs,
\* exheader.bin replaced, removals cut short, runs stopped anywhere.
SPECIFICATION MCFairSpec
CONSTANTS
  Binary = {b1, b2}
  Orig = {o1, o2}
  Csv = {"one", "two", "bad"}
  Exheader = {x1, x2}
  Name = {"a", "b"}
  PieceNames <- MCPieceNames
  Unsplittable = {"bad"}
  Disturbances <- MCAllDisturbances
  MaxEdits = 2
  None = None
INVARIANTS
  TypeOK
  UpToDateIsComplete
PROPERTIES
  KeepsCurrentSplit
  CompleteMeansCurrent
  ImplementsStore
  RunEnds
