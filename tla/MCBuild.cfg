SPECIFICATION MCSpec
CONSTANTS
  Source = {1, 2}
  Vendored = {}
  Symbol = {"f", "g"}
  Stem <- MCStem
  None = None
  Content = {"fh", "g", "fg", "bad"}
  Defines <- MCDefines
  Broken = {"bad"}
  Includes = {"fh"}
  Reports <- MCReports
  Header = {"h1", "h2"}
  Csv <- MCCsv
  Flags = {"o1", "o2"}
  Disturbances = {}
  MaxEdits = 2
INVARIANTS
  TypeOK
  FInv
  SuccessIsFromScratch
  FailsOnlyIfFromScratchFails
  ReportIsOfThisBuild
  CompileFailureKeepsPublished
  FailureKeepsReport
  NothingLeftToDo
