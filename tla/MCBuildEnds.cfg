SPECIFICATION MCFairSpec
CONSTANTS
  Source = {1, 2}
  Vendored = {}
  Symbol = {"f", "g"}
  Stem <- MCStem
  None = None
  Content = {"fh", "g", "fg", "bad"}
  Defines <- MCDefines
  Broken = {"bad"}
  Includes = {"fh"}
  Reports <- MCReports
  Header = {"h1"}
  Csv <- MCCsvTwo
  Flags = {"o1", "o2"}
  Disturbances <- MCAllDisturbances
  MaxEdits = 1
PROPERTIES
  BuildEnds
