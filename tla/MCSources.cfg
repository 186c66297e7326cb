\* The rules of cc.yaml over five files, and every combination of what the objects
\* of four of them define and of what is vague in it.
SPECIFICATION MCSpec
CONSTANTS
  Source = {1, 2, 3, 4, 5}
  Vendored = {4, 5}
  Symbol = {"f", "g"}
  Stem <- MCStem
  PathOf <- MCPathOf
  Globs <- MCGlobs
  FnMatches <- MCFnMatches
  RGlobs <- MCRGlobs
  Config <- MCConfig
  None = None
INVARIANTS
  TypeOK
  OwnersByPriority
  NothingIsTaken
  ClashIsWarned
  VagueIsSilent
  RulesTypeOK
  DocumentedRuleWins
CHECK_DEADLOCK FALSE
