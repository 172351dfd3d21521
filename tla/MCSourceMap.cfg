SPECIFICATION Spec
CONSTANTS
  Commands <- MCCommands
  FoldName <- MCFoldName
  PathLess <- MCPathLess
  Root <- T
  Dirs <- MCDirs
  Places <- MCPlaces
  Holy <- MCHoly
  Texts <- PlainTexts
  Trees <- MCTrees
  MaxChanges = 1
INVARIANTS
  ScanIsComplete
  LookupsAreJustified
  FailsForAReason
  QuietLookupsAgree
  OneStory
PROPERTIES
  Terminates
CHECK_DEADLOCK FALSE
