SPECIFICATION Spec
CONSTANTS
  Commands <- EntrypointsOnly
  FoldName <- MCFoldName
  PathLess <- MCPathLess
  Root <- T
  Dirs <- MCDirs
  Places <- MCPlaces
  Holy <- MCHoly
  Texts <- SpelledTexts
  Trees <- SpelledTrees
  MaxChanges = 0
INVARIANT EntrypointsNobodyIncludes
CHECK_DEADLOCK FALSE
