SPECIFICATION TreeSpec
CONSTANTS
  Files <- MCFiles
  Outside <- MCOutside
  FoldName <- MCFoldName
  Root <- MCRoot
  PathOf <- MCPathOf
  Texts <- MCTexts
INVARIANTS
  ListedOnce
  DepsFirst
  Complete
  IInv
  PlainIncludesAppearFirst
PROPERTIES
  Terminates
  Implements
CHECK_DEADLOCK FALSE
