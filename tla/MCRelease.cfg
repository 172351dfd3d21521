SPECIFICATION Spec
CONSTANTS
  good = good
  wrong = wrong
  None = None
  Revs <- MCRevs
  Failing <- MCFailing
INVARIANTS
  RInv
  ReleasedWhatWasChecked
  ZipIsWhole
  SuccessMeansTagged
PROPERTY PublishesItsHead
