SPECIFICATION Spec
CONSTANTS
  Targets <- MCTargets
  HasHoly <- OneVersion
  Place = "package"
  MaxRuns = 1
INVARIANT PackagedScriptsRun
CHECK_DEADLOCK FALSE
