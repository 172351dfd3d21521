SPECIFICATION Spec
CONSTANTS
  Targets <- MCTargets
  HasHoly <- LosesHoly
  Place = "workspace"
  MaxRuns = 2
INVARIANTS
  FreshAfterRun
  RollupsAgree
PROPERTY NotesKept
CHECK_DEADLOCK FALSE
