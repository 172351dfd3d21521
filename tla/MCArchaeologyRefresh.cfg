SPECIFICATION Spec
CONSTANTS
  Targets <- MCTargets
  HasHoly <- OneVersion
  Place = "workspace"
  MaxRuns = 2
INVARIANT RollupsRefreshed
CHECK_DEADLOCK FALSE
