SPECIFICATION StartupSpec
CONSTANTS
  n1 = n1
  n2 = n2
  p1 = p1
  p2 = p2
  a1 = a1
  e1 = e1
  e2 = e2
  LibName = {n1, n2}
  LibPath = {p1, p2}
  MaxOpen = 6
  None = None
  ConfigDocuments <- MCConfigDocuments
  PlanDocuments <- MCPlanDocuments
CHECK_DEADLOCK FALSE
INVARIANTS
  PlanAppliedOnlyWhenAsked
