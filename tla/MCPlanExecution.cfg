SPECIFICATION PlanSpec
CONSTANTS
  EndpointName = {e1, e2}
  AgentName = {a1, a2}
  ClientName = {}
  HandleId = {h1}
  NoHandle = NoHandle
  None = None
  e1 = e1
  e2 = e2
  a1 = a1
  a2 = a2
  h1 = h1
  MaxGeneration = 1
  AllowExplicitRelease = FALSE
  SubmittedPlan <- MCSubmittedPlan
SYMMETRY Symmetry
INVARIANTS
  PlanTypeOK
  DiscardIsAllOrNothing
  GoodEntriesAreApplied
  EndpointsSettleFirst
  ReportTellsTruth
PROPERTIES
  ExistingUntouched
