SPECIFICATION ServiceSpec
CONSTANTS
  EndpointName = {e1}
  AgentName = {a1, a2}
  ClientName = {}
  HandleId = {}
  NoHandle = NoHandle
  None = None
  Nullopt = Nullopt
  e1 = e1
  a1 = a1
  a2 = a2
  MaxGeneration = 1
  AllowExplicitRelease = FALSE
  SubmittedPlan <- MCSubmittedPlan
  IssuedCommand <- MCIssuedCommand
  AgentStateCode <- MCAgentStateCode
  EndpointStateCode <- MCEndpointStateCode
INVARIANTS
  ServiceTypeOK
  CheckForetellsApply
PROPERTIES
  AnswersAreTrue
  OverviewTellsTruth
  ImplementsPlanExecution
  CommandReturns
