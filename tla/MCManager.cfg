SPECIFICATION Spec
CONSTANTS
  EndpointName = {e1, e2}
  AgentName = {a1}
  ClientName = {c1}
  HandleId = {h1, h2, h3}
  NoHandle = NoHandle
  e1 = e1
  e2 = e2
  a1 = a1
  h1 = h1
  h2 = h2
  h3 = h3
  c1 = c1
  MaxGeneration = 2
  AllowExplicitRelease = TRUE
SYMMETRY Symmetry
CHECK_DEADLOCK FALSE
INVARIANTS
  TypeOK
  CountNeverOverstates
  RemovedAgentHoldsNothing
  CountsAreExact
PROPERTIES
  GoneStaysGone
