SPECIFICATION Spec
CONSTANTS
  EndpointName = {e1}
  AgentName = {a1}
  ClientName = {c1}
  HandleId = {h1, h2, h3}
  NoHandle = NoHandle
  e1 = e1
  a1 = a1
  h1 = h1
  h2 = h2
  h3 = h3
  c1 = c1
  MaxGeneration = 2
  AllowExplicitRelease = FALSE
SYMMETRY Symmetry
CHECK_DEADLOCK FALSE
INVARIANTS
  LiveHandleIsListed
