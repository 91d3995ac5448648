SPECIFICATION Spec
CONSTANTS
  SIGINT = SIGINT
  SIGTERM = SIGTERM
  Termination = {SIGINT, SIGTERM}
  Wake = SIGUSR1
  NoSignal = NoSignal
  AllowExternalWake = FALSE
  AllowEarlyThread = TRUE
CHECK_DEADLOCK FALSE
INVARIANTS
  TypeOK
  LeftoverNeverKills
  DrainNeverBlocks
  ShutdownNeedsSignal
PROPERTIES
  StopReturns
  SignalRequestsShutdown
