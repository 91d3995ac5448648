SPECIFICATION AppSpec
CONSTANTS
  report = report
  status = status
  Command = {report, status}
  None = None
  AllowEarlyRequest = TRUE
  AllowUiException = TRUE
  SIGINT = SIGINT
  SIGTERM = SIGTERM
  Termination = {SIGINT, SIGTERM}
  Wake = SIGUSR1
  NoSignal = NoSignal
  AllowExternalWake = FALSE
  AllowEarlyThread = TRUE
CHECK_DEADLOCK FALSE
INVARIANTS
  TypeOK
  NoThreadOverwritten
  SignalsOwnedWhileUiLives
  NothingOutlivesApp
PROPERTIES
  ImplementsSlot
  TriggerEndsInTeardown
  AcceptedCommandFinishes
