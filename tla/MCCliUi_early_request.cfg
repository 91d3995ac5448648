SPECIFICATION Spec
CONSTANTS
  apply = apply
  report = report
  Command = {apply, report}
  None = None
  AllowEarlyRequest = TRUE
  AllowUiException = FALSE
CHECK_DEADLOCK FALSE
PROPERTIES
  ShutdownCompletes
