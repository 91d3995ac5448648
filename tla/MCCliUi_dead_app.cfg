SPECIFICATION Spec
CONSTANTS
  apply = apply
  report = report
  Command = {apply, report}
  None = None
  AllowEarlyRequest = FALSE
  AllowUiException = FALSE
CHECK_DEADLOCK FALSE
INVARIANTS
  NoCallWithoutApp
