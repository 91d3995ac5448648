SPECIFICATION Spec
CONSTANTS
  Requester = {ui, sigwait}
  ui = ui
  sigwait = sigwait
  main = main
  w2 = w2
  w3 = w3
  Waiter = {main, w2, w3}
  Free = Free
INVARIANTS
  TypeOK
  NoLostWakeup
PROPERTIES
  ImplementsLatch
CHECK_DEADLOCK FALSE
