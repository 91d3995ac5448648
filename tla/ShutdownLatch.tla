---------------------------- MODULE ShutdownLatch ----------------------------
(***************************************************************************)
(* What the ShutdownController promises its users: a latch. Once opened it *)
(* stays open; who waits passes only after it was opened, and does pass.   *)
(***************************************************************************)
CONSTANT Waiter  \* threads that call waitForShutdownSignal

VARIABLES
  opened,   \* has shutdown been requested?
  waiting,  \* waiters inside the call
  passed    \* waiters whose call returned

latchVars == <<opened, waiting, passed>>

Init ==
  /\ opened = FALSE
  /\ waiting = {}
  /\ passed = {}

Open ==
  /\ opened' = TRUE
  /\ UNCHANGED <<waiting, passed>>

Arrive(w) ==
  /\ w \notin waiting \cup passed
  /\ waiting' = waiting \cup {w}
  /\ UNCHANGED <<opened, passed>>

Pass(w) ==
  /\ w \in waiting
  /\ opened
  /\ waiting' = waiting \ {w}
  /\ passed' = passed \cup {w}
  /\ UNCHANGED opened

Next == Open \/ \E w \in Waiter : Arrive(w) \/ Pass(w)

SafeSpec == Init /\ [][Next]_latchVars

Spec == SafeSpec /\ \A w \in Waiter : WF_latchVars(Pass(w))
=============================================================================
