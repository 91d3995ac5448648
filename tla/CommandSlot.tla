------------------------------ MODULE CommandSlot ------------------------------
(***************************************************************************)
(* What CliUiController promises the view: a slot that runs one command at *)
(* a time and keeps the outcome of the last one until it is cleared.       *)
(***************************************************************************)
CONSTANTS
  Command,  \* the commands a user can execute
  None      \* no command, or no outcome

VARIABLES
  busy,     \* is a command being executed?
  command,  \* the command most recently executed
  outcome   \* the command whose result is shown, or None

slotVars == <<busy, command, outcome>>

Init ==
  /\ busy = FALSE
  /\ command = None
  /\ outcome = None

Submit(c) ==
  /\ ~ busy
  /\ busy' = TRUE
  /\ command' = c
  /\ UNCHANGED outcome

Finish ==
  /\ busy
  /\ busy' = FALSE
  /\ outcome' = command
  /\ UNCHANGED command

Clear ==
  /\ outcome' = None
  /\ UNCHANGED <<busy, command>>

Next == (\E c \in Command : Submit(c)) \/ Finish \/ Clear

Spec == Init /\ [][Next]_slotVars
=============================================================================
