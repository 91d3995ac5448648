---------------------------------- MODULE App ----------------------------------
(***************************************************************************)
(* App::run and the destructors after it: the CLI (CliUi) and the          *)
(* SignalHandler composed, as the main thread drives them, over the one    *)
(* shutdown latch they share.                                              *)
(*                                                                         *)
(* The main thread applies the configuration, starts the SignalHandler,    *)
(* starts the CLI, waits for the latch, stops the CLI, stops the           *)
(* SignalHandler, and destroys everything. The UI thread, a command's      *)
(* worker and the sigwait thread run beside it, and a signal may be sent   *)
(* at any moment. The sigwait thread is CliUi's ExternalRequest.           *)
(***************************************************************************)
EXTENDS CliUi

CONSTANTS
  Termination,        \* the signals App::AppImpl hands to the SignalHandler
  Wake,               \* kWakeSignal, SIGUSR1
  NoSignal,           \* no signal was received yet
  AllowExternalWake,  \* may another process send SIGUSR1?
  AllowEarlyThread    \* may applying the configuration create a thread?

ASSUME AppAssumption ==
  /\ Wake \notin Termination
  /\ NoSignal \notin Termination \cup {Wake}
  /\ AllowExternalWake \in BOOLEAN
  /\ AllowEarlyThread \in BOOLEAN

VARIABLES
  handler, waiter, received, unmasked, pending, poked, snapshot, late, sent,
  struck,   \* the SignalHandler's, as in its module
  asked,    \* history: the SignalHandler itself has requested shutdown
  aborted   \* an exception left App::run, which main() does not catch

\* The latch opens for the UI thread's request as well: what the handler asked
\* for is told apart.
S == INSTANCE SignalHandler WITH requested <- asked

signalVars ==
  <<handler, waiter, received, unmasked, pending, poked, snapshot, late, sent, struck,
    asked>>

appVars == <<vars, signalVars, aborted>>

AppRunning == Running /\ S!Running /\ ~ aborted

AppInit == Init /\ S!Init /\ aborted = FALSE

(* The main thread.                                                        *)

\* applyConfig may start agents and transports, and they threads.
ApplyConfig ==
  /\ main = "starting"
  /\ handler = "idle"
  /\ S!CreateThread
  /\ UNCHANGED <<vars, aborted>>

StartSignals ==
  /\ main = "starting"
  /\ S!BlockSignals \/ S!SpawnWaiter
  /\ UNCHANGED <<vars, aborted>>

StartSignalsFails ==
  /\ main = "starting"
  /\ S!SpawnFails
  /\ aborted' = TRUE
  /\ UNCHANGED vars

StartCli ==
  /\ handler = "started"
  /\ StartUi
  /\ UNCHANGED <<signalVars, aborted>>

\* The UI thread cannot be created.
StartCliFails ==
  /\ handler = "started"
  /\ main = "starting"
  /\ aborted' = TRUE
  /\ UNCHANGED <<vars, signalVars>>

StopCli == (WaitReturns \/ StopSteps) /\ UNCHANGED <<signalVars, aborted>>

\* Slip: the SignalHandler is stopped as soon as the latch opens.
StopSignalsFirst ==
  /\ main \notin {"starting", "waiting"}
  /\ S!WakeWaiter \/ S!StopSteps
  /\ UNCHANGED <<vars, aborted>>

StopSignals ==
  /\ main = "stopped"
  /\ S!WakeWaiter \/ S!StopSteps
  /\ UNCHANGED <<vars, aborted>>

\* The members of AppImpl go in reverse order; the SignalHandler and the
\* CliUiHandler are stopped already.
DestroyApp ==
  /\ handler = "idle"
  /\ Destroy
  /\ UNCHANGED <<signalVars, aborted>>

MainThread == StartSignals \/ StartCli \/ StopCli \/ StopSignals \/ DestroyApp

(* The other threads and the outside.                                      *)

SendSignal ==
  /\ \E s \in S!Signal : S!Send(s)
  /\ UNCHANGED <<vars, aborted>>

\* requestShutdown() on the latch that the main thread waits for.
SigwaitThread ==
  \/ S!SigwaitReturns /\ UNCHANGED <<vars, aborted>>
  \/ /\ S!ActOnSignal
     /\ IF received = Wake THEN UNCHANGED vars ELSE ExternalRequest
     /\ UNCHANGED aborted

UiThread == UiSteps /\ UNCHANGED <<signalVars, aborted>>

ExitTask == RunExitTask /\ UNCHANGED <<signalVars, aborted>>

WorkerThread == WorkerNext /\ UNCHANGED <<signalVars, aborted>>

UserOrAccident == (UserNext \/ JoinTwice \/ UiThrows) /\ UNCHANGED <<signalVars, aborted>>

AppNext ==
  /\ AppRunning
  /\ \/ ApplyConfig
     \/ MainThread
     \/ StartSignalsFails
     \/ StartCliFails
     \/ SendSignal
     \/ SigwaitThread
     \/ UiThread
     \/ ExitTask
     \/ WorkerThread
     \/ UserOrAccident

AppSafeSpec == AppInit /\ [][AppNext]_appVars

\* As in the two modules: threads run when they can, commands return, the UI
\* loop reaches its exit task. Neither the user nor any signal need come.
AppSpec ==
  /\ AppSafeSpec
  /\ SF_appVars(AppRunning /\ MainThread)
  /\ WF_appVars(AppRunning /\ UiThread)
  /\ SF_appVars(AppRunning /\ ExitTask)
  /\ WF_appVars(AppRunning /\ WorkerThread)
  /\ WF_appVars(AppRunning /\ SigwaitThread)

-----------------------------------------------------------------------------
(* Properties, beside those of CliUi.                                      *)

\* While the UI thread lives, FTXUI's own signal handlers installed, SIGINT and
\* SIGTERM are blocked in the thread that created it and the sigwait thread
\* has not been joined: no signal can take FTXUI's re-raise-and-die path in
\* it (SignalHandler.h; ARCHITECTURE.md, Coordination with FTXUI).
SignalsOwnedWhileUiLives ==
  ui \notin {"absent", "done"} => handler = "started" /\ waiter # "none"

\* When the members of App are destroyed, none of the three threads that use
\* them is left, and the signal mask is what it was before run().
NothingOutlivesApp ==
  main = "destroyed" => ui = "done" /\ worker = "none" /\ waiter = "none" /\ handler = "idle"

\* A signal that came before stop() drained the pending ones never ends the
\* process when the mask is restored, however the teardown was triggered and
\* however often a signal was repeated while it ran.
TeardownIgnoresSignals == struck # "leftover"

\* Whatever triggers shutdown once the UI thread is past building its
\* components (the user who quits, a signal, both, or another signal during
\* the teardown), App::run returns and everything is destroyed.
TriggerEndsInTeardown ==
  (/\ main = "waiting"
   /\ ui \notin {"absent", "building"}
   /\ requested \/ pending \cap Termination # {})
    ~> (main = "destroyed" \/ ~ AppRunning)

\* A command accepted by the controller is finished, whatever shuts the
\* application down in the meantime.
AcceptedCommandFinishes == executing ~> (~ executing \/ ~ AppRunning)
=============================================================================
