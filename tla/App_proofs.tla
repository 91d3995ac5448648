------------------------------- MODULE App_proofs -------------------------------
(***************************************************************************)
(* Proofs about App, for any commands and termination signals: composed as *)
(* App::run composes them, the CLI and the SignalHandler still do what     *)
(* their own modules say, and the one is inside the other.                 *)
(***************************************************************************)
EXTENDS App, CliUi_proofs

SP == INSTANCE SignalHandler_proofs WITH requested <- asked

-----------------------------------------------------------------------------
(* Each part goes through its own steps.                                   *)

LEMMA StepIsCliStep == [AppNext]_appVars => [Next]_vars
<1> SUFFICES ASSUME AppNext PROVE Next \/ UNCHANGED vars
  BY DEF appVars
<1>1. Running
  BY DEF AppNext, AppRunning
<1>2. CASE ApplyConfig \/ StartSignals \/ StartSignalsFails \/ StartCliFails
           \/ StopSignals \/ SendSignal
  BY <1>2 DEF ApplyConfig, StartSignals, StartSignalsFails, StartCliFails, StopSignals,
              SendSignal
<1>3. CASE StartCli \/ StopCli \/ DestroyApp
  BY <1>1, <1>3 DEF StartCli, StopCli, DestroyApp, Next, CliNext, MainNext
<1>4. CASE SigwaitThread
  BY <1>1, <1>4 DEF SigwaitThread, Next
<1>5. CASE UiThread \/ ExitTask \/ WorkerThread \/ UserOrAccident
  BY <1>1, <1>5 DEF UiThread, ExitTask, WorkerThread, UserOrAccident, Next, CliNext
<1> QED
  BY <1>2, <1>3, <1>4, <1>5 DEF AppNext, MainThread

\* What App::run does to the CLI is what CliUi allows: every safety property
\* of CliUi holds of the application.
THEOREM AppIsCli == AppSpec => SafeSpec
<1>1. AppInit => Init
  BY DEF AppInit
<1> QED
  BY <1>1, StepIsCliStep, PTL DEF AppSpec, AppSafeSpec, SafeSpec

LEMMA StepIsSignalStep == [AppNext]_appVars => [S!Next]_(S!vars)
<1> USE DEF S!vars, signalVars
<1> SUFFICES ASSUME AppNext PROVE S!Next \/ UNCHANGED S!vars
  BY DEF appVars
<1>1. S!Running
  BY DEF AppNext, AppRunning
<1>2. CASE ApplyConfig \/ StartSignals \/ StartSignalsFails
  BY <1>1, <1>2 DEF ApplyConfig, StartSignals, StartSignalsFails, S!Next
<1>3. CASE StopSignals \/ SendSignal \/ SigwaitThread
  BY <1>1, <1>3 DEF StopSignals, SendSignal, SigwaitThread, S!Next, S!WaiterNext
<1>4. CASE StartCli \/ StartCliFails \/ StopCli \/ DestroyApp
  BY <1>4 DEF StartCli, StartCliFails, StopCli, DestroyApp
<1>5. CASE UiThread \/ ExitTask \/ WorkerThread \/ UserOrAccident
  BY <1>5 DEF UiThread, ExitTask, WorkerThread, UserOrAccident
<1> QED
  BY <1>2, <1>3, <1>4, <1>5 DEF AppNext, MainThread

\* What App::run does to the SignalHandler is what SignalHandler allows: every
\* safety property of SignalHandler holds of the application.
THEOREM AppIsSignalHandler == AppSpec => S!SafeSpec
<1>1. AppInit => S!Init
  BY DEF AppInit
<1> QED
  BY <1>1, StepIsSignalStep, PTL DEF AppSpec, AppSafeSpec, S!SafeSpec

\* SP only adds proofs to S.
LEMMA SameHandler ==
  /\ S!Init <=> SP!Init
  /\ S!Next <=> SP!Next
  /\ S!vars = SP!vars
<1>1. S!Init <=> SP!Init
  BY DEF S!Init, SP!Init
<1>2. S!vars = SP!vars
  BY DEF S!vars, SP!vars
<1>3. (\E s \in S!Signal : S!Send(s)) <=> (\E s \in SP!Signal : SP!Send(s))
  BY DEF S!Signal, SP!Signal, S!Send, SP!Send, S!InCharge, SP!InCharge
<1>4. /\ S!CreateThread <=> SP!CreateThread
      /\ S!BlockSignals <=> SP!BlockSignals
      /\ S!SpawnWaiter <=> SP!SpawnWaiter
      /\ S!SpawnFails <=> SP!SpawnFails
  BY DEF S!CreateThread, SP!CreateThread, S!BlockSignals, SP!BlockSignals, S!SpawnWaiter,
         SP!SpawnWaiter, S!SpawnFails, SP!SpawnFails, S!InCharge, SP!InCharge
<1>5. S!WaiterNext <=> SP!WaiterNext
  BY DEF S!WaiterNext, SP!WaiterNext, S!SigwaitReturns, SP!SigwaitReturns, S!ActOnSignal,
         SP!ActOnSignal
<1>6. S!WakeWaiter <=> SP!WakeWaiter
  BY DEF S!WakeWaiter, SP!WakeWaiter
<1>7. S!StopSteps <=> SP!StopSteps
  BY DEF S!StopSteps, SP!StopSteps, S!JoinWaiter, SP!JoinWaiter, S!ReadPending, SP!ReadPending,
         S!DiscardPending, SP!DiscardPending, S!RestoreMask, SP!RestoreMask
<1>8. S!Running <=> SP!Running
  BY DEF S!Running, SP!Running
<1> QED
  BY <1>1, <1>2, <1>3, <1>4, <1>5, <1>6, <1>7, <1>8 DEF S!Next, SP!Next

LEMMA HandlerInvariance == AppSpec => [](SP!IInv)
<1>1. [S!Next]_(S!vars) => [SP!Next]_(SP!vars)
  BY SameHandler DEF S!vars, SP!vars
<1>2. S!SafeSpec => SP!SafeSpec
  BY <1>1, SameHandler, PTL DEF S!SafeSpec, SP!SafeSpec
<1>3. SP!SignalAssumption
  BY AppAssumption DEF SP!SignalAssumption, SP!Signal
<1>4. SP!SafeSpec => [](SP!IInv)
  BY <1>3, SP!Invariance
<1> QED
  BY <1>2, <1>4, AppIsSignalHandler, PTL

-----------------------------------------------------------------------------
(* The SignalHandler's time encloses the UI thread's.                      *)

\* Where the SignalHandler is, told from where the main thread is.
HandlerInStep ==
  /\ main = "starting" => handler \in {"idle", "blocked", "started"}
  /\ main \notin {"starting", "stopped", "destroyed"} => handler = "started"
  /\ main = "destroyed" => handler = "idle"

AInv == IInv /\ S!TypeOK /\ HandlerInStep

LEMMA StepInStep ==
  ASSUME IInv, IInv', HandlerInStep, [AppNext]_appVars
  PROVE  HandlerInStep'
<1> USE DEF HandlerInStep, signalVars
<1>1. CASE ApplyConfig \/ StartSignals \/ StartSignalsFails
  BY <1>1 DEF ApplyConfig, StartSignals, StartSignalsFails, S!CreateThread, S!BlockSignals,
              S!SpawnWaiter, S!SpawnFails, vars
<1>2. CASE StartCli \/ StartCliFails
  BY <1>2 DEF StartCli, StartCliFails, StartUi, vars
<1>3. CASE StopCli \/ DestroyApp
  BY <1>3 DEF StopCli, DestroyApp, Destroy, WaitReturns, StopSteps, CheckExecuting,
              TestActiveToAnnounce, Announce, JoinCommand, TestActiveToExit, PostExit, JoinUi
<1>4. CASE StopSignals
  BY <1>4 DEF StopSignals, vars
<1>5. CASE SendSignal
  BY <1>5 DEF SendSignal, S!Send, vars
<1>6. CASE SigwaitThread
  BY <1>6 DEF SigwaitThread, S!SigwaitReturns, S!ActOnSignal, ExternalRequest, vars
<1>7. CASE UiThread \/ ExitTask
  BY <1>7 DEF UiThread, ExitTask, UiSteps, RunExitTask, EnterLoop, JoinPrevious, SpawnWorker,
              CloseUi, RequestShutdown, LeaveLoop
<1>8. CASE WorkerThread
  BY <1>8 DEF WorkerThread, WorkerNext, StoreResult, TestActiveToUpdate, PostUpdate
<1>9. CASE UserOrAccident
  BY <1>9 DEF UserOrAccident, UserNext, JoinTwice, UiThrows, executeCurrentCommand,
              clearResult, UserQuits, LeaveLoop
<1>10. CASE UNCHANGED appVars
  BY <1>10 DEF appVars, vars
<1> QED
  BY <1>1, <1>2, <1>3, <1>4, <1>5, <1>6, <1>7, <1>8, <1>9, <1>10 DEF AppNext, MainThread

LEMMA AppInvariance == AppSpec => []AInv
<1>1. AppSpec => []IInv
  BY AppIsCli, Invariance, PTL
<1>2. SP!IInv => S!TypeOK
  BY DEF SP!IInv, SP!TypeOK, S!TypeOK, SP!Signal, S!Signal
<1>3. AppInit => HandlerInStep
  BY DEF AppInit, Init, S!Init, HandlerInStep
<1> QED
  BY <1>1, <1>2, <1>3, HandlerInvariance, StepInStep, PTL DEF AppSpec, AppSafeSpec, AInv

-----------------------------------------------------------------------------
(* Theorems.                                                               *)

\* From its creation to its join the UI thread runs inside the time between
\* SignalHandler::start and ::stop (the order of the calls in App::run).
THEOREM UiIsShielded == AppSpec => []SignalsOwnedWhileUiLives
<1>1. AInv => SignalsOwnedWhileUiLives
  BY DEF AInv, HandlerInStep, IInv, JoinedIsOver, TypeOK, S!TypeOK, SignalsOwnedWhileUiLives
<1> QED
  BY <1>1, AppInvariance, PTL

\* Nothing that uses the members of App outlives them.
THEOREM TeardownIsComplete == AppSpec => []NothingOutlivesApp
<1>1. AInv => NothingOutlivesApp
  BY DEF AInv, HandlerInStep, IInv, JoinedIsOver, TypeOK, S!TypeOK, NothingOutlivesApp
<1> QED
  BY <1>1, AppInvariance, PTL

\* Unless another process sends SIGUSR1, no signal that was pending when
\* stop() looked strikes when the mask comes back.
THEOREM TeardownIsShielded ==
  ASSUME ~ AllowExternalWake
  PROVE  AppSpec => []TeardownIgnoresSignals
<1>1. SP!SignalAssumption
  BY AppAssumption DEF SP!SignalAssumption, SP!Signal
<1>2. SP!IInv /\ SP!WakeStaysPrivate /\ SP!LeftoverNeverKills /\ [SP!Next]_(SP!vars)
        => SP!WakeStaysPrivate' /\ SP!LeftoverNeverKills'
  BY <1>1, SP!StepPrivate
<1>3. SP!Init => SP!WakeStaysPrivate /\ SP!LeftoverNeverKills
  BY DEF SP!Init, SP!WakeStaysPrivate, SP!LeftoverNeverKills
<1>4. SP!LeftoverNeverKills => TeardownIgnoresSignals
  BY DEF SP!LeftoverNeverKills, TeardownIgnoresSignals
<1>5. AppSpec => SP!Init /\ [][SP!Next]_(SP!vars)
  <2>1. [S!Next]_(S!vars) => [SP!Next]_(SP!vars)
    BY SameHandler DEF S!vars, SP!vars
  <2> QED
    BY <2>1, SameHandler, AppIsSignalHandler, PTL DEF S!SafeSpec
<1> QED
  BY <1>2, <1>3, <1>4, <1>5, HandlerInvariance, PTL

-----------------------------------------------------------------------------
(* From the signal to the latch and on.                                    *)

\* What the handler asks for is asked of the latch that App::run waits for; and
\* while the handler is started the sigwait thread listens, or has opened it.
SignalReachesLatch ==
  /\ asked => requested
  /\ handler = "started" /\ waiter = "exited" => requested

LEMMA StepAsks ==
  ASSUME asked => requested, [AppNext]_appVars
  PROVE  asked' => requested'
<1> USE DEF signalVars
<1>1. CASE ApplyConfig \/ StartSignals \/ StartSignalsFails
  BY <1>1 DEF ApplyConfig, StartSignals, StartSignalsFails, S!CreateThread, S!BlockSignals,
              S!SpawnWaiter, S!SpawnFails, vars
<1>2. CASE StartCli \/ StartCliFails
  BY <1>2 DEF StartCli, StartCliFails, StartUi, vars
<1>3. CASE StopCli \/ DestroyApp
  BY <1>3 DEF StopCli, DestroyApp, Destroy, WaitReturns, StopSteps, CheckExecuting,
              TestActiveToAnnounce, Announce, JoinCommand, TestActiveToExit, PostExit, JoinUi
<1>4. CASE StopSignals
  BY <1>4 DEF StopSignals, S!WakeWaiter, S!StopSteps, S!JoinWaiter, S!ReadPending,
              S!DiscardPending, S!RestoreMask, vars
<1>5. CASE SendSignal
  BY <1>5 DEF SendSignal, S!Send, vars
<1>6. CASE SigwaitThread
  <2>1. CASE S!SigwaitReturns /\ UNCHANGED vars
    BY <2>1 DEF S!SigwaitReturns, vars
  <2>2. CASE S!ActOnSignal /\ received = Wake /\ UNCHANGED vars
    BY <2>2 DEF S!ActOnSignal, vars
  <2>3. CASE S!ActOnSignal /\ received # Wake /\ ExternalRequest
    BY <2>3 DEF ExternalRequest
  <2> QED
    BY <1>6, <2>1, <2>2, <2>3 DEF SigwaitThread
<1>7. CASE UiThread \/ ExitTask
  BY <1>7 DEF UiThread, ExitTask, UiSteps, RunExitTask, EnterLoop, JoinPrevious, SpawnWorker,
              CloseUi, RequestShutdown, LeaveLoop
<1>8. CASE WorkerThread
  BY <1>8 DEF WorkerThread, WorkerNext, StoreResult, TestActiveToUpdate, PostUpdate
<1>9. CASE UserOrAccident
  BY <1>9 DEF UserOrAccident, UserNext, JoinTwice, UiThrows, executeCurrentCommand,
              clearResult, UserQuits, LeaveLoop
<1>10. CASE UNCHANGED appVars
  BY <1>10 DEF appVars, vars
<1> QED
  BY <1>1, <1>2, <1>3, <1>4, <1>5, <1>6, <1>7, <1>8, <1>9, <1>10 DEF AppNext, MainThread

\* Unless another process sends SIGUSR1, no termination signal is lost between
\* the sigwait thread and App::run: the thread ends before stop() only with the
\* latch open (SignalHandler.cpp, App.cpp).
THEOREM SignalsReachMain ==
  ASSUME ~ AllowExternalWake
  PROVE  AppSpec => []SignalReachesLatch
<1> DEFINE HInv == /\ SP!IInv /\ SP!WakeStaysPrivate /\ SP!LeftoverNeverKills
                   /\ SP!WokenOnlyByStop /\ SP!ListensUntilAsked
<1>1. SP!SignalAssumption
  BY AppAssumption DEF SP!SignalAssumption, SP!Signal
<1>2. AppSpec => SP!Init /\ [][SP!Next]_(SP!vars)
  <2>1. [S!Next]_(S!vars) => [SP!Next]_(SP!vars)
    BY SameHandler DEF S!vars, SP!vars
  <2> QED
    BY <2>1, SameHandler, AppIsSignalHandler, PTL DEF S!SafeSpec
<1>3. SP!Init => SP!WakeStaysPrivate /\ SP!LeftoverNeverKills /\ SP!WokenOnlyByStop
                   /\ SP!ListensUntilAsked
  BY DEF SP!Init, SP!WakeStaysPrivate, SP!LeftoverNeverKills, SP!WokenOnlyByStop,
         SP!ListensUntilAsked
<1>4. SP!IInv /\ SP!WakeStaysPrivate /\ SP!LeftoverNeverKills /\ [SP!Next]_(SP!vars)
        => SP!WakeStaysPrivate' /\ SP!LeftoverNeverKills'
  BY <1>1, SP!StepPrivate
<1>5. SP!IInv /\ SP!WakeStaysPrivate /\ SP!WokenOnlyByStop /\ SP!ListensUntilAsked
        /\ [SP!Next]_(SP!vars) => SP!WokenOnlyByStop' /\ SP!ListensUntilAsked'
  BY <1>1, SP!StepListens
<1>6. AppInit => (asked => requested)
  BY DEF AppInit, S!Init
<1>7. (asked => requested) /\ [AppNext]_appVars => (asked => requested)'
  BY StepAsks
<1>8. SP!ListensUntilAsked /\ (asked => requested) => SignalReachesLatch
  BY DEF SP!ListensUntilAsked, SignalReachesLatch
<1> QED
  BY <1>2, <1>3, <1>4, <1>5, <1>6, <1>7, <1>8, HandlerInvariance, PTL DEF AppSpec, AppSafeSpec

\* No termination signal is sent before the UI loop runs.
QuietStart == ui \in {"absent", "building"} => sent = {}

\* The only way into the endless join of CliUiHandler::stop() is a termination
\* signal sent before the UI loop runs: when none is, stop() never waits for a
\* UI thread nobody told to end (App.cpp, CliUiHandler.cpp).
THEOREM OnlyEarlySignalsHang == AppSpec /\ []QuietStart => []ExitIsNeverSkipped
<1>1. ASSUME QuietStart, SP!ShutdownNeedsSignal', [AppNext]_appVars
      PROVE  [NoEarlyRequest]_vars
  <2> USE DEF signalVars
  <2> SUFFICES ASSUME AppNext, Running', ~ requested, requested', ui \in {"absent", "building"}
               PROVE  FALSE
    BY <1>1 DEF appVars, NoEarlyRequest
  <2>1. CASE SigwaitThread
    <3>1. S!ActOnSignal /\ received # Wake
      BY <2>1 DEF SigwaitThread, vars
    <3>2. asked' /\ sent' = sent
      BY <3>1 DEF S!ActOnSignal
    <3> QED
      BY <1>1, <3>2 DEF QuietStart, SP!ShutdownNeedsSignal
  <2>2. CASE ApplyConfig \/ StartSignals \/ StartSignalsFails \/ StopSignals \/ SendSignal
    BY <2>2 DEF ApplyConfig, StartSignals, StartSignalsFails, StopSignals, SendSignal, vars
  <2>3. CASE StartCli \/ StartCliFails
    BY <2>3 DEF StartCli, StartCliFails, StartUi, vars
  <2>4. CASE StopCli \/ DestroyApp
    BY <2>4 DEF StopCli, DestroyApp, Destroy, WaitReturns, StopSteps, CheckExecuting,
                TestActiveToAnnounce, Announce, JoinCommand, TestActiveToExit, PostExit, JoinUi
  <2>5. CASE UiThread \/ ExitTask
    BY <2>5 DEF UiThread, ExitTask, UiSteps, RunExitTask, EnterLoop, JoinPrevious, SpawnWorker,
                CloseUi, RequestShutdown, LeaveLoop
  <2>6. CASE WorkerThread
    BY <2>6 DEF WorkerThread, WorkerNext, StoreResult, TestActiveToUpdate, PostUpdate
  <2>7. CASE UserOrAccident
    BY <2>7 DEF UserOrAccident, UserNext, JoinTwice, UiThrows, Running, executeCurrentCommand,
                clearResult, UserQuits, LeaveLoop
  <2> QED
    BY <2>1, <2>2, <2>3, <2>4, <2>5, <2>6, <2>7 DEF AppNext, MainThread
<1>2. SP!IInv => SP!ShutdownNeedsSignal
  BY DEF SP!IInv
<1>3. AppSpec /\ []QuietStart => [][NoEarlyRequest]_vars
  BY <1>1, <1>2, HandlerInvariance, PTL DEF AppSpec, AppSafeSpec
<1> QED
  BY <1>3, AppIsCli, OnlyEarlyRequestsHang, PTL
=============================================================================
