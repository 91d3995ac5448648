------------------------------ MODULE CliUi_proofs ------------------------------
(***************************************************************************)
(* Proofs about CliUi, for any set of commands: no running thread is       *)
(* overwritten, the worker never outlives the services it uses, and the    *)
(* three threads together implement the command slot.                      *)
(***************************************************************************)
EXTENDS CliUi, TLAPS

\* Who owns a busy slot: the UI thread between accepting a command and
\* creating its worker, the running worker after that. Between the join and
\* the creation there is no thread in execute_thread.
BusyHasOwner ==
  /\ ui \in {"joining", "spawning"} => executing /\ worker # "running"
  /\ executing /\ ui \notin {"joining", "spawning"} => worker = "running"
  /\ ui = "spawning" => worker = "none"

\* The UI thread exists once start() has run; who was joined is over: after
\* stop() the UI thread, after the destructors the worker as well.
JoinedIsOver ==
  /\ main = "starting" <=> ui = "absent"
  /\ main \in {"stopped", "destroyed"} => ui = "done"
  /\ main = "destroyed" => worker = "none"

IInv ==
  /\ TypeOK
  /\ BusyHasOwner
  /\ JoinedIsOver
  /\ NoThreadOverwritten

LEMMA InitInv == Init => IInv
BY DEF Init, IInv, TypeOK, BusyHasOwner, JoinedIsOver, NoThreadOverwritten

LEMMA MainKeeps ==
  ASSUME IInv, MainNext
  PROVE  IInv'
<1> USE DEF IInv, TypeOK, BusyHasOwner, JoinedIsOver, NoThreadOverwritten,
            MayJoin, Joinable, CallActive
<1>1. CASE StartUi
  BY <1>1 DEF StartUi
<1>2. CASE WaitReturns
  BY <1>2 DEF WaitReturns
<1>3. CASE CheckExecuting
  BY <1>3 DEF CheckExecuting
<1>4. CASE TestActiveToAnnounce
  BY <1>4 DEF TestActiveToAnnounce
<1>5. CASE Announce
  BY <1>5 DEF Announce
<1>6. CASE JoinCommand
  BY <1>6 DEF JoinCommand
<1>7. CASE TestActiveToExit
  BY <1>7 DEF TestActiveToExit
<1>8. CASE PostExit
  BY <1>8 DEF PostExit
<1>9. CASE JoinUi
  BY <1>9 DEF JoinUi
<1>10. CASE Destroy
  BY <1>10 DEF Destroy
<1>11. QED
  BY <1>1, <1>2, <1>3, <1>4, <1>5, <1>6, <1>7, <1>8, <1>9, <1>10
  DEF MainNext, StopSteps

LEMMA UiKeeps ==
  ASSUME IInv, UiSteps \/ RunExitTask \/ UserNext \/ UiThrows
  PROVE  IInv'
<1> USE DEF IInv, TypeOK, BusyHasOwner, JoinedIsOver, NoThreadOverwritten,
            MayJoin, Joinable, CallActive
<1>1. CASE EnterLoop
  BY <1>1 DEF EnterLoop
<1>2. CASE JoinPrevious
  BY <1>2 DEF JoinPrevious
<1>3. CASE SpawnWorker
  BY <1>3 DEF SpawnWorker
<1>4. CASE CloseUi
  <2>1. active' \in BOOLEAN /\ ~ active'
    BY <1>4 DEF CloseUi
  <2>2. QED BY <2>1, <1>4 DEF CloseUi
<1>5. CASE RequestShutdown
  BY <1>5 DEF RequestShutdown
<1>6. CASE LeaveLoop
  BY <1>6 DEF LeaveLoop
<1>7. CASE clearResult
  BY <1>7 DEF clearResult
<1>8. CASE UiThrows
  <2>1. requested' \in BOOLEAN
    BY <1>8 DEF UiThrows
  <2>2. QED BY <2>1, <1>8 DEF UiThrows
<1>9. ASSUME NEW c \in Command, executeCurrentCommand(c) PROVE IInv'
  BY <1>9 DEF executeCurrentCommand
<1>10. QED
  BY <1>1, <1>2, <1>3, <1>4, <1>5, <1>6, <1>7, <1>8, <1>9
  DEF UiSteps, RunExitTask, UserNext, UserQuits

LEMMA WorkerKeeps ==
  ASSUME IInv, WorkerNext \/ JoinTwice \/ ExternalRequest
  PROVE  IInv'
<1> USE DEF IInv, TypeOK, BusyHasOwner, JoinedIsOver, NoThreadOverwritten,
            MayJoin, Joinable, CallActive
<1>1. CASE StoreResult
  <2>1. executing' \in BOOLEAN /\ ~ executing'
    BY <1>1 DEF StoreResult
  <2>2. QED BY <2>1, <1>1 DEF StoreResult
<1>2. CASE TestActiveToUpdate
  BY <1>2 DEF TestActiveToUpdate
<1>3. CASE PostUpdate
  BY <1>3 DEF PostUpdate
<1>4. CASE JoinTwice
  BY <1>4 DEF JoinTwice
<1>5. CASE ExternalRequest
  BY <1>5 DEF ExternalRequest
<1>6. QED
  BY <1>1, <1>2, <1>3, <1>4, <1>5
  DEF WorkerNext

LEMMA StepInv == IInv /\ [Next]_vars => IInv'
<1>1. IInv /\ Next => IInv'
  BY MainKeeps, UiKeeps, WorkerKeeps DEF Next, CliNext
<1>2. IInv /\ UNCHANGED vars => IInv'
  BY DEF vars, IInv, TypeOK, BusyHasOwner, JoinedIsOver, NoThreadOverwritten
<1>3. QED BY <1>1, <1>2

LEMMA Invariance == SafeSpec => []IInv
BY InitInv, StepInv, PTL DEF SafeSpec

\* Every variable keeps its shape, and a running worker runs the command the
\* view shows as executing.
THEOREM TypeCorrect == SafeSpec => []TypeOK
<1>1. IInv => TypeOK
  BY DEF IInv
<1>2. QED BY Invariance, <1>1, PTL

\* Whatever the three threads do in whatever order, executeCurrentCommand
\* never assigns over a thread that was not joined.
THEOREM ThreadNeverOverwritten == SafeSpec => []NoThreadOverwritten
<1>1. IInv => NoThreadOverwritten
  BY DEF IInv
<1>2. QED BY Invariance, <1>1, PTL

\* The AppService and the Manager are destroyed only when no worker uses
\* them, also when a command was accepted after stop() had looked.
THEOREM WorkerEndsFirst == SafeSpec => []ServiceOutlivesWorker
<1>1. IInv => ServiceOutlivesWorker
  BY DEF IInv, JoinedIsOver, ServiceOutlivesWorker
<1>2. QED BY Invariance, <1>1, PTL

LEMMA InitRefines == Init => Slot!Init
BY DEF Init, Slot!Init

LEMMA StepRefines == IInv /\ [Next]_vars => [Slot!Next]_(Slot!slotVars)
<1> SUFFICES ASSUME IInv, [Next]_vars PROVE [Slot!Next]_(Slot!slotVars)
  OBVIOUS
<1> USE DEF Slot!slotVars
<1>1. ASSUME NEW c \in Command, executeCurrentCommand(c) PROVE Slot!Submit(c)
  BY <1>1 DEF executeCurrentCommand, Slot!Submit
<1>2. CASE StoreResult
  <2>1. Slot!Finish
    BY <1>2 DEF StoreResult, Slot!Finish, IInv, TypeOK
  <2>2. QED BY <2>1 DEF Slot!Next
<1>3. CASE clearResult
  <2>1. Slot!Clear
    BY <1>3 DEF clearResult, Slot!Clear
  <2>2. QED BY <2>1 DEF Slot!Next
<1>4. CASE MainNext
  BY <1>4 DEF MainNext, StopSteps, StartUi, WaitReturns, CheckExecuting, TestActiveToAnnounce,
              Announce, JoinCommand, TestActiveToExit, PostExit, JoinUi, Destroy
<1>5. CASE UiSteps \/ UserQuits \/ RunExitTask
  BY <1>5 DEF UiSteps, EnterLoop, JoinPrevious, SpawnWorker, CloseUi, RequestShutdown,
              UserQuits, RunExitTask, LeaveLoop
<1>6. CASE TestActiveToUpdate \/ PostUpdate \/ JoinTwice \/ UiThrows \/ ExternalRequest
  BY <1>6 DEF TestActiveToUpdate, PostUpdate, JoinTwice, UiThrows, ExternalRequest
<1>7. CASE UNCHANGED vars
  BY <1>7 DEF vars
<1>8. QED
  BY <1>1, <1>2, <1>3, <1>4, <1>5, <1>6, <1>7
  DEF Next, CliNext, UserNext, WorkerNext, Slot!Next

\* The controller and its threads implement the slot: one command at a time,
\* and the stored result is that of the executed command. Any interleaving of
\* the view, the worker and the shutdown is covered.
THEOREM SlotImplemented == SafeSpec => ImplementsSlot
BY InitRefines, StepRefines, Invariance, PTL DEF SafeSpec, ImplementsSlot, Slot!Spec

-----------------------------------------------------------------------------
(* The latch, as its users see it.                                         *)

\* `requested' and the places of the main thread read as the abstract latch:
\* the main thread is the waiter, in the call while it is "waiting".
Latch == INSTANCE ShutdownLatch WITH
  Waiter <- {"main"},
  opened <- requested,
  waiting <- IF main = "waiting" THEN {"main"} ELSE {},
  passed <- IF main \in {"starting", "waiting"} THEN {} ELSE {"main"}

LEMMA StepUsesLatch == IInv /\ [Next]_vars => [Latch!Next]_(Latch!latchVars)
<1> SUFFICES ASSUME IInv, [Next]_vars PROVE [Latch!Next]_(Latch!latchVars)
  OBVIOUS
<1> USE DEF Latch!latchVars
<1>1. CASE StartUi
  <2>1. Latch!Arrive("main")
    BY <1>1 DEF StartUi, Latch!Arrive
  <2> QED
    BY <2>1 DEF Latch!Next
<1>2. CASE WaitReturns
  <2>1. Latch!Pass("main")
    BY <1>2 DEF WaitReturns, Latch!Pass
  <2> QED
    BY <2>1 DEF Latch!Next
<1>3. CASE StopSteps \/ Destroy
  <2>1. /\ main \notin {"starting", "waiting"} /\ main' \notin {"starting", "waiting"}
        /\ UNCHANGED requested
    BY <1>3 DEF StopSteps, CheckExecuting, TestActiveToAnnounce, Announce, JoinCommand,
                TestActiveToExit, PostExit, JoinUi, Destroy
  <2> QED
    BY <2>1
<1>4. CASE RequestShutdown \/ UiThrows \/ ExternalRequest
  <2>1. UNCHANGED main /\ requested' \in {requested, TRUE}
    BY <1>4 DEF RequestShutdown, UiThrows, ExternalRequest
  <2> QED
    BY <2>1 DEF Latch!Next, Latch!Open
<1>5. CASE UNCHANGED <<main, requested>>
  BY <1>5
<1>6. CASE EnterLoop \/ JoinPrevious \/ SpawnWorker \/ CloseUi \/ RunExitTask \/ UserNext
           \/ WorkerNext \/ JoinTwice \/ UNCHANGED vars
  BY <1>5, <1>6 DEF vars, EnterLoop, JoinPrevious, SpawnWorker, CloseUi, RunExitTask, UserNext,
                    executeCurrentCommand, clearResult, UserQuits, LeaveLoop, WorkerNext,
                    StoreResult, TestActiveToUpdate, PostUpdate, JoinTwice
<1> QED
  BY <1>1, <1>2, <1>3, <1>4, <1>6 DEF Next, CliNext, MainNext, UiSteps

\* App::run and the UI thread use the ShutdownController as the latch that
\* ShutdownController.cpp was shown to be: shutdown once requested stays
\* requested, and App::run goes on only after it was.
THEOREM CliUsesLatch == SafeSpec => Latch!SafeSpec
<1>1. Init => Latch!Init
  BY DEF Init, Latch!Init
<1> QED
  BY <1>1, StepUsesLatch, Invariance, PTL DEF SafeSpec, Latch!SafeSpec

-----------------------------------------------------------------------------
(* Where the two findings about stop() end.                                *)

\* An App that is called was active when it was tested, and is called in vain
\* only once its loop has ended.
CallerHasTested ==
  main \in {"redrawing", "posting"} \/ worker = "posting" => ui \notin {"absent", "building"}

\* The main thread stops only what was asked to stop.
StopsOnRequest == main \notin {"starting", "waiting"} => requested

\* Every abnormal end has one of four causes: the loop ended between another
\* thread's test of App::Active() and its call; the UI thread accepted a command
\* while stop() waits for the one before; the UI code threw. None of the main
\* thread's can happen before shutdown was requested, and no call through
\* Active() fails while the UI has yet to begin (CliUiHandler.cpp).
CrashesExplained ==
  /\ crash \in {"main", "worker"} => ui \in {"unwinding", "done"}
  /\ crash = "join" => main = "joining" /\ ui = "joining"
  /\ crash \in {"main", "join"} => requested
  /\ crash = "ui" => AllowUiException
  /\ crash # "overwrite"

XInv == CallerHasTested /\ StopsOnRequest /\ CrashesExplained

LEMMA CrashInvStep == IInv /\ XInv /\ [Next]_vars => XInv'
<1> SUFFICES ASSUME IInv, XInv, [Next]_vars PROVE XInv'
  OBVIOUS
<1> USE DEF IInv, TypeOK, JoinedIsOver, BusyHasOwner, XInv, CallerHasTested, StopsOnRequest,
            CrashesExplained, CallActive, Joinable, MayJoin
<1>1. CASE UNCHANGED vars
  BY <1>1 DEF vars
<1>2. CASE Running /\ MainNext
  BY <1>2 DEF Running, MainNext, StopSteps, StartUi, WaitReturns, CheckExecuting,
              TestActiveToAnnounce, Announce, JoinCommand, TestActiveToExit, PostExit, JoinUi,
              Destroy
<1>3. CASE Running /\ (UiSteps \/ RunExitTask \/ UiThrows)
  BY <1>3 DEF Running, UiSteps, EnterLoop, JoinPrevious, SpawnWorker, CloseUi, RequestShutdown,
              RunExitTask, LeaveLoop, UiThrows
<1>4. CASE Running /\ UserNext
  BY <1>4 DEF Running, UserNext, executeCurrentCommand, clearResult, UserQuits, LeaveLoop
<1>5. CASE Running /\ (WorkerNext \/ JoinTwice \/ ExternalRequest)
  BY <1>5 DEF Running, WorkerNext, StoreResult, TestActiveToUpdate, PostUpdate, JoinTwice,
              ExternalRequest
<1> QED
  BY <1>1, <1>2, <1>3, <1>4, <1>5 DEF Next, CliNext

LEMMA CrashInvariance == SafeSpec => []XInv
<1>1. Init => XInv
  BY DEF Init, XInv, CallerHasTested, StopsOnRequest, CrashesExplained
<1> QED
  BY <1>1, CrashInvStep, Invariance, PTL DEF SafeSpec

\* The process ends abnormally in no other way than these, in any interleaving
\* of the three threads and the signals.
THEOREM OnlyTheseCrashes == SafeSpec => []CrashesExplained
<1>1. XInv => CrashesExplained
  BY DEF XInv
<1> QED
  BY <1>1, CrashInvariance, PTL

\* stop() waits for the UI thread only when that has been told to end or is
\* ending by itself.
ExitIsNeverSkipped ==
  Running /\ main = "collecting" => exit_posted \/ ui \in {"unwinding", "done"}

\* Shutdown is not requested before the UI loop runs, unless by an exception
\* that ends the process.
NoEarlyRequest == Running' /\ ~ requested /\ requested' => ui \notin {"absent", "building"}

RequestFindsLoop == Running /\ requested => ui \notin {"absent", "building"}

LEMMA ExitStep ==
  ASSUME IInv, XInv, RequestFindsLoop, ExitIsNeverSkipped, [Next]_vars, [NoEarlyRequest]_vars
  PROVE  RequestFindsLoop' /\ ExitIsNeverSkipped'
<1> USE DEF IInv, TypeOK, JoinedIsOver, XInv, StopsOnRequest, RequestFindsLoop,
            ExitIsNeverSkipped, CallActive
<1>1. CASE UNCHANGED vars
  BY <1>1 DEF vars, Running
<1> SUFFICES ASSUME NoEarlyRequest, Next PROVE RequestFindsLoop' /\ ExitIsNeverSkipped'
  BY <1>1
<1> USE DEF NoEarlyRequest
<1>2. CASE Running /\ MainNext
  BY <1>2 DEF Running, MainNext, StopSteps, StartUi, WaitReturns, CheckExecuting,
              TestActiveToAnnounce, Announce, JoinCommand, TestActiveToExit, PostExit, JoinUi,
              Destroy
<1>3. CASE Running /\ (UiSteps \/ RunExitTask \/ UiThrows)
  BY <1>3 DEF Running, UiSteps, EnterLoop, JoinPrevious, SpawnWorker, CloseUi,
              RequestShutdown, RunExitTask, LeaveLoop, UiThrows
<1>4. CASE Running /\ UserNext
  BY <1>4 DEF Running, UserNext, executeCurrentCommand, clearResult, UserQuits, LeaveLoop
<1>5. CASE Running /\ (WorkerNext \/ JoinTwice \/ ExternalRequest)
  BY <1>5 DEF Running, WorkerNext, StoreResult, TestActiveToUpdate, PostUpdate, JoinTwice,
              ExternalRequest
<1> QED
  BY <1>2, <1>3, <1>4, <1>5 DEF Next, CliNext

\* A request made while or after the loop runs never leaves stop() waiting for
\* a UI thread nobody told to end (CliUiHandler.cpp): the early request is the
\* only way to.
THEOREM OnlyEarlyRequestsHang == SafeSpec /\ [][NoEarlyRequest]_vars => []ExitIsNeverSkipped
<1>1. Init => RequestFindsLoop /\ ExitIsNeverSkipped
  BY DEF Init, RequestFindsLoop, ExitIsNeverSkipped
<1> QED
  BY <1>1, ExitStep, Invariance, CrashInvariance, PTL DEF SafeSpec
=============================================================================
