--------------------------------- MODULE CliUi ---------------------------------
(***************************************************************************)
(* The CLI: CliUiHandler (who owns the UI thread), CliRoutine (who asks    *)
(* for shutdown when that thread ends) and CliUiController (who runs one   *)
(* command at a time on a worker thread).                                  *)
(*                                                                         *)
(* Three threads interleave: the MAIN thread in App::run and in the        *)
(* destructors after it, the UI thread in FTXUI's loop, and the WORKER.    *)
(* App::Active() is a plain global that the UI thread sets and clears; the *)
(* two others test it and then call through it, in two steps here.         *)
(***************************************************************************)
CONSTANTS
  Command,            \* the commands a user can execute
  None,               \* no command, or no result
  AllowEarlyRequest,  \* may shutdown be requested before the UI loop runs?
  AllowUiException    \* may the UI code throw?

ASSUME CliAssumption ==
  /\ None \notin Command
  /\ AllowEarlyRequest \in BOOLEAN
  /\ AllowUiException \in BOOLEAN

VARIABLES
  main,            \* where the main thread is
  ui,              \* where the UI thread is
  worker,          \* execute_thread and where it is; "none" is not joinable
  job,             \* the command the worker was given
  active,          \* App::Active() # nullptr
  exit_posted,     \* App::Exit() has put its task in the UI loop's queue
  executing,       \* CliUiControllerImpl::executing
  executed,        \* executed_command
  command_result,  \* the command the stored result belongs to
  requested,       \* the shutdown latch
  crash            \* what ended the process abnormally, or "none"

vars == <<main, ui, worker, job, active, exit_posted, executing, executed,
          command_result, requested, crash>>

Running == crash = "none"

\* join() returns on a thread that ended; a thread object that stands for no
\* thread is not joined.
Joinable == worker # "none"
MayJoin == worker \in {"none", "finished"}

Init ==
  /\ main = "starting"
  /\ ui = "absent"
  /\ worker = "none"
  /\ job = None
  /\ active = FALSE
  /\ exit_posted = FALSE
  /\ executing = FALSE
  /\ executed = None
  /\ command_result = None
  /\ requested = FALSE
  /\ crash = "none"

\* A call through Active() by thread t: when the UI thread has cleared it
\* since t tested it, the call goes through a null pointer.
CallActive(t) == crash' = IF active THEN crash ELSE t

(* The main thread: CliUiHandler::start, ::stop, and the destructors.      *)

StartUi ==
  /\ main = "starting"
  /\ main' = "waiting"
  /\ ui' = "building"
  /\ UNCHANGED <<worker, job, active, exit_posted, executing, executed, command_result,
                 requested, crash>>

WaitReturns ==
  /\ main = "waiting"
  /\ requested
  /\ main' = "stopping"
  /\ UNCHANGED <<ui, worker, job, active, exit_posted, executing, executed,
                 command_result, requested, crash>>

CheckExecuting ==
  /\ main = "stopping"
  /\ main' = IF executing THEN "announcing" ELSE "exiting"
  /\ UNCHANGED <<ui, worker, job, active, exit_posted, executing, executed,
                 command_result, requested, crash>>

\* The status line is redrawn if there is an App to redraw.
TestActiveToAnnounce ==
  /\ main = "announcing"
  /\ main' = IF active THEN "redrawing" ELSE "joining"
  /\ UNCHANGED <<ui, worker, job, active, exit_posted, executing, executed,
                 command_result, requested, crash>>

Announce ==
  /\ main = "redrawing"
  /\ CallActive("main")
  /\ main' = "joining"
  /\ UNCHANGED <<ui, worker, job, active, exit_posted, executing, executed,
                 command_result, requested>>

JoinCommand ==
  /\ main = "joining"
  /\ MayJoin
  /\ worker' = "none"
  /\ main' = "exiting"
  /\ UNCHANGED <<ui, job, active, exit_posted, executing, executed, command_result,
                 requested, crash>>

\* With no App there is nothing to exit, and the UI thread is joined at once.
TestActiveToExit ==
  /\ main = "exiting"
  /\ main' = IF active THEN "posting" ELSE "collecting"
  /\ UNCHANGED <<ui, worker, job, active, exit_posted, executing, executed,
                 command_result, requested, crash>>

\* Slip: the loop is not told to exit.
PostNothing ==
  /\ main = "posting"
  /\ main' = "collecting"
  /\ UNCHANGED <<ui, worker, job, active, exit_posted, executing, executed,
                 command_result, requested, crash>>

PostExit ==
  /\ main = "posting"
  /\ CallActive("main")
  /\ exit_posted' = TRUE
  /\ main' = "collecting"
  /\ UNCHANGED <<ui, worker, job, active, executing, executed, command_result, requested>>

JoinUi ==
  /\ main = "collecting"
  /\ ui = "done"
  /\ main' = "stopped"
  /\ UNCHANGED <<ui, worker, job, active, exit_posted, executing, executed,
                 command_result, requested, crash>>

\* ~App: ~CliUiHandler finds itself stopped, ~CliUiController joins the
\* worker, and only then do the AppService and the Manager go.
Destroy ==
  /\ main = "stopped"
  /\ MayJoin
  /\ worker' = "none"
  /\ main' = "destroyed"
  /\ UNCHANGED <<ui, job, active, exit_posted, executing, executed, command_result,
                 requested, crash>>

(* The UI thread.                                                          *)

\* The components are built and PreMain makes the App the active one.
EnterLoop ==
  /\ ui = "building"
  /\ ui' = "looping"
  /\ active' = TRUE
  /\ UNCHANGED <<main, worker, job, exit_posted, executing, executed, command_result,
                 requested, crash>>

\* Slip: a command is accepted although one is executing.
ExecuteAnyway(c) ==
  /\ ui = "looping"
  /\ executing' = TRUE
  /\ executed' = c
  /\ ui' = "joining"
  /\ UNCHANGED <<main, worker, job, active, exit_posted, command_result, requested, crash>>

\* executeCurrentCommand up to its joinExecution; while a command executes
\* the button does nothing.
executeCurrentCommand(c) ==
  /\ ui = "looping"
  /\ ~ executing
  /\ executing' = TRUE
  /\ executed' = c
  /\ ui' = "joining"
  /\ UNCHANGED <<main, worker, job, active, exit_posted, command_result, requested, crash>>

\* Slip: the worker of the command before is not joined.
SkipJoin ==
  /\ ui = "joining"
  /\ ui' = "spawning"
  /\ UNCHANGED <<main, worker, job, active, exit_posted, executing, executed,
                 command_result, requested, crash>>

JoinPrevious ==
  /\ ui = "joining"
  /\ MayJoin
  /\ worker' = "none"
  /\ ui' = "spawning"
  /\ UNCHANGED <<main, job, active, exit_posted, executing, executed, command_result,
                 requested, crash>>

\* Two threads inside join() of one std::thread: undefined.
JoinTwice ==
  /\ main = "joining"
  /\ ui = "joining"
  /\ Joinable
  /\ crash' = "join"
  /\ UNCHANGED <<main, ui, worker, job, active, exit_posted, executing, executed,
                 command_result, requested>>

\* Assigning over a joinable std::thread terminates the process.
SpawnWorker ==
  /\ ui = "spawning"
  /\ IF Joinable
       THEN crash' = "overwrite" /\ UNCHANGED <<worker, job>>
       ELSE worker' = "running" /\ job' = executed /\ UNCHANGED crash
  /\ ui' = "looping"
  /\ UNCHANGED <<main, active, exit_posted, executing, executed, command_result, requested>>

clearResult ==
  /\ ui = "looping"
  /\ command_result' = None
  /\ UNCHANGED <<main, ui, worker, job, active, exit_posted, executing, executed,
                 requested, crash>>

LeaveLoop ==
  /\ ui = "looping"
  /\ ui' = "leaving"
  /\ UNCHANGED <<main, worker, job, active, exit_posted, executing, executed,
                 command_result, requested, crash>>

\* The user quits, or the loop runs the task that Exit() posted.
UserQuits == LeaveLoop

RunExitTask == exit_posted /\ LeaveLoop

\* PostMain: no App is active any more.
CloseUi ==
  /\ ui = "leaving"
  /\ ui' = "unwinding"
  /\ active' = FALSE
  /\ UNCHANGED <<main, worker, job, exit_posted, executing, executed, command_result,
                 requested, crash>>

\* ~CliRoutine.
RequestShutdown ==
  /\ ui = "unwinding"
  /\ ui' = "done"
  /\ requested' = TRUE
  /\ UNCHANGED <<main, worker, job, active, exit_posted, executing, executed,
                 command_result, crash>>

\* An exception leaves the thread's function, which nothing catches: the
\* process terminates, and the stack may or may not be unwound before.
UiThrows ==
  /\ AllowUiException
  /\ ui \in {"building", "looping", "spawning"}
  /\ crash' = "ui"
  /\ requested' \in {requested, TRUE}
  /\ UNCHANGED <<main, ui, worker, job, active, exit_posted, executing, executed,
                 command_result>>

(* The worker.                                                             *)

\* Slip: the slot is freed before the result is stored.
FreeThenStore ==
  \/ /\ worker = "running"
     /\ executing
     /\ executing' = FALSE
     /\ UNCHANGED <<main, ui, worker, job, active, exit_posted, executed,
                    command_result, requested, crash>>
  \/ /\ worker = "running"
     /\ ~ executing
     /\ command_result' = job
     /\ worker' = "stored"
     /\ UNCHANGED <<main, ui, job, active, exit_posted, executing, executed, requested,
                    crash>>

\* Slip: the slot is not freed.
StoreOnly ==
  /\ worker = "running"
  /\ command_result' = job
  /\ worker' = "stored"
  /\ UNCHANGED <<main, ui, job, active, exit_posted, executing, executed, requested, crash>>

\* The command returns; its result is stored and the slot freed under one
\* lock.
StoreResult ==
  /\ worker = "running"
  /\ command_result' = job
  /\ executing' = FALSE
  /\ worker' = "stored"
  /\ UNCHANGED <<main, ui, job, active, exit_posted, executed, requested, crash>>

\* on_update: ask the App for a redraw, if there is one.
TestActiveToUpdate ==
  /\ worker = "stored"
  /\ worker' = IF active THEN "posting" ELSE "finished"
  /\ UNCHANGED <<main, ui, job, active, exit_posted, executing, executed,
                 command_result, requested, crash>>

PostUpdate ==
  /\ worker = "posting"
  /\ CallActive("worker")
  /\ worker' = "finished"
  /\ UNCHANGED <<main, ui, job, active, exit_posted, executing, executed,
                 command_result, requested>>

(* The outside: the sigwait thread requests shutdown.                      *)

ExternalRequest ==
  /\ AllowEarlyRequest \/ ui \notin {"absent", "building"}
  /\ requested' = TRUE
  /\ UNCHANGED <<main, ui, worker, job, active, exit_posted, executing, executed,
                 command_result, crash>>

-----------------------------------------------------------------------------
StopSteps ==
  \/ CheckExecuting
  \/ TestActiveToAnnounce
  \/ Announce
  \/ JoinCommand
  \/ TestActiveToExit
  \/ PostExit
  \/ JoinUi

MainNext == StartUi \/ WaitReturns \/ StopSteps \/ Destroy

\* What the UI thread does without the user.
UiSteps == EnterLoop \/ JoinPrevious \/ SpawnWorker \/ CloseUi \/ RequestShutdown

UserNext == (\E c \in Command : executeCurrentCommand(c)) \/ clearResult \/ UserQuits

WorkerNext == StoreResult \/ TestActiveToUpdate \/ PostUpdate

CliNext == MainNext \/ UiSteps \/ RunExitTask \/ UserNext \/ WorkerNext \/ JoinTwice \/ UiThrows

Next == Running /\ (CliNext \/ ExternalRequest)

SafeSpec == Init /\ [][Next]_vars

\* Threads run when they can and commands return. A join of the main thread
\* returns once the thread it waits for has ended, even if the UI thread
\* starts another one; the UI loop's queue is first in, first out, so it gets
\* to the exit task. The user need not do anything.
Fairness ==
  /\ SF_vars(Running /\ MainNext)
  /\ WF_vars(Running /\ UiSteps)
  /\ SF_vars(Running /\ RunExitTask)
  /\ WF_vars(Running /\ WorkerNext)

Spec == SafeSpec /\ Fairness

-----------------------------------------------------------------------------
\* Every variable keeps its shape; App::Active() is set exactly while the UI
\* thread is in its loop, and a running worker runs the executed command.
TypeOK ==
  /\ main \in {"starting", "waiting", "stopping", "announcing", "redrawing", "joining",
               "exiting", "posting", "collecting", "stopped", "destroyed"}
  /\ ui \in {"absent", "building", "looping", "joining", "spawning", "leaving",
             "unwinding", "done"}
  /\ worker \in {"none", "running", "stored", "posting", "finished"}
  /\ job \in Command \cup {None}
  /\ active \in BOOLEAN
  /\ active <=> ui \in {"looping", "joining", "spawning", "leaving"}
  /\ exit_posted \in BOOLEAN
  /\ executing \in BOOLEAN
  /\ executed \in Command \cup {None}
  /\ command_result \in Command \cup {None}
  /\ requested \in BOOLEAN
  /\ crash \in {"none", "main", "worker", "ui", "join", "overwrite"}
  /\ worker = "running" => executing /\ job = executed

\* The view sees a slot that runs one command at a time: a result replaces
\* the one before it only when the command that was accepted last returns, and
\* is that command's, although the UI thread sets executed_command and the
\* worker the result. While a command executes the stored result is still that
\* of the command before it.
Slot == INSTANCE CommandSlot WITH
  busy <- executing, command <- executed, outcome <- command_result

ImplementsSlot == Slot!Spec

\* execute_thread never holds a running thread when the next one is assigned
\* to it, although two threads join it and one assigns it.
NoThreadOverwritten == crash # "overwrite"

\* The worker uses the controller, the AppService and the Manager: it has
\* ended before they are destroyed, also when stop() missed it.
ServiceOutlivesWorker == main = "destroyed" => worker = "none"

\* However shutdown is requested, App::run returns and the application is
\* torn down (ARCHITECTURE.md, Shutdown & Exit Policy).
ShutdownCompletes == requested ~> (main = "destroyed" \/ ~ Running)

\* The process exits cleanly: no thread calls through an App that is gone.
NoCallWithoutApp == crash \notin {"main", "worker"}
=============================================================================
