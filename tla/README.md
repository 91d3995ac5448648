# Formal verification of mavlink_hub

TLA+ models of the parts of mavlink_hub that keep state or run concurrently,
TLC configurations that check them on small instances, and TLAPS proofs of the
results that matter most for every value of the constants. Paths below are
relative to the repository; `M!x` means definition `x` of module `M`.

## 1. The system

mavlink_hub is one process. `App` owns everything and drives a fixed sequence:
parse the arguments, load plugin libraries and a startup plan, take over
SIGINT/SIGTERM, start the CLI, wait for shutdown, tear down.

| Component | State | Operations | Talks to |
|---|---|---|---|
| Manager | endpoints by name, each with a map requester -> count; agents by name | add/connect/disconnect/remove endpoint, create/remove endpoint user, add/edit/start/stop/remove agent, execute and validate a plan, queries | called by AppService and, through requesters, by agents |
| MavlinkEndpointUser | weak reference to an endpoint object, endpoint name, user name | createListener, getNumOfListener, writeMessage, getState, destructor | calls Manager::removeMavlinkEndpointUser from its destructor |
| ManagerResourceRequester | the agent's name, pointer to the manager | requestMavlinkEndpoint, getMavlinkEndpointList | given to each agent |
| AgentRegistry and its user view | agent definitions by name | register (admin), look up (user) | filled by LibLoader, read by Manager |
| LibLoader | handles of opened libraries | loadAgentLib, loadTransportLib, close at destruction | registers into both registries |
| AppService | the loaded plan | executeCommand (one big dispatch) | calls Manager and LibLoader; called by the CLI and at startup |
| Startup | none | parseArgs, applyConfig | calls LibLoader, AppService |
| CliUiController | one command slot: executing, executed command, result; a worker thread; overview rows | executeCurrentCommand, joinExecution, clearResult, updateOverviewData | calls AppService from the worker |
| CliUiHandler, CliRoutine | the UI thread, running flag | start, stop | drives FTXUI, asks for shutdown when the UI thread ends |
| ShutdownController | one flag, a mutex, a condition variable | requestShutdown, waitForShutdownSignal | set by the UI thread and the sigwait thread, awaited by App::run |
| SignalHandler | saved mask, started flag, the sigwait thread | start, stop | calls ShutdownController |
| App | all of the above | run, destruction in reverse order of the members | |
| JsonUtils | none | decoders and encoders | used by Startup and AppService |

Threads: the main thread (App::run and the destructors), the sigwait thread,
FTXUI's UI thread, one worker at a time, and whatever threads agents and
transports create. `IManager` is not thread-safe by contract.

What is hard:

* **Reference counts by name.** A handle refers to an endpoint *object* but is
  released by the endpoint's *name*, and a name can be registered again.
* **Reentrancy.** Erasing an agent destroys its handles, which call back into
  the manager that is erasing it.
* **Shutdown.** Two independent triggers, four threads that end in a fixed
  order, a global pointer (`App::Active()`) tested and used without a lock, a
  thread object shared by two threads, and signals that must neither be lost
  nor kill the process.
* **Plans.** Validated as a whole, executed entry by entry, while agents that
  the plan has already started may act. A check answers for one moment and is
  relied upon later.
* **Answers.** A list of states is read name by name while agents move in
  threads of their own, travels as numbers and is turned back into text.

What makes each component correct: the counts a user is shown match the
handles that exist; a removed agent leaves nothing behind; no wakeup is lost;
stop() of every thread owner returns; nothing uses what was destroyed; one
command at a time with its own result; a shutdown request ends the process
cleanly. `PROJECT.json` lists the hazards line by line with the properties that
watch them.

## 2. Modules

| Module | Models | Checked by | Proved in |
|---|---|---|---|
| `Manager` | Manager.cpp, MavlinkEndpointUser.cpp, ManagerResourceRequester.cpp | `MCManager`, `MCManager*.cfg` | `Manager_proofs` |
| `PlanExecution` | `Manager::executePlan` and `validatePlan`, on top of `Manager` | `MCPlanExecution` | `PlanExecution_proofs` |
| `StatusJson` | the encoders of JsonUtils.cpp and the two status-list decoders, as functions | through `AppService` | through `AppService_proofs` |
| `AppService` | AppService.cpp, the Manager's getters, `CliUiController::updateOverviewData`; composes `PlanExecution` and `StatusJson` | `MCAppService` | `AppService_proofs` |
| `ShutdownLatch` | what ShutdownController promises (abstract) | as a property of `ShutdownController` | implemented: `ShutdownController_proofs`; used as stated: `CliUi_proofs` |
| `ShutdownController` | ShutdownController.cpp, lock by lock | `MCShutdownController.cfg` | `ShutdownController_proofs` |
| `SignalHandler` | SignalHandler.cpp with the kernel's pending sets and masks | `MCSignalHandler.cfg` | `SignalHandler_proofs` |
| `CommandSlot` | what CliUiController promises the view (abstract) | as a property of `App` | implemented: `CliUi_proofs` |
| `CliUi` | CliUiHandler.cpp, CliUiController.cpp, CliRoutine.cpp: three threads | through `App`, and `MCCliUi_*.cfg` | `CliUi_proofs` |
| `App` | App.cpp: App::run and the teardown; composes `CliUi` and `SignalHandler` | `MCApp.cfg` | `App_proofs` |
| `JsonUtils` | the decoders of JsonUtils.cpp, as functions | through `Startup` | through `Startup_proofs` |
| `Libraries` | LibLoader.cpp and the registries it fills | through `Startup` | through `Startup_proofs` |
| `Startup` | ArgsParser.cpp, AppConfigurator.cpp, the plan commands they use, the destruction of App's members; composes `JsonUtils` and `Libraries` | `MCStartup`, `MCStartup*.cfg` | `Startup_proofs` |

How they compose:

```
Startup ── JsonUtils, Libraries            App ── CliUi ─implements─> CommandSlot, ─uses─> ShutdownLatch
AppService ── StatusJson                    └──── SignalHandler
   └─ PlanExecution ── Manager             ShutdownController ─implements─> ShutdownLatch
```

Definitions called *slips* stand before the definition they spoil: each is that
definition with one plausible mistake, and shows that the property named with
it in `PROJECT.json` ("mutants") would notice.

### Manager

`endpoint_db`, `user_count` and `agents` are the maps of `ManagerImpl`; a
count map lists only requesters with a positive count because
`removeMavlinkEndpointUser` erases a count that reaches zero. `generation`
counts the endpoint objects made under a name, so that `Locks(h)` can say
whether `weak_ptr::lock` succeeds. `handle` holds the live
`MavlinkEndpointUser` objects; `seen` remembers what the last call through each
found. One call is one action, since `IManager` excludes concurrent calls.
`removeAgent` performs the releases of all handles the agent holds, as
`agents.erase` does. Whether a transport connects and how an agent proceeds
from STARTING and STOPPING is the library's choice. An endpoint or agent
operation that fails changes nothing and is not an action.

There are two usages under which counts drift: a name is registered again while
a handle on its previous endpoint lives, and `removeMavlinkEndpointUser` is
called directly although destructors release too. Both are allowed, and the
history variable `disturbed` records the names they have touched; removing an
endpoint clears its mark, for the counts go with the entry. `CountsAreExact`
speaks of the other names. `AllowExplicitRelease` switches the second usage off
where a run or a composition has no caller for it.

### ShutdownController and ShutdownLatch

Every lock, unlock, notify and wait is a step; releasing the mutex and going to
sleep is one step, as `condition_variable::wait` guarantees, and a sleep may
end spuriously. `ImplementsLatch` maps the flag to the latch and the positions
of the waiters to the latch's two sets. The other modules use the latch as one
shared Boolean, `requested`; `CliUsesLatch` shows that what they do to it is what
the latch allows, with App::run as the only waiter.

### SignalHandler

`pending` is the process's pending set (signals of one kind coalesce), `poked`
the wake signal pending on the sigwait thread alone. A signal sent while the
handler is in charge stays pending unless some thread does not block it
(`unmasked`): threads inherit the mask of their creator, and
`App::run` applies the configuration, which may create threads, before
`start()`. Restoring the mask delivers what is still pending: `struck` records
whether that was a `late` signal, sent after `sigpending()` looked, or a
`leftover`. `start()` may be called again after `stop()`.

### CliUi and CommandSlot

`main`, `ui` and `worker` are the positions of the three threads; `worker`
is also the state of the `execute_thread` object ("none" is not joinable).
A test of `App::Active()` and the call through it are two steps. The UI thread
may be in the middle of `executeCurrentCommand` at any moment of `stop()`.
`JoinTwice`, `UiThrows` and a call through a cleared `Active()` end the
process (`crash`). The sigwait thread appears as `ExternalRequest`.
`updateOverviewData` is in `AppService`: `CliUiHandler::start` calls it on the
main thread before the UI thread exists.

### App

`App` extends `CliUi`, whose main thread is App::run's, and instantiates
`SignalHandler` with its own variables. `ApplyConfig` may create threads that do
not block the signals (`AllowEarlyThread`); `StartSignals`, `StartCli`,
`StopCli`, `StopSignals` and `DestroyApp` are the lines of App::run in their
order, each guarded by the completion of the one before. `SigwaitThread` is the
handler's thread and, unless it was woken by stop(), CliUi's `ExternalRequest`
in one step, because `requestShutdown()` is the same latch the main thread waits
for; `asked` tells the handler's own requests from the UI thread's. Exceptions
that leave run() (`StartSignalsFails`, `StartCliFails`) end the process:
main.cpp catches nothing (`aborted`).

### PlanExecution

Extends `Manager`: `BeginPlan(p)` is `executePlan` up to its loops, that is
`validatePlan` on the whole plan and the decision to discard; then every entry
takes one step per call into the Manager (`RefuseEndpoint`, `AddPlanEndpoint`,
`ConnectPlanEndpoint` and the like for agents), and the agents that exist act
between any two of them (`AgentActs`). The loops go over unordered maps, so the
order of the entries is free. Whether an entry's type is registered and its
config parses is fixed once the libraries are loaded and is the entry's field
`usable`; that `create`, `connect` and `start` may fail all the same stays a
choice. `before` is a history variable: what was registered when `executePlan`
was called. The properties are told from it and from the plan, not from what
the validation computed. The policy may be `INDETERMINATE` (see `JsonUtils`).
Plans come one after the other; nothing else adds or removes names, as in the
program, where the commands that would are still empty.

### StatusJson and AppService

A JSON text is reduced to its one key and what it holds (`Doc`). A single state
is encoded by its name; a list carries the enumerator's number
(`AgentStateCode`, `EndpointStateCode`: any distinct numbers), which the decoder
casts back.

`AppService` has `command`, the command `executeCommand` is executing (at most
one: callers take turns), and `current_plan`. A command is `Call`, then the
steps of its case, then `Return`. `APPLY_CURRENT_PLAN` is `ApplyPlan`, the steps
of `PlanExecution`, and `ReportPlan`. The two getters that loop over agents or
endpoints read one name per step (`ReadState`, `unread`, `states`), and agents
move between any two steps (`AgentsRun`). `FetchOverview`, `TakeAgentRows` and
`TakeEndpointRows` are `updateOverviewData`, its two commands and the rows they
fill. The commands whose case is empty return an indeterminate
`CommandResult::success` (`DoNothing`). Two history variables carry the
properties: `checked` is what the last check said, until a plan is applied;
`observed` is every state each name has been in since the call began.

### JsonUtils, Libraries, Startup

A parsed document is reduced to what the decoders ask of it: which sections
exist and are arrays, and each entry's name, form (complete, a field missing,
the flag missing or no Boolean, the config no object) and data. Values of the
wrong type for `name`, `type` or a path are left to jsoncons and not modelled.
A `std::optional` is a record that has a value or not, and a loop over an array is
a function of the number of entries read (`ListAfter`, `LibsAfter`): its last
value is the result, and a `return` in the loop is a value that no later turn
changes.
Two fields have no initializer, `UserPlan::policy` and
`AppConfig::apply_user_plan_on_startup`: where no document sets them they are
any value (`unset`).

`Libraries` keeps dlopen's reference count per library (`opened`), the two
registries and the two maps of handles; `Load` is `loadAgentLib` and
`loadTransportLib`, which are the same program text for two kinds.
`collided` is a history variable: a definition was loaded under a taken name.

`Startup` is the sequence of App::run up to the user interface, loop by loop
and load by load, and the destruction of Manager and loader at the end.
`objects` are the libraries whose code agents and transports run.
The order in which a configuration's libraries load is free (unordered maps).

## 3. Runs

| Run | Question | Result |
|---|---|---|
| `manager` | 2 endpoints, 1 agent, 1 client, 3 handles, 2 objects per name, any usage: do counts ever overstate, are they exact where nothing disturbed them, does removal leave anything, can an old handle revive? | holds |
| `manager_stale_release` | is a requester with a working handle always listed? | violated |
| `plan_execution` | 2 endpoints, 2 agents, 1 handle, plans of up to 3 entries one after the other: all or nothing under DISCARD, exactly the good entries otherwise, endpoints first, true reports, nothing else touched? | holds |
| `app_service` | 1 endpoint, 2 agents, 3 plans, every command (one load and one empty one stand for their kind): does a check foretell the apply, are answers and the overview true, does every call return? | holds |
| `shutdown_controller` | 2 requesters, 3 waiters, spurious wakeups: is it a latch? | holds |
| `signal_handler` | 2 termination signals, any moment, any number of restarts: does stop() return, is the drain complete, is every signal acted on? | holds |
| `app` | App::run from the configuration to the last destructor: 2 commands, quit and signals at any moment, UI exceptions, threads older than the mask: slot, thread ownership, signals owned, nothing outlives App, every trigger ends in the teardown | holds |
| `cli_early_request` | does a shutdown requested before the loop runs complete? | violated |
| `cli_dead_app` | does any thread call through an App that is gone? | violated |
| `startup` | configurations and plan files with every kind of defect: do files load as their policy says, are definitions backed by open libraries until the end? | holds |
| `startup_unset_flag` | is a startup plan applied only when the configuration asks for it? | violated |
| `startup_repeated_name` | does a load that reports success register its definition? | violated |

Why the bounds are enough: two requesters of one endpoint, three handles and
two objects per name let one requester hold two handles, on both the old and
the new object of a name. Three waiters outnumber two requesters, so that each
requester must wake more than one. Two termination signals let one be consumed
and one be left to the drain. Two commands let a result be attributed to the
wrong one. Two endpoints and two agents let a plan meet names that are taken
and names that are free, and a bad entry in either list; the plans tried have
up to two endpoint entries with one agent entry, or two agent entries. Two
entries per section of a file let one be malformed, or repeat the other's name,
before or after a good one; two library names and two library files let a name
be repeated with another file and a file be opened twice. In `app_service` two agents
let one move after it was read and before the other is; its three plans share
names and have good and bad entries in either list and under either policy, so
that a check is followed by the apply of the same and of another plan; no agent
creates a handle there, which `plan_execution` covers (`MaxOpen` is the
most these lists can open one file, so the bound never bites). `MCStartup` takes every
combination of those sections, except that a file which names a plan lists at
most one main agent library: decoding a plan does not depend on them. Apart from
`MaxOpen`, `Manager!MaxGeneration` is the only numeric bound; all other state
is finite by nature.

### What the violated runs show

* **A stale release.** Handle h1 is created on e1; e1 is removed and added
  again; h2 is created on the new e1 by the same requester; destroying h1
  takes h2's count. `IManager.h:105` says the count is released when *the
  handle* is destroyed.
* **Early request.** A SIGTERM handled before the UI thread has entered its
  loop: `App::Active()` is null, the exit is skipped, and `ui_thread.join()`
  waits for a user to quit.
* **A dead App.** `Active()` is read twice without a lock.
* **An unset flag.** A configuration with `path_to_startup_user_plan` and no
  `apply_user_plan_on_startup` makes `applyConfig` branch on an indeterminate
  value.
* **A repeated name.** The extra library list names a definition of the main
  list: the registry keeps the first, the load reports success, and the second
  handle is not recorded, so that library is never closed.

For each of them a theorem bounds the damage, for every value of the constants:

| Finding | Theorem | What it shows |
|---|---|---|
| stale release | `OnlyDriftHidesUsers`, `PlansHideNoUser`, `CommandsHideNoUser` | a user is hidden only on a name that was disturbed, and no plan or command of today's program disturbs one |
| early request | `OnlyEarlyRequestsHang`, `OnlyEarlySignalsHang` | stop() waits for a UI thread nobody told to end only if shutdown was requested before the loop ran; in the application, only if a termination signal came before |
| dead App | `OnlyTheseCrashes` | such a call fails only between the end of the loop and the end of the UI thread's teardown, never before the loop; the main thread's only after a request |
| unset flag | `StatedFlagIsFollowed` | a configuration that states the flag is followed |
| repeated name | `RepeatedNamesAlone` | as long as no definition was loaded under a taken name, a reported success refers to the library asked for |

These limits are part of the models without a run of their own:

* A SIGUSR1 from another process looks like stop()'s wake signal and ends the
  sigwait thread (`AllowExternalWake`, off in the runs).
* A thread created while the configuration is applied does not block the
  signals, and the kernel may hand it one (`App!ApplyConfig`,
  `struck = "unmasked"`): the process then ends without teardown, although
  ARCHITECTURE.md:337 has the mask block the signals everywhere. Run `app` takes these
  paths, and its liveness properties hold up to that end.
* A command accepted after stop() has looked for one is still running when the
  exit is posted, but not when what it uses is destroyed
  (`CliUi!ServiceOutlivesWorker`, proved).
* The commands without a body return an indeterminate success
  (`AppService!DoNothing`), where IAppService.h says that success is true only
  if the command was dispatched successfully.
* While stop() waits, the status line names the *committed* command, which the
  user may have changed since, not the executing one (CliUiHandler.cpp:382).
* The overview is fetched once, before the UI runs, and goes stale from then on
  (CliUiController.cpp:168); `OverviewTellsTruth` is about the fetch.

## 4. Fairness

`ShutdownController` and `SignalHandler`: weak fairness of each thread's own
steps; the operating system runs what can run. Nothing forces a call, a signal
or a spurious wakeup. `CliUi` and `App`: weak fairness of the worker (commands
return), of the sigwait thread and of the UI thread's own steps; strong fairness
of the main thread, because a join returns once *that* thread has ended even if
another is started, and of the exit task, because FTXUI's queue is first in,
first out. `AppService`: weak fairness of the calling thread alone; callers call
as they please and agents may stand still for ever, so `CommandReturns` waits
for nobody. That commands return is thus assumed in `App` and shown in
`AppService`, for Manager calls that return themselves (a transport or agent
that blocks inside connect() or start() is outside the repository). The user is
never assumed to do anything. Conclusions hold "or the process has ended
abnormally" where `crash`, `struck` or `aborted` models such an end.

## 5. Proofs

* `Manager_proofs`: the inductive invariant adds to `TypeOK` that every handle
  of an agent belongs to a registered one, that a handle seen gone cannot be
  locked, that counts live only in registered entries, and
  `CountNeverOverstates` itself, which talks of *current* handles and is
  preserved by a release from a stale handle because the count then only
  decreases. For exactness (`ExactUndisturbed`) it adds that a handle which names
  an undisturbed registered endpoint is on the current object; together the two
  say that such a handle locks and that its user is listed
  (`OnlyDriftHidesUsers`).
* `ShutdownController_proofs`: the mutex is held exactly by the thread in a
  critical section, which the type invariant itself says (`HolderInside`, a
  conjunct of `TypeOK`, so the run checks it and `TypeCorrect` states it); with
  that, the only steps between the flag and the
  notification are the requester's own, so a sleeper after the flag has a
  requester still to notify, and nobody returns before the flag is set
  (`NeverEarly`). Each step is then a step of the latch or a stutter.
* `SignalHandler_proofs`: no sigwait thread exists while stop() drains, so what
  was in the snapshot stays pending; pending signals other than the wake signal
  are in the snapshot or late. `DrainIsComplete` and
  `HandlerKeepsListening` assume that no other process sends SIGUSR1
  (`~ AllowExternalWake`, a hypothesis and not an assumption of the module);
  `TerminationIsDrained` does without: what is left over then is the wake signal
  and nothing that was pending when stop() looked. The second adds that the wake
  signal is pending on the thread only after stop() has sent it
  (`WokenOnlyByStop`).
* `CliUi_proofs`: a busy slot has exactly one owner: the UI thread between
  accepting and spawning, the running worker afterwards. `CliUsesLatch` maps
  `requested` and the main thread's place to the abstract latch. The causes of
  the abnormal ends (`XInv`) need that an `Active()` found set was set by a loop
  that runs or has ended, and that nothing is stopped before a request.
  `OnlyEarlyRequestsHang` has a hypothesis about steps, `[][NoEarlyRequest]_vars`:
  the runs `app` and `cli_early_request` contain behaviours on both sides of it.
* `App_proofs`: App::run is a step of CliUi or a stutter (`AppIsCli`) and a step
  of SignalHandler or a stutter (`AppIsSignalHandler`), so the theorems about both
  hold of the application, the drain's included (`TeardownIsShielded`). On top
  of them, an invariant ties the position of the main thread to the state of the
  handler, which gives `UiIsShielded` and `TeardownIsComplete`. `SignalsReachMain`
  joins the two: the handler's request opens the latch that CliUi's main thread
  waits for. `OnlyEarlySignalsHang` reduces the hypothesis of
  `OnlyEarlyRequestsHang` to one about signals alone, since in the application
  only the sigwait thread can request shutdown before the loop runs and the
  process goes on.
* `PlanExecution_proofs`: the inductive invariant says that validation found
  the good entries (`ValidIsGood`), that only good entries have been added and
  none if the plan is discarded (`OnlyGoodAdded`), that a valid endpoint the
  loop has passed is registered and agents come after the loop
  (`LoopsInOrder`), and that the entry between its two calls is a valid one
  (`AddedIsValid`). `PlanIsManagerCalls` shows that every step is a step of
  `Manager` or changes nothing of it, so that `TypeOK`,
  `CountNeverOverstates`, `RemovedAgentHoldsNothing` and `GoneStaysGone` hold
  of plan executions too; `PlanLeavesOthersAlone` uses the first of them.
  `ReportsTellTruth` adds that every entry is either still to do, being done or
  reported as it went (`RInv`). `PlansHideNoUser` shows that plans never disturb a
  name, so that all counts are exact and every user is listed while they run;
  `LoopAdvances` that each step of the loops finishes an entry or brings it to
  its second call.
* `AppService_proofs`: `ServiceRunsPlans` is the refinement of `PlanExecution`,
  which carries every theorem above over to the plans the service applies.
  `CheckForetells` keeps the check tied to the registry until the apply begins,
  and to `before` from then on (`CheckStands`); nothing but a plan registers a
  name. `AnswersTrue` and `OverviewTrue` rest on `ReadingIsTrue` (what has been
  read was observed, what is unread is registered) and `FetchIsTrue` (the answer
  not yet put in its table is still true), and on `CastBack`: a state survives
  the number it is sent as. `CommandsShorten` is the part of `CommandReturns` that
  is about steps: what is left of a command only gets less, and agents add
  nothing to it. That the next step can always be taken, and is, is TLC's.
* `Startup_proofs`: every recorded handle is one opening of its library, and
  without a repeated name there are no others (`HandlesCounted`); the registry
  and the recorded handles agree until the loader closes them; objects exist
  only between the apply and the Manager's end. From these follow
  `DefinitionsBacked`, `CodeOutlivesObjects` and `AllIsClosed`, for any lists of
  libraries and any failures. The three theorems about plan files
  (`DiscardFilesAllOrNothing`, `BestEffortFilesLoad`, `GoodFilesLoad`) rest on
  what the decoders compute for arrays of any length (`EndpointsDecoded`,
  `AgentsDecoded`, `LibListAllOrNothing`). Their loops are unfolded by induction
  on the entries read, which is stated with a set instead of an operator: a
  least member of the set of counterexamples exists (`LeastMember`, from
  `WFMin`), and the entry before it leads to a contradiction (`UpTo`).
  `StartupAssumption` only says that documents have the shape of documents
  (sections with a list of entries) and that configurations name libraries and
  files of `LibName` and `LibPath`; what they decode to is proved.

Constants are arbitrary sets, with the assumptions named in each module.
Liveness, fairness and `ENABLED` are only model-checked: `StopReturns`,
`SignalRequestsShutdown`, `TriggerEndsInTeardown`, `AcceptedCommandFinishes`,
`CommandReturns` and the liveness part of `ImplementsLatch`; no prover installed
reasons about `ENABLED`. So are the violated runs and `App`'s use of CliUi's
fairness. Every other property of a passing run is the statement of a theorem or
follows from one, except where the theorem needs a hypothesis named above.

## 6. Not modelled

* Rendering: layout, key bindings, which menu entry is selected and committed
  (the menu offers eight queries; `AppService` takes any command), the wording
  of messages.
* `editAgent`, which has no caller in the program, and what the validate
  functions of single entries look at: they are an entry's field `usable`, and
  the plan execution uses them through it; the move of a Manager, which
  would leave requesters with a pointer to the old one, happens nowhere in src/.
* Two calls of the Manager inside each other. `IManager` excludes them by
  contract, its maps have no lock, and a data race has no outcomes to choose
  from; whole calls interleave freely.
* `AgentRegistry::removeAgentDefinition`, which nobody calls, and a registry
  view that outlives its definitions.
* What a library does inside create(), connect() and start(): their results are
  free choices, the agents' calls are `AgentActs`. An endpoint's link changes
  through the Manager only; the transports and the MAVLink protocol are an
  external library.
* Values of the wrong JSON type for names, types and paths, and the parser
  itself, are jsoncons's.

## 7. What could follow

1. A model of two overlapping Manager calls, once a lock or a contract for
   agents' threads says what is meant to happen.
2. The mutation commands (ADD_..., REMOVE_..., START_AGENT and the like) when
   their cases get a body: `Manager` has the actions they would dispatch to, and
   `CheckForetellsApply` will need its history cleared by them.
3. The periodic refresh the overview is prepared for, which would share the
   service with the worker.
