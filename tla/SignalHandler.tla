----------------------------- MODULE SignalHandler -----------------------------
(***************************************************************************)
(* SignalHandler.cpp: the owner of SIGINT and SIGTERM. start() blocks them *)
(* in the calling thread and spawns a thread that waits for one in         *)
(* sigwait(); stop() wakes that thread with a private signal, joins it,    *)
(* discards what is still pending and restores the mask.                   *)
(*                                                                         *)
(* Signals sent while the handler is not in charge have their default      *)
(* action, which is none of its business: only the time between the block  *)
(* and the restore is modelled. Sent signals of one kind coalesce.         *)
(***************************************************************************)
CONSTANTS
  Termination,        \* termination_signals
  Wake,               \* kWakeSignal, SIGUSR1
  NoSignal,           \* no signal was received yet
  AllowExternalWake,  \* may another process send SIGUSR1?
  AllowEarlyThread    \* may another thread be created before start()?

Signal == Termination \cup {Wake}

ASSUME SignalAssumption ==
  /\ Wake \notin Termination
  /\ NoSignal \notin Signal
  /\ AllowExternalWake \in BOOLEAN
  /\ AllowEarlyThread \in BOOLEAN

VARIABLES
  handler,    \* where the thread that calls start() and stop() is
  waiter,     \* where the sigwait thread is
  received,   \* what its sigwait() returned
  unmasked,   \* does another thread exist that does not block the signals?
  pending,    \* signals pending on the process
  poked,      \* the wake signal is pending on the sigwait thread
  snapshot,   \* what sigpending() found and is not discarded yet
  late,       \* signals sent after sigpending() looked
  sent,       \* history: termination signals ever sent
  struck,     \* the signal action that ended the process, or "none"
  requested   \* has shutdown been requested?

vars == <<handler, waiter, received, unmasked, pending, poked, snapshot, late, sent, struck, requested>>

Running == struck = "none"

\* Every awaited signal is blocked in the calling thread.
InCharge == handler # "idle"

Init ==
  /\ handler = "idle"
  /\ waiter = "none"
  /\ received = NoSignal
  /\ unmasked = FALSE
  /\ pending = {}
  /\ poked = FALSE
  /\ snapshot = {}
  /\ late = {}
  /\ sent = {}
  /\ struck = "none"
  /\ requested = FALSE

(* The outside.                                                            *)

\* The kernel leaves the signal pending when every thread blocks it, and may
\* hand it to any thread that does not.
Send(s) ==
  /\ InCharge
  /\ s \in Termination \/ AllowExternalWake
  /\ sent' = sent \cup ({s} \cap Termination)
  /\ \/ /\ pending' = pending \cup {s}
        /\ late' = IF handler = "draining" THEN late \cup ({s} \ pending) ELSE late
        /\ UNCHANGED struck
     \/ /\ unmasked
        /\ struck' = "unmasked"
        /\ UNCHANGED <<pending, late>>
  /\ UNCHANGED <<unmasked, handler, waiter, received, poked, snapshot, requested>>

\* A thread inherits the mask of its creator: one created by the caller of
\* start() before the block (an agent or a transport that a startup plan
\* starts) leaves the awaited signals deliverable.
CreateThread ==
  /\ AllowEarlyThread
  /\ unmasked' = (unmasked \/ ~ InCharge)
  /\ UNCHANGED <<handler, waiter, received, pending, poked, snapshot, late, sent, struck, requested>>

(* start()                                                                 *)

BlockSignals ==
  /\ handler = "idle"
  /\ handler' = "blocked"
  /\ UNCHANGED <<unmasked, waiter, received, pending, poked, snapshot, late, sent, struck, requested>>

SpawnWaiter ==
  /\ handler = "blocked"
  /\ handler' = "started"
  /\ waiter' = "waiting"
  /\ UNCHANGED <<unmasked, received, pending, poked, snapshot, late, sent, struck, requested>>

\* The thread cannot be created: the mask is restored, start() throws, and
\* what arrived in between takes its default action.
SpawnFails ==
  /\ handler = "blocked"
  /\ handler' = "idle"
  /\ struck' = IF pending = {} THEN "none" ELSE "not_started"
  /\ UNCHANGED <<unmasked, waiter, received, pending, poked, snapshot, late, sent, requested>>

(* The sigwait thread.                                                     *)

SigwaitReturns ==
  /\ waiter = "waiting"
  /\ waiter' = "received"
  /\ \/ \E s \in pending : received' = s /\ pending' = pending \ {s} /\ UNCHANGED poked
     \/ poked /\ received' = Wake /\ poked' = FALSE /\ UNCHANGED pending
  /\ UNCHANGED <<unmasked, handler, snapshot, late, sent, struck, requested>>

\* Slip: shutdown is requested whatever was received.
ActOnAnySignal ==
  /\ waiter = "received"
  /\ waiter' = "exited"
  /\ requested' = TRUE
  /\ poked' = FALSE
  /\ received' = NoSignal
  /\ UNCHANGED <<unmasked, handler, pending, snapshot, late, sent, struck>>

\* Slip: the thread ends without asking for shutdown.
IgnoreSignal ==
  /\ waiter = "received"
  /\ waiter' = "exited"
  /\ poked' = FALSE
  /\ received' = NoSignal
  /\ UNCHANGED <<unmasked, handler, pending, snapshot, late, sent, struck, requested>>

\* The thread asks for shutdown unless it was only woken, and ends; a wake
\* signal still pending on it goes with it.
ActOnSignal ==
  /\ waiter = "received"
  /\ waiter' = "exited"
  /\ requested' = (requested \/ received # Wake)
  /\ poked' = FALSE
  /\ received' = NoSignal
  /\ UNCHANGED <<unmasked, handler, pending, snapshot, late, sent, struck>>

(* stop()                                                                  *)

\* Slip: nobody wakes the sigwait thread.
NobodyWakes ==
  /\ handler = "started"
  /\ handler' = "woken"
  /\ UNCHANGED <<unmasked, waiter, received, pending, poked, snapshot, late, sent, struck, requested>>

\* Slip: the wake signal is sent to the process, not to the thread.
WakeProcess ==
  /\ handler = "started"
  /\ handler' = "woken"
  /\ pending' = pending \cup {Wake}
  /\ UNCHANGED <<unmasked, waiter, received, poked, snapshot, late, sent, struck, requested>>

\* pthread_kill finds the thread, or finds it gone (ESRCH).
WakeWaiter ==
  /\ handler = "started"
  /\ handler' = "woken"
  /\ poked' = (waiter # "exited")
  /\ UNCHANGED <<unmasked, waiter, received, pending, snapshot, late, sent, struck, requested>>

\* Slip: the thread is not waited for.
DetachWaiter ==
  /\ handler = "woken"
  /\ handler' = "joined"
  /\ UNCHANGED <<unmasked, waiter, received, pending, poked, snapshot, late, sent, struck, requested>>

JoinWaiter ==
  /\ handler = "woken"
  /\ waiter = "exited"
  /\ handler' = "joined"
  /\ waiter' = "none"
  /\ UNCHANGED <<unmasked, received, pending, poked, snapshot, late, sent, struck, requested>>

ReadPending ==
  /\ handler = "joined"
  /\ handler' = "draining"
  /\ snapshot' = pending \cap Termination
  /\ late' = {}
  /\ UNCHANGED <<unmasked, waiter, received, pending, poked, sent, struck, requested>>

\* Each pending signal is discarded by a sigwait() for it alone, which would
\* block if the signal were not pending any more.
DiscardPending ==
  /\ handler = "draining"
  /\ \E s \in snapshot \cap pending :
       /\ snapshot' = snapshot \ {s}
       /\ pending' = pending \ {s}
  /\ UNCHANGED <<unmasked, handler, waiter, received, poked, late, sent, struck, requested>>

\* The mask comes back, and with it whatever is pending and was blocked.
RestoreMask ==
  /\ handler = "draining"
  /\ snapshot = {}
  /\ handler' = "idle"
  /\ struck' = IF pending = {} THEN "none"
               ELSE IF pending \subseteq late THEN "late" ELSE "leftover"
  /\ UNCHANGED <<unmasked, waiter, received, pending, poked, snapshot, late, sent, requested>>

WaiterNext == SigwaitReturns \/ ActOnSignal

\* What stop() does once it was called.
StopSteps == JoinWaiter \/ ReadPending \/ DiscardPending \/ RestoreMask

Next ==
  /\ Running
  /\ \/ \E s \in Signal : Send(s)
     \/ CreateThread
     \/ BlockSignals
     \/ SpawnWaiter
     \/ SpawnFails
     \/ WaiterNext
     \/ WakeWaiter
     \/ StopSteps

SafeSpec == Init /\ [][Next]_vars

\* Both threads run when they can; nothing makes anyone call start() or
\* stop(), or send a signal.
Spec ==
  /\ SafeSpec
  /\ WF_vars(Running /\ WaiterNext)
  /\ WF_vars(Running /\ StopSteps)

-----------------------------------------------------------------------------
\* Every variable keeps its shape, and the sigwait thread exists exactly from
\* its creation in start() to its join in stop().
TypeOK ==
  /\ waiter = "none" <=> handler \in {"idle", "blocked", "joined", "draining"}
  /\ unmasked \in BOOLEAN
  /\ handler \in {"idle", "blocked", "started", "woken", "joined", "draining"}
  /\ waiter \in {"none", "waiting", "received", "exited"}
  /\ received \in Signal \cup {NoSignal}
  /\ pending \subseteq Signal
  /\ poked \in BOOLEAN
  /\ snapshot \subseteq Termination
  /\ late \subseteq Signal
  /\ sent \subseteq Termination
  /\ struck \in {"none", "unmasked", "not_started", "late", "leftover"}
  /\ requested \in BOOLEAN

\* Restoring the mask delivers no leftover (SignalHandler.cpp, comment in
\* stop()): whatever was pending when stop() looked is gone by then. What is
\* sent after the look is beyond the drain and is counted as "late".
LeftoverNeverKills == struck # "leftover"

\* The drain never waits for a signal that will not come: what sigpending()
\* found is still pending until the drain itself takes it, because the only
\* other thread that could take it was joined before.
DrainNeverBlocks == handler = "draining" => snapshot \subseteq pending

\* Waking the thread for the join is not a request for shutdown: that needs a
\* termination signal, sent at some time.
ShutdownNeedsSignal == requested => sent # {}

\* stop() returns, whatever the sigwait thread is doing when it is called.
StopReturns == handler = "woken" ~> handler = "idle" \/ ~ Running

\* A termination signal sent while the handler is started gets shutdown
\* requested, unless stop() is called first (ARCHITECTURE.md, SignalHandler).
SignalRequestsShutdown ==
  (handler = "started" /\ pending \cap Termination # {})
    ~> (requested \/ handler # "started" \/ ~ Running)
=============================================================================
