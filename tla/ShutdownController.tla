------------------------- MODULE ShutdownController -------------------------
(***************************************************************************)
(* ShutdownController.cpp at the granularity of its mutex and condition    *)
(* variable. Each requester calls requestShutdown once (the UI thread's    *)
(* CliRoutine and the sigwait thread do), each waiter calls                *)
(* waitForShutdownSignal once (App::run does).                             *)
(*                                                                         *)
(* The flag is written and tested under the mutex, the notification is     *)
(* sent after it was released; a wait may also end spuriously.             *)
(***************************************************************************)
CONSTANTS
  Requester,  \* threads that call requestShutdown
  Waiter,     \* threads that call waitForShutdownSignal
  Free        \* the mutex is not held

ASSUME ControllerAssumption ==
  /\ Requester \cap Waiter = {}
  /\ Free \notin Requester \cup Waiter

VARIABLES
  shutdown_requested,  \* ShutdownControllerImpl::shutdown_requested
  mtx,                 \* the thread that holds the mutex, or Free
  pc                   \* where each thread is

vars == <<shutdown_requested, mtx, pc>>

Thread == Requester \cup Waiter

At(t, place) == pc[t] = place

Goto(t, place) == pc' = [pc EXCEPT ![t] = place]

Init ==
  /\ shutdown_requested = FALSE
  /\ mtx = Free
  /\ pc = [t \in Thread |-> "before"]

(* requestShutdown                                                         *)

LockToRequest(r) ==
  /\ At(r, "before")
  /\ mtx = Free
  /\ mtx' = r
  /\ Goto(r, "locked")
  /\ UNCHANGED shutdown_requested

SetFlag(r) ==
  /\ At(r, "locked")
  /\ shutdown_requested' = TRUE
  /\ mtx' = Free
  /\ Goto(r, "notify")

\* Slip: notify_one instead of notify_all.
NotifyOne(r) ==
  /\ At(r, "notify")
  /\ \/ \E w \in Waiter : At(w, "asleep") /\ pc' = [pc EXCEPT ![r] = "after", ![w] = "woken"]
     \/ (\A w \in Waiter : ~ At(w, "asleep")) /\ Goto(r, "after")
  /\ UNCHANGED <<shutdown_requested, mtx>>

\* cv.notify_all wakes every thread asleep at this moment, and no other.
NotifyAll(r) ==
  /\ At(r, "notify")
  /\ pc' = [t \in Thread |->
       IF t = r THEN "after" ELSE IF At(t, "asleep") THEN "woken" ELSE pc[t]]
  /\ UNCHANGED <<shutdown_requested, mtx>>

(* waitForShutdownSignal                                                   *)

\* Slip: a woken wait tests the flag without taking the mutex again.
TestUnlocked(w) ==
  /\ \/ At(w, "before") /\ mtx = Free /\ mtx' = w
     \/ At(w, "woken") /\ UNCHANGED mtx
  /\ Goto(w, "testing")
  /\ UNCHANGED shutdown_requested

\* The call begins, or a woken wait takes the mutex again.
LockToWait(w) ==
  /\ At(w, "before") \/ At(w, "woken")
  /\ mtx = Free
  /\ mtx' = w
  /\ Goto(w, "testing")
  /\ UNCHANGED shutdown_requested

\* The predicate holds: the call returns and the lock goes with it.
Return(w) ==
  /\ At(w, "testing")
  /\ shutdown_requested
  /\ mtx' = Free
  /\ Goto(w, "after")
  /\ UNCHANGED shutdown_requested

\* Slip: the mutex is released before the thread is on the waiters' list, so a
\* notification in between is lost.
SleepLate(w) ==
  \/ /\ At(w, "testing")
     /\ ~ shutdown_requested
     /\ mtx' = Free
     /\ Goto(w, "drowsy")
     /\ UNCHANGED shutdown_requested
  \/ /\ At(w, "drowsy")
     /\ Goto(w, "asleep")
     /\ UNCHANGED <<shutdown_requested, mtx>>

\* It does not: releasing the mutex and going to sleep is one step.
Sleep(w) ==
  /\ At(w, "testing")
  /\ ~ shutdown_requested
  /\ mtx' = Free
  /\ Goto(w, "asleep")
  /\ UNCHANGED shutdown_requested

SpuriousWakeup(w) ==
  /\ At(w, "asleep")
  /\ Goto(w, "woken")
  /\ UNCHANGED <<shutdown_requested, mtx>>

RequesterNext(r) == LockToRequest(r) \/ SetFlag(r) \/ NotifyAll(r)

WaiterSteps(w) == LockToWait(w) \/ Return(w) \/ Sleep(w)

Next ==
  \/ \E r \in Requester : RequesterNext(r)
  \/ \E w \in Waiter : WaiterSteps(w) \/ SpuriousWakeup(w)

SafeSpec == Init /\ [][Next]_vars

\* The scheduler runs every thread that can run; nothing makes a spurious
\* wakeup happen.
Spec ==
  /\ SafeSpec
  /\ \A r \in Requester : WF_vars(RequesterNext(r))
  /\ \A w \in Waiter : WF_vars(WaiterSteps(w))

-----------------------------------------------------------------------------
\* A thread keeps to the places of its own operation, and the mutex is held
\* by the thread in a critical section and by nobody when there is none: two
\* are never in theirs at once, a wait that was woken included.
HolderInside ==
  /\ \A t \in Thread : At(t, "locked") \/ At(t, "testing") <=> mtx = t
  /\ \A r \in Requester : ~ At(r, "testing") /\ ~ At(r, "asleep") /\ ~ At(r, "woken")
  /\ \A w \in Waiter : ~ At(w, "locked") /\ ~ At(w, "notify")

\* Every variable keeps its shape, and the mutex has the holder that the
\* positions of the threads say (requestShutdown, waitForShutdownSignal).
TypeOK ==
  /\ shutdown_requested \in BOOLEAN
  /\ mtx \in Thread \cup {Free}
  /\ pc \in [Thread -> {"before", "locked", "notify", "after",
                        "testing", "asleep", "woken"}]
  /\ HolderInside

\* No lost wakeup: a waiter asleep although shutdown was requested is about to
\* be notified by a requester that has set the flag and not notified yet
\* (requestShutdown notifies after it unlocked).
NoLostWakeup ==
  \A w \in Waiter :
    At(w, "asleep") /\ shutdown_requested => \E r \in Requester : At(r, "notify")

\* waitForShutdownSignal blocks until shutdown is requested, never less.
NoEarlyReturn == \A w \in Waiter : At(w, "after") => shutdown_requested

\* The controller is a latch for its users, liveness included: a waiter that
\* is in the call once shutdown is requested does return.
Latch == INSTANCE ShutdownLatch WITH
  opened <- shutdown_requested,
  waiting <- {w \in Waiter : ~ At(w, "before") /\ ~ At(w, "after")},
  passed <- {w \in Waiter : At(w, "after")}

ImplementsLatch == Latch!Spec
=============================================================================
