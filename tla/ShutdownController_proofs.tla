----------------------- MODULE ShutdownController_proofs -----------------------
(***************************************************************************)
(* Proofs about ShutdownController: mutual exclusion, no lost wakeup, no   *)
(* early return, and that every step of the controller is a step of the    *)
(* latch or leaves the latch alone.                                        *)
(***************************************************************************)
EXTENDS ShutdownController, TLAPS

\* The flag and the positions agree: who has notified has set the flag before.
FlagFollowsRequest ==
  \A r \in Requester : At(r, "notify") \/ At(r, "after") => shutdown_requested

IInv ==
  /\ TypeOK
  /\ FlagFollowsRequest
  /\ NoLostWakeup
  /\ NoEarlyReturn

LEMMA InitInv == Init => IInv
BY ControllerAssumption
DEF Init, IInv, TypeOK, HolderInside, FlagFollowsRequest, NoLostWakeup,
    NoEarlyReturn, Thread, At

LEMMA RequesterKeeps ==
  ASSUME IInv, NEW r \in Requester, RequesterNext(r)
  PROVE  IInv'
<1> r \in Thread /\ r # Free /\ r \notin Waiter
  BY ControllerAssumption DEF Thread
<1> USE ControllerAssumption
    DEF IInv, TypeOK, HolderInside, FlagFollowsRequest, NoLostWakeup,
        NoEarlyReturn, Thread, At, Goto
<1>1. CASE LockToRequest(r)
  BY <1>1 DEF LockToRequest
<1>2. CASE SetFlag(r)
  <2>1. TypeOK' /\ FlagFollowsRequest' /\ NoEarlyReturn'
    BY <1>2 DEF SetFlag
  <2>2. NoLostWakeup'
    BY <1>2 DEF SetFlag
  <2>3. QED BY <2>1, <2>2
<1>3. CASE NotifyAll(r)
  <2>1. TypeOK' /\ FlagFollowsRequest' /\ NoEarlyReturn'
    BY <1>3 DEF NotifyAll
  <2>2. NoLostWakeup'
    BY <1>3 DEF NotifyAll
  <2>3. QED BY <2>1, <2>2
<1>4. QED BY <1>1, <1>2, <1>3 DEF RequesterNext

LEMMA WaiterKeeps ==
  ASSUME IInv, NEW w \in Waiter, WaiterSteps(w) \/ SpuriousWakeup(w)
  PROVE  IInv'
<1> w \in Thread /\ w # Free /\ w \notin Requester
  BY ControllerAssumption DEF Thread
<1> USE ControllerAssumption
    DEF IInv, TypeOK, HolderInside, FlagFollowsRequest, NoLostWakeup,
        NoEarlyReturn, Thread, At, Goto
<1>1. CASE LockToWait(w)
  BY <1>1 DEF LockToWait
<1>2. CASE Return(w)
  BY <1>2 DEF Return
<1>3. CASE Sleep(w)
  BY <1>3 DEF Sleep
<1>4. CASE SpuriousWakeup(w)
  BY <1>4 DEF SpuriousWakeup
<1>5. QED BY <1>1, <1>2, <1>3, <1>4 DEF WaiterSteps

LEMMA StepInv == IInv /\ [Next]_vars => IInv'
<1> SUFFICES ASSUME IInv, [Next]_vars PROVE IInv'
  OBVIOUS
<1>1. CASE Next
  BY <1>1, RequesterKeeps, WaiterKeeps DEF Next
<1>2. CASE UNCHANGED vars
  BY <1>2
  DEF vars, IInv, TypeOK, HolderInside, FlagFollowsRequest, NoLostWakeup,
      NoEarlyReturn, Thread, At
<1>3. QED BY <1>1, <1>2

LEMMA Invariance == SafeSpec => []IInv
BY InitInv, StepInv, PTL DEF SafeSpec

\* For any number of threads, the mutex is held exactly by the thread inside
\* requestShutdown's or waitForShutdownSignal's critical section, so that no two
\* threads are in one, and every variable keeps its shape
\* (ShutdownController.cpp).
THEOREM TypeCorrect == Spec => []TypeOK
<1>1. IInv => TypeOK
  BY DEF IInv
<1>2. QED BY Invariance, <1>1, PTL DEF Spec

\* For any number of requesters and waiters, a notification is never lost:
\* whoever sleeps on the condition variable after the flag was set is still
\* to be notified.
THEOREM WakeupNeverLost == Spec => []NoLostWakeup
<1>1. IInv => NoLostWakeup
  BY DEF IInv
<1>2. QED BY Invariance, <1>1, PTL DEF Spec

\* For any number of threads, waitForShutdownSignal returns only after
\* requestShutdown set the flag.
THEOREM NeverEarly == Spec => []NoEarlyReturn
<1>1. IInv => NoEarlyReturn
  BY DEF IInv
<1>2. QED BY Invariance, <1>1, PTL DEF Spec

LEMMA InitRefines == Init => Latch!Init
BY DEF Init, Latch!Init, Thread, At

LEMMA StepRefines == IInv /\ [Next]_vars => [Latch!Next]_(Latch!latchVars)
<1> SUFFICES ASSUME IInv, [Next]_vars PROVE [Latch!Next]_(Latch!latchVars)
  OBVIOUS
<1> USE ControllerAssumption DEF IInv, TypeOK, HolderInside, Thread, At, Goto, Latch!latchVars
<1>1. ASSUME NEW r \in Requester, LockToRequest(r) PROVE UNCHANGED Latch!latchVars
  BY <1>1 DEF LockToRequest
<1>2. ASSUME NEW r \in Requester, SetFlag(r) PROVE Latch!Open
  BY <1>2 DEF SetFlag, Latch!Open
<1>3. ASSUME NEW r \in Requester, NotifyAll(r) PROVE UNCHANGED Latch!latchVars
  BY <1>3 DEF NotifyAll
<1>4. ASSUME NEW w \in Waiter, LockToWait(w)
      PROVE  Latch!Arrive(w) \/ UNCHANGED Latch!latchVars
  BY <1>4 DEF LockToWait, Latch!Arrive
<1>5. ASSUME NEW w \in Waiter, Return(w) PROVE Latch!Pass(w)
  BY <1>5 DEF Return, Latch!Pass
<1>6. ASSUME NEW w \in Waiter, Sleep(w) PROVE UNCHANGED Latch!latchVars
  BY <1>6 DEF Sleep
<1>7. ASSUME NEW w \in Waiter, SpuriousWakeup(w) PROVE UNCHANGED Latch!latchVars
  BY <1>7 DEF SpuriousWakeup
<1>8. CASE UNCHANGED vars
  BY <1>8 DEF vars
<1>9. QED
  BY <1>1, <1>2, <1>3, <1>4, <1>5, <1>6, <1>7, <1>8
  DEF Next, RequesterNext, WaiterSteps, Latch!Next

\* The safety part of the refinement: the mutex and the condition variable
\* implement the latch, for any sets of requesters and waiters.
THEOREM ControllerIsLatch == Spec => Latch!SafeSpec
BY InitRefines, StepRefines, Invariance, PTL DEF Spec, SafeSpec, Latch!SafeSpec
=============================================================================
