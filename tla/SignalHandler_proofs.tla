-------------------------- MODULE SignalHandler_proofs --------------------------
(***************************************************************************)
(* Proofs about SignalHandler, for any set of termination signals: the     *)
(* drain in stop() never blocks, a shutdown request goes back to a         *)
(* termination signal, and no leftover is delivered when nobody else sends *)
(* the wake signal.                                                        *)
(***************************************************************************)
EXTENDS SignalHandler, TLAPS

\* What is pending or was received, among the termination signals, was sent.
OnlySentSignals ==
  /\ pending \cap Termination \subseteq sent
  /\ received \in Termination => received \in sent
  /\ waiter = "received" <=> received # NoSignal

\* While stop() drains, each pending signal was seen by sigpending() or is
\* late, unless it is the wake signal.
PendingIsKnown ==
  handler = "draining" => pending \ {Wake} \subseteq snapshot \cup late

IInv ==
  /\ TypeOK
  /\ OnlySentSignals
  /\ PendingIsKnown
  /\ DrainNeverBlocks
  /\ ShutdownNeedsSignal

LEMMA InitInv == Init => IInv
BY SignalAssumption
DEF Init, IInv, TypeOK, OnlySentSignals, PendingIsKnown, DrainNeverBlocks,
    ShutdownNeedsSignal, Signal

LEMMA StepInv == IInv /\ [Next]_vars => IInv'
<1> SUFFICES ASSUME IInv, [Next]_vars PROVE IInv'
  OBVIOUS
<1> USE SignalAssumption
    DEF IInv, TypeOK, OnlySentSignals, PendingIsKnown, DrainNeverBlocks,
        ShutdownNeedsSignal, Signal, InCharge
<1>1. ASSUME NEW s \in Signal, Send(s) PROVE IInv'
  <2>1. TypeOK' /\ OnlySentSignals' /\ ShutdownNeedsSignal'
    BY <1>1 DEF Send
  <2>2. PendingIsKnown' /\ DrainNeverBlocks'
    BY <1>1 DEF Send
  <2>3. QED BY <2>1, <2>2
<1>2. CASE CreateThread
  BY <1>2 DEF CreateThread
<1>3. CASE BlockSignals
  BY <1>3 DEF BlockSignals
<1>4. CASE SpawnWaiter
  BY <1>4 DEF SpawnWaiter
<1>5. CASE SpawnFails
  BY <1>5 DEF SpawnFails
<1>6. CASE SigwaitReturns
  <2>1. TypeOK' /\ OnlySentSignals' /\ ShutdownNeedsSignal'
    BY <1>6 DEF SigwaitReturns
  <2>2. PendingIsKnown' /\ DrainNeverBlocks'
    BY <1>6 DEF SigwaitReturns
  <2>3. QED BY <2>1, <2>2
<1>7. CASE ActOnSignal
  BY <1>7 DEF ActOnSignal
<1>8. CASE WakeWaiter
  BY <1>8 DEF WakeWaiter
<1>9. CASE JoinWaiter
  BY <1>9 DEF JoinWaiter
<1>10. CASE ReadPending
  BY <1>10 DEF ReadPending
<1>11. CASE DiscardPending
  BY <1>11 DEF DiscardPending
<1>12. CASE RestoreMask
  BY <1>12 DEF RestoreMask
<1>13. CASE UNCHANGED vars
  BY <1>13 DEF vars
<1>14. QED
  BY <1>1, <1>2, <1>3, <1>4, <1>5, <1>6, <1>7, <1>8, <1>9, <1>10, <1>11, <1>12, <1>13
  DEF Next, WaiterNext, StopSteps

LEMMA Invariance == SafeSpec => []IInv
BY InitInv, StepInv, PTL DEF SafeSpec

\* Every variable keeps its shape, and the sigwait thread exists exactly
\* while start() has created and stop() has not joined it.
THEOREM TypeCorrect == Spec => []TypeOK
<1>1. IInv => TypeOK
  BY DEF IInv
<1>2. QED BY Invariance, <1>1, PTL DEF Spec

\* However many signals are owned and whoever sends what and when, each
\* sigwait() of the drain in stop() finds its signal pending.
THEOREM DrainIsSafe == Spec => []DrainNeverBlocks
<1>1. IInv => DrainNeverBlocks
  BY DEF IInv
<1>2. QED BY Invariance, <1>1, PTL DEF Spec

\* The handler never requests shutdown on its own account: not on the wake
\* signal, not on one sent by another process.
THEOREM RequestIsCaused == Spec => []ShutdownNeedsSignal
<1>1. IInv => ShutdownNeedsSignal
  BY DEF IInv
<1>2. QED BY Invariance, <1>1, PTL DEF Spec

\* When no other process sends SIGUSR1, the wake signal is never pending on
\* the process: stop() sends it to the thread, and it dies with the thread.
WakeStaysPrivate == Wake \notin pending

LEMMA StepPrivate ==
  ASSUME ~ AllowExternalWake
  PROVE  IInv /\ WakeStaysPrivate /\ LeftoverNeverKills /\ [Next]_vars
           => WakeStaysPrivate' /\ LeftoverNeverKills'
<1> SUFFICES ASSUME IInv, WakeStaysPrivate, LeftoverNeverKills, [Next]_vars
             PROVE  WakeStaysPrivate' /\ LeftoverNeverKills'
  OBVIOUS
<1> USE SignalAssumption DEF WakeStaysPrivate, LeftoverNeverKills
<1>1. ASSUME NEW s \in Signal, Send(s) PROVE WakeStaysPrivate' /\ LeftoverNeverKills'
  BY <1>1 DEF Send
<1>2. CASE RestoreMask
  BY <1>2 DEF RestoreMask, IInv, PendingIsKnown
<1>3. CASE WaiterNext
  BY <1>3 DEF WaiterNext, SigwaitReturns, ActOnSignal
<1>4. CASE CreateThread \/ BlockSignals \/ SpawnWaiter \/ SpawnFails \/ WakeWaiter
  BY <1>4 DEF CreateThread, BlockSignals, SpawnWaiter, SpawnFails, WakeWaiter
<1>5. CASE JoinWaiter \/ ReadPending \/ DiscardPending
  BY <1>5 DEF JoinWaiter, ReadPending, DiscardPending
<1>6. CASE UNCHANGED vars
  BY <1>6 DEF vars
<1>7. QED
  BY <1>1, <1>2, <1>3, <1>4, <1>5, <1>6 DEF Next, StopSteps

\* Restoring the mask in stop() delivers no signal that was pending when
\* stop() looked, as its comment says, provided that no other process sends
\* SIGUSR1: for any set of termination signals and any order of arrival.
THEOREM DrainIsComplete ==
  ASSUME ~ AllowExternalWake
  PROVE  Spec => []LeftoverNeverKills
<1>1. Init => WakeStaysPrivate /\ LeftoverNeverKills
  BY DEF Init, WakeStaysPrivate, LeftoverNeverKills
<1>2. QED BY <1>1, StepPrivate, Invariance, PTL DEF Spec, SafeSpec

-----------------------------------------------------------------------------
(* What remains when another process may send SIGUSR1, and what does not.  *)

\* A leftover is the wake signal and nothing else: every termination signal that
\* is still pending then was sent after stop() had looked.
OnlyWakeIsLeft ==
  struck = "leftover" => Wake \in pending /\ pending \cap Termination \subseteq late

\* The drain in stop() takes every termination signal, whoever sends SIGUSR1.
THEOREM TerminationIsDrained == Spec => []OnlyWakeIsLeft
<1>1. Init => OnlyWakeIsLeft
  BY DEF Init, OnlyWakeIsLeft
<1>2. IInv /\ OnlyWakeIsLeft /\ [Next]_vars => OnlyWakeIsLeft'
  <2> SUFFICES ASSUME IInv, OnlyWakeIsLeft, [Next]_vars PROVE OnlyWakeIsLeft'
    OBVIOUS
  <2>1. CASE UNCHANGED vars
    BY <2>1 DEF vars, OnlyWakeIsLeft
  <2>2. CASE Running /\ RestoreMask
    <3>1. pending \ {Wake} \subseteq late /\ UNCHANGED <<pending, late>>
      BY <2>2 DEF RestoreMask, IInv, PendingIsKnown
    <3>2. struck' = "leftover" => ~ (pending \subseteq late)
      BY <2>2 DEF RestoreMask
    <3> QED
      BY <3>1, <3>2, SignalAssumption DEF OnlyWakeIsLeft
  <2>3. CASE Running /\ ~ RestoreMask /\ Next
    <3>1. struck' # "leftover"
      BY <2>3 DEF Running, Next, Send, CreateThread, BlockSignals, SpawnWaiter, SpawnFails,
                  WaiterNext, SigwaitReturns, ActOnSignal, WakeWaiter, StopSteps, JoinWaiter,
                  ReadPending, DiscardPending
    <3> QED
      BY <3>1 DEF OnlyWakeIsLeft
  <2> QED
    BY <2>1, <2>2, <2>3 DEF Next
<1> QED
  BY <1>1, <1>2, Invariance, PTL DEF Spec, SafeSpec

\* While the handler is started the sigwait thread listens, or is about to ask
\* for shutdown, or has asked: no signal is left without a thread to take it.
ListensUntilAsked == handler = "started" /\ waiter = "exited" => requested

\* The wake signal is pending on the thread only between stop()'s call and the
\* thread's end, and until then the thread receives nothing but what was sent.
WokenOnlyByStop ==
  /\ handler = "started" \/ waiter \in {"none", "exited"} => ~ poked
  /\ handler = "started" /\ waiter = "received" => received # Wake

LEMMA StepListens ==
  ASSUME ~ AllowExternalWake, IInv, WakeStaysPrivate, WokenOnlyByStop, ListensUntilAsked,
         [Next]_vars
  PROVE  WokenOnlyByStop' /\ ListensUntilAsked'
<1> USE SignalAssumption DEF WokenOnlyByStop, ListensUntilAsked, IInv, TypeOK, WakeStaysPrivate
<1>1. ASSUME NEW s \in Signal, Send(s) PROVE WokenOnlyByStop' /\ ListensUntilAsked'
  BY <1>1 DEF Send
<1>2. CASE SigwaitReturns
  BY <1>2 DEF SigwaitReturns
<1>3. CASE ActOnSignal
  BY <1>3 DEF ActOnSignal
<1>4. CASE CreateThread \/ BlockSignals \/ SpawnWaiter \/ SpawnFails
  BY <1>4 DEF CreateThread, BlockSignals, SpawnWaiter, SpawnFails
<1>5. CASE WakeWaiter \/ JoinWaiter
  BY <1>5 DEF WakeWaiter, JoinWaiter
<1>6. CASE ReadPending \/ DiscardPending \/ RestoreMask
  BY <1>6 DEF ReadPending, DiscardPending, RestoreMask
<1>7. CASE UNCHANGED vars
  BY <1>7 DEF vars
<1> QED
  BY <1>1, <1>2, <1>3, <1>4, <1>5, <1>6, <1>7 DEF Next, WaiterNext, StopSteps

\* Unless another process sends SIGUSR1, the sigwait thread does not end before
\* stop() without having asked for shutdown (SignalHandler.cpp).
THEOREM HandlerKeepsListening ==
  ASSUME ~ AllowExternalWake
  PROVE  Spec => []ListensUntilAsked
<1>1. Init => WakeStaysPrivate /\ LeftoverNeverKills /\ WokenOnlyByStop /\ ListensUntilAsked
  BY DEF Init, WakeStaysPrivate, LeftoverNeverKills, WokenOnlyByStop, ListensUntilAsked
<1> QED
  BY <1>1, StepPrivate, StepListens, Invariance, PTL DEF Spec, SafeSpec
=============================================================================
