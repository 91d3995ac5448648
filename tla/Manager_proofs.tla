--------------------------- MODULE Manager_proofs ---------------------------
(***************************************************************************)
(* Proofs about Manager, for any sets of names and handles.                *)
(***************************************************************************)
EXTENDS Manager, FiniteSetTheorems, TLAPS

\* A live handle was made by a registered agent or a client, for an object
\* its endpoint name has had.
HandlesOwned ==
  \A h \in HandleId : Live(h) =>
    /\ handle[h].user \in agents \cup ClientName
    /\ handle[h].generation <= generation[handle[h].endpoint]

\* A live handle whose last call found the endpoint gone no longer locks.
GoneIsUnlocked ==
  \A h \in HandleId : Live(h) /\ seen[h] = "gone" => ~ Locks(h)

\* A handle slot nobody occupies remembers nothing.
FreeIsUnused == \A h \in HandleId : ~ Live(h) => seen[h] = "unused"

IInv ==
  /\ TypeOK
  /\ HandlesOwned
  /\ GoneIsUnlocked
  /\ FreeIsUnused
  /\ CountNeverOverstates

-----------------------------------------------------------------------------
(* Lemmas on the operators.                                                *)

\* Acquired keeps a count map a count map, adds one to r and nothing else.
LEMMA AcquiredCounts ==
  ASSUME NEW c, IsCountMap(c), NEW r \in Requester
  PROVE  /\ IsCountMap(Acquired(c, r))
         /\ DOMAIN Acquired(c, r) = DOMAIN c \cup {r}
         /\ Acquired(c, r)[r] = (IF r \in DOMAIN c THEN c[r] ELSE 0) + 1
         /\ \A s \in DOMAIN c \ {r} : Acquired(c, r)[s] = c[s]
  BY DEF IsCountMap, Acquired

\* Released keeps a count map a count map, takes n from r (down to absence)
\* and touches nobody else.
LEMMA ReleasedCounts ==
  ASSUME NEW c, IsCountMap(c), NEW r, NEW n \in Nat
  PROVE  /\ IsCountMap(Released(c, r, n))
         /\ DOMAIN Released(c, r, n) =
              IF r \in DOMAIN c /\ c[r] <= n THEN DOMAIN c \ {r} ELSE DOMAIN c
         /\ r \in DOMAIN c /\ ~ (c[r] <= n) => Released(c, r, n)[r] = c[r] - n
         /\ \A s \in DOMAIN c \ {r} : Released(c, r, n)[s] = c[s]
<1>1. CASE r \notin DOMAIN c
  BY <1>1 DEF IsCountMap, Released
<1>2. CASE r \in DOMAIN c /\ n = 0
  BY <1>2 DEF IsCountMap, Released
<1>3. CASE r \in DOMAIN c /\ n > 0 /\ c[r] <= n
  BY <1>3 DEF IsCountMap, Released
<1>4. CASE r \in DOMAIN c /\ n > 0 /\ ~ (c[r] <= n)
  <2>1. Released(c, r, n) = [c EXCEPT ![r] = @ - n]
    BY <1>4 DEF Released
  <2>2. c[r] - n \in Nat /\ c[r] - n > 0
    BY <1>4 DEF IsCountMap
  <2> QED
    BY <1>4, <2>1, <2>2 DEF IsCountMap
<1> QED
  BY <1>1, <1>2, <1>3, <1>4

\* The same, as counts.
LEMMA AcquiredCountIn ==
  ASSUME NEW c, IsCountMap(c), NEW r \in Requester, NEW s
  PROVE  CountIn(Acquired(c, r), s) = CountIn(c, s) + (IF s = r THEN 1 ELSE 0)
<1>1. CASE s = r
  BY <1>1 DEF CountIn, Acquired
<1>2. CASE s # r /\ s \in DOMAIN c
  BY <1>2 DEF CountIn, IsCountMap, Acquired
<1>3. CASE s # r /\ s \notin DOMAIN c
  BY <1>3 DEF CountIn, Acquired
<1> QED
  BY <1>1, <1>2, <1>3

LEMMA ReleasedCountIn ==
  ASSUME NEW c, IsCountMap(c), NEW r, NEW n \in Nat, NEW s
  PROVE  CountIn(Released(c, r, n), s) =
           IF s # r THEN CountIn(c, s)
           ELSE IF CountIn(c, r) <= n THEN 0 ELSE CountIn(c, r) - n
<1> DEFINE R == Released(c, r, n)
<1>0. r \in DOMAIN c => c[r] \in Nat /\ c[r] > 0
  BY DEF IsCountMap
<1>1. CASE r \notin DOMAIN c \/ n = 0
  <2>1. R = c
    BY <1>1 DEF Released
  <2> QED
    BY <1>0, <1>1, <2>1 DEF CountIn
<1>2. CASE r \in DOMAIN c /\ n > 0 /\ c[r] <= n
  <2>1. R = [t \in DOMAIN c \ {r} |-> c[t]]
    BY <1>2 DEF Released
  <2>2. CASE s = r
    BY <1>2, <2>1, <2>2 DEF CountIn
  <2>3. CASE s # r
    BY <2>1, <2>3 DEF CountIn
  <2> QED
    BY <2>2, <2>3
<1>3. CASE r \in DOMAIN c /\ n > 0 /\ ~ (c[r] <= n)
  <2>1. R = [c EXCEPT ![r] = @ - n]
    BY <1>3 DEF Released
  <2>2. CASE s = r
    BY <1>3, <2>1, <2>2 DEF CountIn
  <2>3. CASE s # r
    BY <2>1, <2>3 DEF CountIn
  <2> QED
    BY <2>2, <2>3
<1> QED
  BY <1>0, <1>1, <1>2, <1>3

LEMMA CountInType == ASSUME NEW c, IsCountMap(c), NEW r PROVE CountIn(c, r) \in Nat
  BY DEF CountIn, IsCountMap

\* The empty map is a count map that counts nobody.
LEMMA NoUsersCounts ==
  /\ IsCountMap(NoUsers)
  /\ DOMAIN NoUsers = {}
  /\ \A r : CountIn(NoUsers, r) = 0
  BY DEF IsCountMap, NoUsers, CountIn

\* Sets of handles are finite.
LEMMA HandleSetsFinite ==
  ASSUME NEW e, NEW r
  PROVE  /\ IsFiniteSet(HandlesNaming(e, r))
         /\ IsFiniteSet(CurrentHandles(e, r))
         /\ CurrentHandles(e, r) \subseteq HandlesNaming(e, r)
         /\ Cardinality(CurrentHandles(e, r)) \in Nat
         /\ Cardinality(HandlesNaming(e, r)) \in Nat
         /\ Cardinality(CurrentHandles(e, r)) <= Cardinality(HandlesNaming(e, r))
<1>1. /\ HandlesNaming(e, r) \subseteq HandleId
      /\ CurrentHandles(e, r) \subseteq HandlesNaming(e, r)
  BY DEF HandlesNaming, CurrentHandles
<1>2. IsFiniteSet(HandlesNaming(e, r))
  BY <1>1, FS_Subset, ManagerAssumption
<1>3. /\ IsFiniteSet(CurrentHandles(e, r))
      /\ Cardinality(CurrentHandles(e, r)) <= Cardinality(HandlesNaming(e, r))
  BY <1>1, <1>2, FS_Subset
<1>4. QED
  BY <1>1, <1>2, <1>3, FS_CardinalityType

-----------------------------------------------------------------------------
(* Type correctness.                                                       *)

LEMMA InitTypeOK == Init => TypeOK
<1> SUFFICES ASSUME Init PROVE TypeOK
  OBVIOUS
<1> QED
  BY ManagerAssumption, NoUsersCounts DEF Init, TypeOK, LinkState, AgentState

LEMMA NextTypeOK == TypeOK /\ [Next]_vars => TypeOK'
<1> SUFFICES ASSUME TypeOK, [Next]_vars PROVE TypeOK'
  OBVIOUS
<1> USE DEF TypeOK, endpointVars, agentVars, handleVars
<1>1. ASSUME NEW e \in EndpointName, addMavlinkEndpoint(e)
      PROVE  TypeOK'
  BY <1>1, NoUsersCounts, ManagerAssumption DEF addMavlinkEndpoint, LinkState
<1>2. ASSUME NEW e \in EndpointName, connectMavlinkEndpoint(e)
      PROVE  TypeOK'
  BY <1>2 DEF connectMavlinkEndpoint
<1>3. ASSUME NEW e \in EndpointName, disconnectMavlinkEndpoint(e)
      PROVE  TypeOK'
  BY <1>3 DEF disconnectMavlinkEndpoint, LinkState
<1>4. ASSUME NEW e \in EndpointName, removeMavlinkEndpoint(e)
      PROVE  TypeOK'
  BY <1>4, NoUsersCounts DEF removeMavlinkEndpoint, LinkState
<1>5. ASSUME NEW e \in EndpointName, NEW r \in Requester,
             removeMavlinkEndpointUser(e, r)
      PROVE  TypeOK'
  <2>1. IsCountMap(Released(user_count[e], r, 1))
    BY ReleasedCounts
  <2> QED
    BY <1>5, <2>1 DEF removeMavlinkEndpointUser
<1>6. ASSUME NEW e \in EndpointName, NEW r \in Requester, NEW h \in HandleId,
             createMavlinkEndpointUser(e, r, h)
      PROVE  TypeOK'
  <2>1. IsCountMap(Acquired(user_count[e], r))
    BY AcquiredCounts
  <2>2. [endpoint |-> e, user |-> r, generation |-> generation[e]] \in HandleRecord
    BY ManagerAssumption DEF HandleRecord
  <2> QED
    BY <1>6, <2>1, <2>2 DEF createMavlinkEndpointUser
<1>7. ASSUME NEW a \in AgentName, addAgent(a)
      PROVE  TypeOK'
  BY <1>7 DEF addAgent, AgentState
<1>8. ASSUME NEW a \in AgentName, startAgent(a)
      PROVE  TypeOK'
  BY <1>8 DEF startAgent, AgentState
<1>9. ASSUME NEW a \in AgentName, stopAgent(a)
      PROVE  TypeOK'
  BY <1>9 DEF stopAgent, AgentState
<1>10. ASSUME NEW a \in AgentName, AgentProgress(a)
       PROVE  TypeOK'
  BY <1>10 DEF AgentProgress, AgentState
<1>11. ASSUME NEW a \in AgentName, removeAgent(a)
       PROVE  TypeOK'
  <2>1. ASSUME NEW e \in EndpointName
        PROVE  IsCountMap(Released(user_count[e], a, Cardinality(HandlesNaming(e, a))))
    BY ReleasedCounts, HandleSetsFinite
  <2> QED
    BY <1>11, <2>1 DEF removeAgent, AgentState
<1>12. ASSUME NEW h \in HandleId, DestroyHandle(h)
       PROVE  TypeOK'
  <2>1. handle[h].endpoint \in EndpointName
    BY <1>12 DEF DestroyHandle, Live, HandleRecord
  <2>2. IsCountMap(Released(user_count[handle[h].endpoint], handle[h].user, 1))
    BY <2>1, ReleasedCounts
  <2> QED
    BY <1>12, <2>1, <2>2 DEF DestroyHandle
<1>13. ASSUME NEW h \in HandleId, UseHandle(h)
       PROVE  TypeOK'
  BY <1>13 DEF UseHandle
<1>14. CASE UNCHANGED vars
  BY <1>14 DEF vars
<1> QED
  BY <1>1, <1>2, <1>3, <1>4, <1>5, <1>6, <1>7, <1>8, <1>9, <1>10, <1>11,
     <1>12, <1>13, <1>14
  DEF Next, EndpointNext, AgentNext, HandleNext

\* Every variable keeps its shape, and a listed count is never zero
\* (Manager.cpp, the erase in removeMavlinkEndpointUser).
THEOREM TypeCorrect == Spec => []TypeOK
  BY InitTypeOK, NextTypeOK, PTL DEF Spec

-----------------------------------------------------------------------------
(* What handles are: owned by somebody, for an object their name has had.  *)

LEMMA InitIInv == Init => IInv
<1> SUFFICES ASSUME Init PROVE IInv
  OBVIOUS
<1>1. TypeOK
  BY InitTypeOK
<1>2. HandlesOwned /\ GoneIsUnlocked /\ FreeIsUnused
  BY DEF Init, HandlesOwned, GoneIsUnlocked, FreeIsUnused, Live
<1>3. CountNeverOverstates
  <2> SUFFICES ASSUME NEW e \in EndpointName, NEW r \in Requester
               PROVE  CountOf(e, r) <= Cardinality(CurrentHandles(e, r))
    BY DEF CountNeverOverstates
  <2>1. CountOf(e, r) = 0
    BY NoUsersCounts DEF Init, CountOf
  <2> QED
    BY <2>1, HandleSetsFinite
<1> QED
  BY <1>1, <1>2, <1>3 DEF IInv

LEMMA NextHandles ==
  TypeOK /\ HandlesOwned /\ GoneIsUnlocked /\ FreeIsUnused /\ [Next]_vars
    => HandlesOwned' /\ GoneIsUnlocked' /\ FreeIsUnused'
<1> SUFFICES ASSUME TypeOK, HandlesOwned, GoneIsUnlocked, FreeIsUnused, [Next]_vars
             PROVE  HandlesOwned' /\ GoneIsUnlocked' /\ FreeIsUnused'
  OBVIOUS
<1> USE DEF TypeOK, HandlesOwned, GoneIsUnlocked, FreeIsUnused, Live, Locks, HandleRecord,
            endpointVars, agentVars, handleVars
<1>1. ASSUME NEW e \in EndpointName, addMavlinkEndpoint(e)
      PROVE  HandlesOwned' /\ GoneIsUnlocked' /\ FreeIsUnused'
  BY <1>1, ManagerAssumption DEF addMavlinkEndpoint
<1>2. ASSUME NEW e \in EndpointName, connectMavlinkEndpoint(e)
      PROVE  HandlesOwned' /\ GoneIsUnlocked' /\ FreeIsUnused'
  BY <1>2 DEF connectMavlinkEndpoint
<1>3. ASSUME NEW e \in EndpointName, disconnectMavlinkEndpoint(e)
      PROVE  HandlesOwned' /\ GoneIsUnlocked' /\ FreeIsUnused'
  BY <1>3 DEF disconnectMavlinkEndpoint
<1>4. ASSUME NEW e \in EndpointName, removeMavlinkEndpoint(e)
      PROVE  HandlesOwned' /\ GoneIsUnlocked' /\ FreeIsUnused'
  BY <1>4 DEF removeMavlinkEndpoint
<1>5. ASSUME NEW e \in EndpointName, NEW r \in Requester,
             removeMavlinkEndpointUser(e, r)
      PROVE  HandlesOwned' /\ GoneIsUnlocked' /\ FreeIsUnused'
  BY <1>5 DEF removeMavlinkEndpointUser
<1>6. ASSUME NEW e \in EndpointName, NEW r \in Requester, NEW h \in HandleId,
             createMavlinkEndpointUser(e, r, h)
      PROVE  HandlesOwned' /\ GoneIsUnlocked' /\ FreeIsUnused'
  BY <1>6 DEF createMavlinkEndpointUser
<1>7. ASSUME NEW a \in AgentName, addAgent(a)
      PROVE  HandlesOwned' /\ GoneIsUnlocked' /\ FreeIsUnused'
  BY <1>7 DEF addAgent
<1>8. ASSUME NEW a \in AgentName, startAgent(a) \/ stopAgent(a) \/ AgentProgress(a)
      PROVE  HandlesOwned' /\ GoneIsUnlocked' /\ FreeIsUnused'
  BY <1>8 DEF startAgent, stopAgent, AgentProgress
<1>9. ASSUME NEW a \in AgentName, removeAgent(a)
      PROVE  HandlesOwned' /\ GoneIsUnlocked' /\ FreeIsUnused'
  BY <1>9 DEF removeAgent
<1>10. ASSUME NEW h \in HandleId, DestroyHandle(h)
       PROVE  HandlesOwned' /\ GoneIsUnlocked' /\ FreeIsUnused'
  BY <1>10 DEF DestroyHandle
<1>11. ASSUME NEW h \in HandleId, UseHandle(h)
       PROVE  HandlesOwned' /\ GoneIsUnlocked' /\ FreeIsUnused'
  BY <1>11 DEF UseHandle
<1>12. CASE UNCHANGED vars
  BY <1>12 DEF vars
<1> QED
  BY <1>1, <1>2, <1>3, <1>4, <1>5, <1>6, <1>7, <1>8, <1>9, <1>10, <1>11, <1>12
  DEF Next, EndpointNext, AgentNext, HandleNext

-----------------------------------------------------------------------------
(* Counts against handles. A step does one of five things to the count of  *)
(* a requester s on an endpoint f and to the handles behind it.            *)

Keeps(f, s) ==
  /\ CountOf(f, s)' = CountOf(f, s)
  /\ CurrentHandles(f, s)' = CurrentHandles(f, s)

Gains(f, s) ==
  \E h \in HandleId \ CurrentHandles(f, s) :
    /\ CurrentHandles(f, s)' = CurrentHandles(f, s) \cup {h}
    /\ CountOf(f, s)' = CountOf(f, s) + 1

Loses(f, s) ==
  \E h \in HandlesNaming(f, s) :
    /\ f \in endpoint_db
    /\ CurrentHandles(f, s)' = CurrentHandles(f, s) \ {h}
    /\ CountOf(f, s)' = IF CountOf(f, s) = 0 THEN 0 ELSE CountOf(f, s) - 1

Resets(f, s) ==
  /\ CountOf(f, s)' = 0
  /\ CurrentHandles(f, s)' = {}

Forfeits(f, s) ==
  /\ f \in disturbed'
  /\ CountOf(f, s)' \in Nat
  /\ CountOf(f, s)' <= CountOf(f, s)
  /\ CurrentHandles(f, s)' = CurrentHandles(f, s)

CountStep(f, s) ==
  Keeps(f, s) \/ Gains(f, s) \/ Loses(f, s) \/ Resets(f, s) \/ Forfeits(f, s)

\* Counts are naturals, bounded by the handles.
LEMMA CountBounds ==
  ASSUME TypeOK, CountNeverOverstates, NEW e \in EndpointName, NEW r \in Requester
  PROVE  /\ CountOf(e, r) \in Nat
         /\ CountOf(e, r) <= Cardinality(CurrentHandles(e, r))
  BY CountInType DEF CountNeverOverstates, CountOf, TypeOK

LEMMA NextCountStep ==
  ASSUME TypeOK, HandlesOwned, CountNeverOverstates, [Next]_vars,
         NEW f \in EndpointName, NEW s \in Requester
  PROVE  CountStep(f, s)
<1> USE DEF endpointVars, agentVars, handleVars
<1>0. ASSUME UNCHANGED <<endpoint_db, generation, user_count, handle>>
      PROVE  Keeps(f, s)
  BY <1>0 DEF Keeps, CurrentHandles, HandlesNaming, Live, Locks, CountOf
<1>1. ASSUME NEW e \in EndpointName, addMavlinkEndpoint(e) \/ removeMavlinkEndpoint(e)
      PROVE  CountStep(f, s)
  <2>1. CASE f = e
    <3>1. CountOf(f, s)' = 0
      BY <1>1, <2>1, NoUsersCounts
      DEF addMavlinkEndpoint, removeMavlinkEndpoint, CountOf, TypeOK
    <3>2. CurrentHandles(f, s)' = {}
      BY <1>1, <2>1
      DEF addMavlinkEndpoint, removeMavlinkEndpoint, CurrentHandles, HandlesNaming,
          Live, Locks, TypeOK, HandlesOwned, HandleRecord
    <3> QED
      BY <3>1, <3>2 DEF CountStep, Resets
  <2>2. CASE f # e
    <3>1. CountOf(f, s)' = CountOf(f, s)
      BY <1>1, <2>2 DEF addMavlinkEndpoint, removeMavlinkEndpoint, CountOf, TypeOK
    <3>2. CurrentHandles(f, s)' = CurrentHandles(f, s)
      BY <1>1, <2>2
      DEF addMavlinkEndpoint, removeMavlinkEndpoint, CurrentHandles, HandlesNaming,
          Live, Locks, TypeOK
    <3> QED
      BY <3>1, <3>2 DEF CountStep, Keeps
  <2> QED
    BY <2>1, <2>2
<1>2. ASSUME NEW e \in EndpointName,
             connectMavlinkEndpoint(e) \/ disconnectMavlinkEndpoint(e)
      PROVE  CountStep(f, s)
  BY <1>2, <1>0 DEF connectMavlinkEndpoint, disconnectMavlinkEndpoint, CountStep
<1>3. ASSUME NEW e \in EndpointName, NEW r \in Requester,
             removeMavlinkEndpointUser(e, r)
      PROVE  CountStep(f, s)
  <2>1. CurrentHandles(f, s)' = CurrentHandles(f, s)
    BY <1>3 DEF removeMavlinkEndpointUser, CurrentHandles, HandlesNaming, Live, Locks
  <2>2. CASE f # e
    <3>1. CountOf(f, s)' = CountOf(f, s)
      BY <1>3, <2>2 DEF removeMavlinkEndpointUser, CountOf, TypeOK
    <3> QED
      BY <2>1, <3>1 DEF CountStep, Keeps
  <2>3. CASE f = e
    <3>1. user_count'[f] = Released(user_count[f], r, 1)
      BY <1>3, <2>3 DEF removeMavlinkEndpointUser, TypeOK
    <3>2. CountOf(f, s)' \in Nat /\ CountOf(f, s)' <= CountOf(f, s)
      BY <3>1, ReleasedCountIn, CountInType DEF CountOf, TypeOK
    <3>3. f \in disturbed'
      BY <1>3, <2>3 DEF removeMavlinkEndpointUser
    <3>4. Forfeits(f, s)
      BY <2>1, <3>2, <3>3 DEF Forfeits
    <3> QED
      BY <3>4 DEF CountStep
  <2> QED
    BY <2>2, <2>3
<1>4. ASSUME NEW e \in EndpointName, NEW r \in Requester, NEW h \in HandleId,
             createMavlinkEndpointUser(e, r, h)
      PROVE  CountStep(f, s)
  <2> DEFINE made == [endpoint |-> e, user |-> r, generation |-> generation[e]]
  <2>0. made # NoHandle
    BY ManagerAssumption DEF HandleRecord, TypeOK
  <2>1. CASE f = e /\ s = r
    <3>1. /\ CurrentHandles(f, s)' = CurrentHandles(f, s) \cup {h}
          /\ h \notin CurrentHandles(f, s)
      BY <1>4, <2>0, <2>1
      DEF createMavlinkEndpointUser, CurrentHandles, HandlesNaming, Live, Locks, TypeOK
    <3>2. user_count'[f] = Acquired(user_count[f], s)
      BY <1>4, <2>1 DEF createMavlinkEndpointUser, TypeOK
    <3>3. CountOf(f, s)' = CountOf(f, s) + 1
      BY <3>2, AcquiredCountIn DEF CountOf, TypeOK
    <3> QED
      BY <3>1, <3>3 DEF CountStep, Gains
  <2>2. CASE ~ (f = e /\ s = r)
    <3>1. CurrentHandles(f, s)' = CurrentHandles(f, s)
      BY <1>4, <2>0, <2>2
      DEF createMavlinkEndpointUser, CurrentHandles, HandlesNaming, Live, Locks, TypeOK
    <3>2. CountOf(f, s)' = CountOf(f, s)
      <4>1. CASE f # e
        BY <1>4, <4>1 DEF createMavlinkEndpointUser, CountOf, TypeOK
      <4>2. CASE f = e
        <5>1. user_count'[f] = Acquired(user_count[f], r) /\ s # r
          BY <1>4, <2>2, <4>2 DEF createMavlinkEndpointUser, TypeOK
        <5> QED
          BY <5>1, AcquiredCountIn, CountInType DEF CountOf, TypeOK
      <4> QED
        BY <4>1, <4>2
    <3> QED
      BY <3>1, <3>2 DEF CountStep, Keeps
  <2> QED
    BY <2>1, <2>2
<1>5. ASSUME NEW a \in AgentName,
             addAgent(a) \/ startAgent(a) \/ stopAgent(a) \/ AgentProgress(a)
      PROVE  CountStep(f, s)
  BY <1>5, <1>0 DEF addAgent, startAgent, stopAgent, AgentProgress, CountStep
<1>6. ASSUME NEW a \in AgentName, removeAgent(a)
      PROVE  CountStep(f, s)
  <2> DEFINE n == Cardinality(HandlesNaming(f, a))
  <2>0. n \in Nat /\ CountOf(f, a) \in Nat /\ CountOf(f, a) <= n
    <3>1. a \in Requester
      BY DEF Requester
    <3> QED
      BY <3>1, CountBounds, HandleSetsFinite
  <2>1. user_count'[f] = IF f \in endpoint_db THEN Released(user_count[f], a, n)
                                              ELSE user_count[f]
    BY <1>6 DEF removeAgent
  <2>2. CASE s = a
    <3>1. CountOf(f, s)' = 0
      <4>1. CASE f \in endpoint_db
        BY <2>0, <2>1, <2>2, <4>1, ReleasedCountIn DEF CountOf, TypeOK
      <4>2. CASE f \notin endpoint_db
        BY <2>1, <4>2, NoUsersCounts DEF CountOf, TypeOK
      <4> QED
        BY <4>1, <4>2
    <3>2. CurrentHandles(f, s)' = {}
      BY <1>6, <2>2 DEF removeAgent, CurrentHandles, HandlesNaming, Live
    <3> QED
      BY <3>1, <3>2 DEF CountStep, Resets
  <2>3. CASE s # a
    <3>1. CountOf(f, s)' = CountOf(f, s)
      BY <2>0, <2>1, <2>3, ReleasedCountIn DEF CountOf, TypeOK
    <3>2. CurrentHandles(f, s)' = CurrentHandles(f, s)
      BY <1>6, <2>3 DEF removeAgent, CurrentHandles, HandlesNaming, Live, Locks
    <3> QED
      BY <3>1, <3>2 DEF CountStep, Keeps
  <2> QED
    BY <2>2, <2>3
<1>7. ASSUME NEW h \in HandleId, DestroyHandle(h)
      PROVE  CountStep(f, s)
  <2> DEFINE e == handle[h].endpoint
             r == handle[h].user
  <2>0. e \in EndpointName /\ r \in Requester /\ Live(h)
    BY <1>7 DEF DestroyHandle, Live, TypeOK, HandleRecord
  <2>1. CurrentHandles(f, s)' = CurrentHandles(f, s) \ {h}
    BY <1>7 DEF DestroyHandle, CurrentHandles, HandlesNaming, Live, Locks, TypeOK
  <2>2. CASE f = e /\ s = r /\ e \in endpoint_db
    <3>1. user_count'[f] = Released(user_count[f], s, 1)
      BY <1>7, <2>0, <2>2 DEF DestroyHandle, TypeOK
    <3>2. CountOf(f, s)' = IF CountOf(f, s) = 0 THEN 0 ELSE CountOf(f, s) - 1
      BY <3>1, ReleasedCountIn, CountInType DEF CountOf, TypeOK
    <3>3. h \in HandlesNaming(f, s)
      BY <2>0, <2>2 DEF HandlesNaming
    <3> QED
      BY <2>1, <2>2, <3>2, <3>3 DEF CountStep, Loses
  <2>3. CASE ~ (f = e /\ s = r /\ e \in endpoint_db)
    <3>1. h \notin CurrentHandles(f, s)
      BY <2>3 DEF CurrentHandles, HandlesNaming, Locks
    <3>2. CountOf(f, s)' = CountOf(f, s)
      <4>1. CASE f = e /\ e \in endpoint_db
        <5>1. user_count'[f] = Released(user_count[f], r, 1) /\ s # r
          BY <1>7, <2>0, <2>3, <4>1 DEF DestroyHandle, TypeOK
        <5> QED
          BY <5>1, ReleasedCountIn DEF CountOf, TypeOK
      <4>2. CASE ~ (f = e /\ e \in endpoint_db)
        BY <1>7, <4>2 DEF DestroyHandle, CountOf, TypeOK
      <4> QED
        BY <4>1, <4>2
    <3> QED
      BY <2>1, <3>1, <3>2 DEF CountStep, Keeps
  <2> QED
    BY <2>2, <2>3
<1>8. ASSUME NEW h \in HandleId, UseHandle(h)
      PROVE  CountStep(f, s)
  BY <1>8, <1>0 DEF UseHandle, CountStep
<1>9. CASE UNCHANGED vars
  BY <1>9, <1>0 DEF vars, CountStep
<1> QED
  BY <1>1, <1>2, <1>3, <1>4, <1>5, <1>6, <1>7, <1>8, <1>9
  DEF Next, EndpointNext, AgentNext, HandleNext

LEMMA NextCounts ==
  TypeOK /\ HandlesOwned /\ CountNeverOverstates /\ [Next]_vars
    => CountNeverOverstates'
<1> SUFFICES ASSUME TypeOK, HandlesOwned, CountNeverOverstates, [Next]_vars,
                    NEW f \in EndpointName, NEW s \in Requester
             PROVE  CountOf(f, s)' <= Cardinality(CurrentHandles(f, s)')
  BY DEF CountNeverOverstates
<1>0. /\ CountOf(f, s) \in Nat
      /\ CountOf(f, s) <= Cardinality(CurrentHandles(f, s))
      /\ IsFiniteSet(CurrentHandles(f, s))
      /\ Cardinality(CurrentHandles(f, s)) \in Nat
  BY CountBounds, HandleSetsFinite
<1>1. CountStep(f, s)
  BY NextCountStep
<1>2. CASE Keeps(f, s) \/ Forfeits(f, s)
  BY <1>0, <1>2 DEF Keeps, Forfeits
<1>3. CASE Gains(f, s)
  <2> PICK h \in HandleId \ CurrentHandles(f, s) :
        /\ CurrentHandles(f, s)' = CurrentHandles(f, s) \cup {h}
        /\ CountOf(f, s)' = CountOf(f, s) + 1
    BY <1>3 DEF Gains
  <2>1. Cardinality(CurrentHandles(f, s) \cup {h}) = Cardinality(CurrentHandles(f, s)) + 1
    BY <1>0, FS_AddElement
  <2> QED
    BY <1>0, <2>1
<1>4. CASE Loses(f, s)
  <2> PICK h \in HandlesNaming(f, s) :
        /\ CurrentHandles(f, s)' = CurrentHandles(f, s) \ {h}
        /\ CountOf(f, s)' = IF CountOf(f, s) = 0 THEN 0 ELSE CountOf(f, s) - 1
    BY <1>4 DEF Loses
  <2>1. /\ IsFiniteSet(CurrentHandles(f, s) \ {h})
        /\ Cardinality(CurrentHandles(f, s) \ {h}) =
             IF h \in CurrentHandles(f, s) THEN Cardinality(CurrentHandles(f, s)) - 1
                                           ELSE Cardinality(CurrentHandles(f, s))
    BY <1>0, FS_RemoveElement
  <2>2. Cardinality(CurrentHandles(f, s) \ {h}) \in Nat
    BY <2>1, FS_CardinalityType
  <2> QED
    BY <1>0, <2>1, <2>2
<1>5. CASE Resets(f, s)
  BY <1>5, FS_EmptySet DEF Resets
<1> QED
  BY <1>1, <1>2, <1>3, <1>4, <1>5 DEF CountStep

LEMMA Invariance == Spec => []IInv
<1>1. IInv /\ [Next]_vars => IInv'
  BY NextTypeOK, NextHandles, NextCounts DEF IInv
<1> QED
  BY InitIInv, <1>1, PTL DEF Spec

-----------------------------------------------------------------------------
(* The theorems.                                                           *)

\* The user list never overstates: whatever was removed, registered again or
\* released early, a requester's count (Manager::getMavlinkEndpointUserList)
\* is at most the number of its live handles on the current object.
THEOREM NeverOverstates == Spec => []CountNeverOverstates
<1>1. IInv => CountNeverOverstates
  BY DEF IInv
<1> QED
  BY Invariance, <1>1, PTL

\* Manager::removeAgent takes every handle and every count of the agent.
THEOREM RemovalReleasesAll == Spec => []RemovedAgentHoldsNothing
<1>1. IInv => RemovedAgentHoldsNothing
  <2> SUFFICES ASSUME IInv, NEW a \in AgentName \ agents, NEW e \in EndpointName
               PROVE  HandlesNaming(e, a) = {} /\ a \notin DOMAIN user_count[e]
    BY DEF RemovedAgentHoldsNothing
  <2>1. HandlesNaming(e, a) = {}
    BY ManagerAssumption DEF IInv, HandlesOwned, HandlesNaming
  <2>2. CurrentHandles(e, a) = {}
    BY <2>1 DEF CurrentHandles
  <2>3. CountOf(e, a) <= 0 /\ CountOf(e, a) \in Nat
    BY <2>2, CountBounds, FS_EmptySet DEF IInv, Requester
  <2>4. IsCountMap(user_count[e])
    BY DEF IInv, TypeOK
  <2> QED
    BY <2>1, <2>3, <2>4 DEF CountOf, CountIn, IsCountMap
<1> QED
  BY Invariance, <1>1, PTL

\* A handle that found its endpoint gone never works again, whatever is
\* registered under the name later (weak_ptr in MavlinkEndpointUser).
THEOREM GoneForever == Spec => GoneStaysGone
<1>1. IInv /\ IInv' /\ [Next]_vars =>
        [\A h \in HandleId :
           seen[h] = "gone" /\ handle'[h] = handle[h] => seen'[h] = "gone"]_vars
  <2> SUFFICES ASSUME IInv, IInv', Next, NEW h \in HandleId,
                      seen[h] = "gone", handle'[h] = handle[h]
               PROVE  seen'[h] = "gone"
    OBVIOUS
  <2>1. Live(h) /\ ~ Locks(h)
    BY DEF IInv, GoneIsUnlocked, FreeIsUnused
  <2> USE DEF endpointVars, agentVars, handleVars, Live, IInv, TypeOK
  <2>2. ASSUME NEW e \in EndpointName, EndpointNext(e)
        PROVE  seen'[h] = "gone"
    BY <2>1, <2>2
    DEF EndpointNext, addMavlinkEndpoint, connectMavlinkEndpoint,
        disconnectMavlinkEndpoint, removeMavlinkEndpoint,
        removeMavlinkEndpointUser, createMavlinkEndpointUser
  <2>3. ASSUME NEW a \in AgentName, AgentNext(a)
        PROVE  seen'[h] = "gone"
    BY <2>1, <2>3 DEF AgentNext, addAgent, startAgent, stopAgent, AgentProgress, removeAgent
  <2>4. ASSUME NEW g \in HandleId, HandleNext(g)
        PROVE  seen'[h] = "gone"
    BY <2>1, <2>4 DEF HandleNext, DestroyHandle, UseHandle
  <2> QED
    BY <2>2, <2>3, <2>4 DEF Next
<1> QED
  BY Invariance, <1>1, PTL DEF Spec, GoneStaysGone

-----------------------------------------------------------------------------
(* Counts drift on disturbed endpoints only. On the others no handle is     *)
(* stale, so a handle that is destroyed takes its own count.               *)

NoStaleUndisturbed ==
  \A h \in HandleId :
    Live(h) /\ handle[h].endpoint \in endpoint_db \ disturbed => Locks(h)

LEMMA NextNoStale ==
  ASSUME TypeOK, HandlesOwned, NoStaleUndisturbed, [Next]_vars
  PROVE  NoStaleUndisturbed'
<1> USE DEF TypeOK, NoStaleUndisturbed, Live, Locks, HandleRecord,
            endpointVars, agentVars, handleVars
<1>1. ASSUME NEW e \in EndpointName, addMavlinkEndpoint(e)
      PROVE  NoStaleUndisturbed'
  BY <1>1 DEF addMavlinkEndpoint
<1>2. ASSUME NEW e \in EndpointName,
             connectMavlinkEndpoint(e) \/ disconnectMavlinkEndpoint(e)
               \/ removeMavlinkEndpoint(e)
      PROVE  NoStaleUndisturbed'
  BY <1>2 DEF connectMavlinkEndpoint, disconnectMavlinkEndpoint, removeMavlinkEndpoint
<1>3. ASSUME NEW e \in EndpointName, NEW r \in Requester,
             removeMavlinkEndpointUser(e, r)
      PROVE  NoStaleUndisturbed'
  BY <1>3 DEF removeMavlinkEndpointUser
<1>4. ASSUME NEW e \in EndpointName, NEW r \in Requester, NEW h \in HandleId,
             createMavlinkEndpointUser(e, r, h)
      PROVE  NoStaleUndisturbed'
  BY <1>4 DEF createMavlinkEndpointUser
<1>5. ASSUME NEW a \in AgentName, AgentNext(a)
      PROVE  NoStaleUndisturbed'
  BY <1>5 DEF AgentNext, addAgent, startAgent, stopAgent, AgentProgress, removeAgent
<1>6. ASSUME NEW h \in HandleId, HandleNext(h)
      PROVE  NoStaleUndisturbed'
  BY <1>6 DEF HandleNext, DestroyHandle, UseHandle
<1>7. CASE UNCHANGED vars
  BY <1>7 DEF vars
<1> QED
  BY <1>1, <1>2, <1>3, <1>4, <1>5, <1>6, <1>7 DEF Next, EndpointNext

\* An endpoint that stops being disturbed was removed: its count is reset.
LEMMA DisturbedUntilRemoved ==
  ASSUME TypeOK, TypeOK', [Next]_vars, NEW f \in EndpointName, NEW s \in Requester,
         f \in disturbed, f \notin disturbed'
  PROVE  CountOf(f, s)' = 0 /\ CurrentHandles(f, s)' = {}
<1>1. f \notin endpoint_db'
  <2> USE DEF TypeOK, endpointVars, agentVars, handleVars
  <2>1. ASSUME NEW e \in EndpointName, EndpointNext(e)
        PROVE  f \notin endpoint_db'
    BY <2>1
    DEF EndpointNext, addMavlinkEndpoint, connectMavlinkEndpoint, disconnectMavlinkEndpoint,
        removeMavlinkEndpoint, removeMavlinkEndpointUser, createMavlinkEndpointUser
  <2>2. ASSUME NEW a \in AgentName, AgentNext(a)
        PROVE  f \notin endpoint_db'
    BY <2>2 DEF AgentNext, addAgent, startAgent, stopAgent, AgentProgress, removeAgent
  <2>3. ASSUME NEW h \in HandleId, HandleNext(h)
        PROVE  f \notin endpoint_db'
    BY <2>3 DEF HandleNext, DestroyHandle, UseHandle
  <2>4. CASE UNCHANGED vars
    BY <2>4 DEF vars
  <2> QED
    BY <2>1, <2>2, <2>3, <2>4 DEF Next
<1>2. user_count'[f] = NoUsers
  BY <1>1 DEF TypeOK
<1> QED
  BY <1>1, <1>2, NoUsersCounts DEF CountOf, CurrentHandles, HandlesNaming, Locks

LEMMA NextExact ==
  ASSUME IInv, NoStaleUndisturbed, CountsAreExact, [Next]_vars
  PROVE  CountsAreExact'
<1> SUFFICES ASSUME NEW f \in EndpointName, f \notin disturbed', NEW s \in Requester
             PROVE  CountOf(f, s)' = Cardinality(CurrentHandles(f, s)')
  BY DEF CountsAreExact
<1>0. TypeOK /\ TypeOK' /\ HandlesOwned /\ CountNeverOverstates
  BY NextTypeOK DEF IInv
<1>1. CASE f \in disturbed
  BY <1>0, <1>1, DisturbedUntilRemoved, FS_EmptySet
<1>2. CASE f \notin disturbed
  <2>0. /\ CountOf(f, s) = Cardinality(CurrentHandles(f, s))
        /\ CountOf(f, s) \in Nat
        /\ IsFiniteSet(CurrentHandles(f, s))
    BY <1>0, <1>2, CountBounds, HandleSetsFinite DEF CountsAreExact
  <2>1. CountStep(f, s) /\ ~ Forfeits(f, s)
    BY <1>0, NextCountStep DEF Forfeits
  <2>2. CASE Keeps(f, s)
    BY <2>0, <2>2 DEF Keeps
  <2>3. CASE Gains(f, s)
    <3> PICK h \in HandleId \ CurrentHandles(f, s) :
          /\ CurrentHandles(f, s)' = CurrentHandles(f, s) \cup {h}
          /\ CountOf(f, s)' = CountOf(f, s) + 1
      BY <2>3 DEF Gains
    <3>1. Cardinality(CurrentHandles(f, s) \cup {h}) = Cardinality(CurrentHandles(f, s)) + 1
      BY <2>0, FS_AddElement
    <3> QED
      BY <2>0, <3>1
  <2>4. CASE Loses(f, s)
    <3> PICK h \in HandlesNaming(f, s) :
          /\ f \in endpoint_db
          /\ CurrentHandles(f, s)' = CurrentHandles(f, s) \ {h}
          /\ CountOf(f, s)' = IF CountOf(f, s) = 0 THEN 0 ELSE CountOf(f, s) - 1
      BY <2>4 DEF Loses
    <3>1. h \in CurrentHandles(f, s)
      BY <1>2 DEF CurrentHandles, HandlesNaming, NoStaleUndisturbed
    <3>2. CountOf(f, s) # 0
      BY <2>0, <3>1, FS_EmptySet
    <3>3. Cardinality(CurrentHandles(f, s) \ {h}) = Cardinality(CurrentHandles(f, s)) - 1
      BY <2>0, <3>1, FS_RemoveElement
    <3> QED
      BY <2>0, <3>2, <3>3
  <2>5. CASE Resets(f, s)
    BY <2>5, FS_EmptySet DEF Resets
  <2> QED
    BY <2>1, <2>2, <2>3, <2>4, <2>5 DEF CountStep
<1> QED
  BY <1>1, <1>2

LEMMA ExactInvariance == Spec => [](NoStaleUndisturbed /\ CountsAreExact)
<1>1. Init => NoStaleUndisturbed /\ CountsAreExact
  <2> SUFFICES ASSUME Init PROVE NoStaleUndisturbed /\ CountsAreExact
    OBVIOUS
  <2>1. NoStaleUndisturbed
    BY DEF Init, NoStaleUndisturbed
  <2>2. ASSUME NEW e \in EndpointName, NEW r \in Requester
        PROVE  CountOf(e, r) = 0 /\ CurrentHandles(e, r) = {}
    BY NoUsersCounts DEF Init, CountOf, CurrentHandles, HandlesNaming, Live
  <2> QED
    BY <2>1, <2>2, FS_EmptySet DEF CountsAreExact
<1>2. IInv /\ NoStaleUndisturbed /\ CountsAreExact /\ [Next]_vars
        => NoStaleUndisturbed' /\ CountsAreExact'
  BY NextNoStale, NextExact DEF IInv
<1> QED
  BY Invariance, <1>1, <1>2, PTL DEF Spec

\* getMavlinkEndpointUserList is exact on every endpoint that was not itself
\* registered under a live handle or released by hand: the count of a
\* requester is the number of handles it holds on the endpoint, and drift
\* never spreads to another endpoint.
THEOREM ExactUndisturbed == Spec => []CountsAreExact
BY ExactInvariance, PTL

\* A handle on a registered endpoint that neither of the two drifting usages
\* has touched works, and its requester is listed: what the finding about
\* stale releases leaves of LiveHandleIsListed.
ListedUnlessDisturbed ==
  \A h \in HandleId :
    Live(h) /\ handle[h].endpoint \in endpoint_db \ disturbed =>
      Locks(h) /\ CountOf(handle[h].endpoint, handle[h].user) >= 1

\* A user of an endpoint goes unlisted only where an old handle was released
\* on a name registered again, or a count by hand (Manager.cpp).
THEOREM OnlyDriftHidesUsers == Spec => []ListedUnlessDisturbed
<1>1. TypeOK /\ NoStaleUndisturbed /\ CountsAreExact => ListedUnlessDisturbed
  <2> SUFFICES ASSUME TypeOK, NoStaleUndisturbed, CountsAreExact,
                      NEW h \in HandleId, Live(h), handle[h].endpoint \in endpoint_db \ disturbed
               PROVE  Locks(h) /\ CountOf(handle[h].endpoint, handle[h].user) >= 1
    BY DEF ListedUnlessDisturbed
  <2> DEFINE e == handle[h].endpoint
             r == handle[h].user
  <2>1. e \in EndpointName /\ r \in Requester
    BY DEF TypeOK, Live, HandleRecord
  <2>2. Locks(h)
    BY DEF NoStaleUndisturbed
  <2>3. h \in CurrentHandles(e, r)
    BY <2>2 DEF CurrentHandles, HandlesNaming
  <2>4. IsFiniteSet(CurrentHandles(e, r))
    BY HandleSetsFinite
  <2>5. Cardinality(CurrentHandles(e, r)) \in Nat /\ Cardinality(CurrentHandles(e, r)) # 0
    BY <2>3, <2>4, FS_EmptySet, FS_CardinalityType
  <2>6. CountOf(e, r) = Cardinality(CurrentHandles(e, r))
    BY <2>1 DEF CountsAreExact
  <2> QED
    BY <2>2, <2>5, <2>6
<1> QED
  BY <1>1, TypeCorrect, ExactInvariance, PTL
=============================================================================
