------------------------ MODULE PlanExecution_proofs ------------------------
(***************************************************************************)
(* Proofs about PlanExecution, for any names, handles and plans.           *)
(***************************************************************************)
EXTENDS PlanExecution, Manager_proofs

\* No plan has been executed: nothing is registered that was not before.
NoPlanYet ==
  executing_plan = None =>
    /\ todo_endpoints = {} /\ todo_agents = {} /\ added = None
    /\ endpoint_db = before.endpoint_db /\ agents = before.agents

\* Validation found the entries that are good by the plan and by what was
\* registered when it was called.
ValidIsGood ==
  executing_plan # None =>
    valid_endpoints = GoodEndpoints /\ valid_agents = GoodAgents

\* What is registered is what was there before and good entries, none of them
\* if the plan is discarded.
OnlyGoodAdded ==
  executing_plan # None =>
    /\ before.endpoint_db \subseteq endpoint_db
    /\ endpoint_db \subseteq before.endpoint_db \cup valid_endpoints
    /\ before.agents \subseteq agents
    /\ agents \subseteq before.agents \cup valid_agents
    /\ DiscardPlan => endpoint_db = before.endpoint_db /\ agents = before.agents

\* The endpoint loop leaves no valid entry behind, and agents come after it.
LoopsInOrder ==
  /\ executing_plan # None =>
       (DiscardPlan \/ valid_endpoints \ todo_endpoints \subseteq endpoint_db)
  /\ agents # before.agents => todo_endpoints = {}

\* An entry between its two calls into the Manager is a valid one that this
\* plan has registered.
AddedIsValid ==
  added # None =>
    /\ executing_plan # None
    /\ ~ DiscardPlan
    /\ added \in todo_endpoints => added \in valid_endpoints
    /\ todo_endpoints = {} /\ added \in todo_agents => added \in valid_agents

PInv == NoPlanYet /\ ValidIsGood /\ OnlyGoodAdded /\ LoopsInOrder /\ AddedIsValid

-----------------------------------------------------------------------------
(* What the calls do to the registered names.                              *)

\* An agent's own steps register and remove nothing.
LEMMA AgentsRegisterNothing ==
  ASSUME NEW a \in AgentName, AgentActs(a)
  PROVE  endpoint_db' = endpoint_db /\ agents' = agents
  BY DEF AgentActs, AgentProgress, createMavlinkEndpointUser, HandleNext, DestroyHandle,
         UseHandle, endpointVars, agentVars

\* A step that leaves the plan, its validation and the names alone, and
\* finishes or remembers no entry, keeps the invariant.
LEMMA UnchangedKeeps ==
  ASSUME PInv, UNCHANGED planVars, endpoint_db' = endpoint_db, agents' = agents
  PROVE  PInv'
  BY DEF PInv, NoPlanYet, ValidIsGood, OnlyGoodAdded, LoopsInOrder, AddedIsValid, DiscardPlan,
         GoodEndpoints, GoodAgents, PlannedEndpoints, PlannedAgents, planVars

\* The endpoint loop keeps the invariant.
LEMMA EndpointStepKeeps ==
  ASSUME PInv, NEW e \in EndpointName,
         RefuseEndpoint(e) \/ AddPlanEndpoint(e) \/ ConnectPlanEndpoint(e)
  PROVE  PInv'
<1> USE DEF PInv, NoPlanYet, ValidIsGood, OnlyGoodAdded, LoopsInOrder, AddedIsValid
<1>1. /\ executing_plan # None /\ executing_plan' = executing_plan /\ before' = before
      /\ valid_endpoints' = valid_endpoints /\ valid_agents' = valid_agents
      /\ agents' = agents /\ todo_agents' = todo_agents
      /\ agents = before.agents
  BY DEF RefuseEndpoint, AddPlanEndpoint, ConnectPlanEndpoint, ReportEndpoint, RememberAdded,
         vars, addMavlinkEndpoint, connectMavlinkEndpoint, agentVars
<1>2. /\ DiscardPlan' = DiscardPlan
      /\ GoodEndpoints' = GoodEndpoints /\ GoodAgents' = GoodAgents
  BY <1>1 DEF DiscardPlan, GoodEndpoints, GoodAgents, PlannedEndpoints, PlannedAgents
<1>3. CASE RefuseEndpoint(e)
  <2>1. endpoint_db' = endpoint_db /\ todo_endpoints' = todo_endpoints \ {e} /\ added' = None
    BY <1>3 DEF RefuseEndpoint, ReportEndpoint, vars
  <2> QED
    BY <1>1, <1>2, <1>3, <2>1 DEF RefuseEndpoint
<1>4. CASE AddPlanEndpoint(e)
  <2>1. /\ endpoint_db' = endpoint_db \cup {e}
        /\ \/ todo_endpoints' = todo_endpoints \ {e} /\ added' = None
           \/ todo_endpoints' = todo_endpoints /\ added' = e
        /\ e \in todo_endpoints /\ e \in valid_endpoints /\ ~ DiscardPlan
    BY <1>4 DEF AddPlanEndpoint, ReportEndpoint, RememberAdded, addMavlinkEndpoint, vars
  <2> QED
    BY <1>1, <1>2, <2>1
<1>5. CASE ConnectPlanEndpoint(e)
  <2>1. /\ endpoint_db' = endpoint_db
        /\ todo_endpoints' = todo_endpoints \ {e} /\ added' = None
        /\ e \in endpoint_db
    BY <1>5 DEF ConnectPlanEndpoint, ReportEndpoint, connectMavlinkEndpoint
  <2> QED
    BY <1>1, <1>2, <2>1
<1> QED
  BY <1>3, <1>4, <1>5

\* The agent loop keeps the invariant.
LEMMA AgentStepKeeps ==
  ASSUME PInv, NEW a \in AgentName,
         RefuseAgent(a) \/ AddPlanAgent(a) \/ StartPlanAgent(a)
  PROVE  PInv'
<1> USE DEF PInv, NoPlanYet, ValidIsGood, OnlyGoodAdded, LoopsInOrder, AddedIsValid
<1>1. /\ executing_plan # None /\ executing_plan' = executing_plan /\ before' = before
      /\ valid_endpoints' = valid_endpoints /\ valid_agents' = valid_agents
      /\ endpoint_db' = endpoint_db
      /\ todo_endpoints = {} /\ todo_endpoints' = {} /\ a \in todo_agents
  BY DEF RefuseAgent, AddPlanAgent, StartPlanAgent, AgentTurn, ReportAgent, RememberAdded,
         vars, addAgent, startAgent, endpointVars
<1>2. /\ DiscardPlan' = DiscardPlan
      /\ GoodEndpoints' = GoodEndpoints /\ GoodAgents' = GoodAgents
  BY <1>1 DEF DiscardPlan, GoodEndpoints, GoodAgents, PlannedEndpoints, PlannedAgents
<1>3. CASE RefuseAgent(a)
  <2>1. agents' = agents /\ added' = None
    BY <1>3 DEF RefuseAgent, ReportAgent, vars
  <2> QED
    BY <1>1, <1>2, <2>1
<1>4. CASE AddPlanAgent(a)
  <2>1. /\ \/ agents' = agents /\ added' = None
           \/ agents' = agents \cup {a} /\ (added' = None \/ added' = a)
        /\ a \in valid_agents /\ ~ DiscardPlan
    BY <1>4 DEF AddPlanAgent, ReportAgent, RememberAdded, addAgent, vars
  <2> QED
    BY <1>1, <1>2, <2>1
<1>5. CASE StartPlanAgent(a)
  <2>1. agents' = agents /\ added' = None
    BY <1>5 DEF StartPlanAgent, ReportAgent, startAgent, vars
  <2> QED
    BY <1>1, <1>2, <2>1
<1> QED
  BY <1>3, <1>4, <1>5

\* A new plan starts from what is registered now.
LEMMA BeginKeeps ==
  ASSUME PInv, NEW p \in SubmittedPlan, BeginPlan(p)
  PROVE  PInv'
<1>1. /\ executing_plan' = p /\ p # None
      /\ valid_endpoints' = ValidEndpoints(p) /\ valid_agents' = ValidAgents(p)
      /\ todo_endpoints' = DOMAIN p.endpoint_list /\ todo_agents' = DOMAIN p.agent_list
      /\ added' = None
      /\ before'.endpoint_db = endpoint_db /\ before'.agents = agents
      /\ endpoint_db' = endpoint_db /\ agents' = agents
  BY PlanAssumption DEF BeginPlan, vars
<1>2. /\ GoodEndpoints' = valid_endpoints' /\ GoodAgents' = valid_agents'
      /\ valid_endpoints' \subseteq todo_endpoints'
  BY <1>1 DEF GoodEndpoints, GoodAgents, ValidEndpoints, ValidAgents, PlannedEndpoints,
              PlannedAgents
<1> QED
  BY <1>1, <1>2 DEF PInv, NoPlanYet, ValidIsGood, OnlyGoodAdded, LoopsInOrder, AddedIsValid

LEMMA PlanInvariant == PlanSpec => []PInv
<1>1. PlanInit => PInv
  BY DEF PlanInit, Init, NoNames, PInv, NoPlanYet, ValidIsGood, OnlyGoodAdded, LoopsInOrder,
         AddedIsValid
<1>2. PInv /\ [PlanNext]_allVars => PInv'
  <2> SUFFICES ASSUME PInv, [PlanNext]_allVars PROVE PInv'
    OBVIOUS
  <2>1. ASSUME NEW p \in SubmittedPlan, BeginPlan(p) PROVE PInv'
    BY <2>1, BeginKeeps
  <2>2. CASE PlanSteps
    BY <2>2, EndpointStepKeeps, AgentStepKeeps DEF PlanSteps, EndpointLoop, AgentLoop
  <2>3. ASSUME NEW a \in AgentName, AgentActs(a) PROVE PInv'
    <3>1. UNCHANGED planVars
      BY <2>3 DEF AgentActs
    <3> QED
      BY <2>3, <3>1, AgentsRegisterNothing, UnchangedKeeps
  <2>4. CASE UNCHANGED allVars
    <3>1. UNCHANGED planVars /\ endpoint_db' = endpoint_db /\ agents' = agents
      BY <2>4 DEF allVars, vars
    <3> QED
      BY <3>1, UnchangedKeeps
  <2> QED
    BY <2>1, <2>2, <2>3, <2>4 DEF PlanNext
<1> QED
  BY <1>1, <1>2, PTL DEF PlanSpec

-----------------------------------------------------------------------------
(* Theorems.                                                               *)

\* A DISCARD plan with a bad entry registers nothing, for any number of
\* names and entries (Manager::executePlan's first two loops).
THEOREM DiscardRegistersNothing == PlanSpec => []DiscardIsAllOrNothing
<1>1. PInv => DiscardIsAllOrNothing
  BY DEF PInv, ValidIsGood, OnlyGoodAdded, DiscardPlan, DiscardIsAllOrNothing, AllGood,
         PlannedEndpoints, PlannedAgents
<1> QED
  BY <1>1, PlanInvariant, PTL

\* A plan that is not refused registers exactly its good endpoints and only
\* good agents (Manager::executePlan).
THEOREM GoodEntriesApplied == PlanSpec => []GoodEntriesAreApplied
<1>1. PInv => GoodEntriesAreApplied
  BY DEF PInv, ValidIsGood, OnlyGoodAdded, LoopsInOrder, DiscardPlan, GoodEntriesAreApplied,
         AllGood, PlannedEndpoints, PlannedAgents, Executing
<1> QED
  BY <1>1, PlanInvariant, PTL

\* No agent of a plan exists before its endpoints are there (the order of the
\* two loops of Manager::executePlan).
THEOREM EndpointsFirst == PlanSpec => []EndpointsSettleFirst
<1>1. PInv => EndpointsSettleFirst
  BY DEF PInv, NoPlanYet, ValidIsGood, OnlyGoodAdded, LoopsInOrder, EndpointsSettleFirst
<1> QED
  BY <1>1, PlanInvariant, PTL

\* Whatever plans are executed, and whatever the agents do meanwhile, the
\* Manager goes through its own operations only: all that holds of them holds
\* of executePlan.
THEOREM PlanIsManagerCalls == PlanSpec => Spec
<1>1. PlanInit => Init
  BY DEF PlanInit
<1>2. [PlanNext]_allVars => [Next]_vars
  <2> SUFFICES ASSUME PlanNext PROVE Next \/ UNCHANGED vars
    BY DEF allVars
  <2>1. ASSUME NEW p \in SubmittedPlan, BeginPlan(p) PROVE UNCHANGED vars
    BY <2>1 DEF BeginPlan
  <2>2. ASSUME NEW e \in EndpointName,
               RefuseEndpoint(e) \/ AddPlanEndpoint(e) \/ ConnectPlanEndpoint(e)
        PROVE  Next \/ UNCHANGED vars
    BY <2>2 DEF RefuseEndpoint, AddPlanEndpoint, ConnectPlanEndpoint, Next, EndpointNext
  <2>3. ASSUME NEW a \in AgentName,
               RefuseAgent(a) \/ AddPlanAgent(a) \/ StartPlanAgent(a)
        PROVE  Next \/ UNCHANGED vars
    BY <2>3 DEF RefuseAgent, AddPlanAgent, StartPlanAgent, Next, AgentNext
  <2>4. ASSUME NEW a \in AgentName, AgentActs(a) PROVE Next
    BY <2>4 DEF AgentActs, Next, AgentNext, EndpointNext, Requester
  <2> QED
    BY <2>1, <2>2, <2>3, <2>4 DEF PlanNext, PlanSteps, EndpointLoop, AgentLoop
<1> QED
  BY <1>1, <1>2, PTL DEF PlanSpec, Spec

\* A plan changes no connection and no agent that was there before it.
THEOREM PlanLeavesOthersAlone == PlanSpec => ExistingUntouched
<1> DEFINE Untouched ==
             /\ \A e \in before.endpoint_db :
                  generation'[e] = generation[e] /\ link'[e] = link[e]
             /\ \A a \in before.agents : agent_state'[a] = agent_state[a]
<1>1. PlanSpec => []TypeOK
  BY PlanIsManagerCalls, TypeCorrect, PTL
<1>2. ASSUME PInv, TypeOK, PlanSteps PROVE Untouched
  <2> USE DEF PInv, ValidIsGood, OnlyGoodAdded, NoPlanYet
  <2>1. executing_plan # None
    BY <1>2 DEF PlanSteps, EndpointLoop, AgentLoop, RefuseEndpoint, AddPlanEndpoint,
                ConnectPlanEndpoint, RefuseAgent, AddPlanAgent, StartPlanAgent, AgentTurn
  <2>2. /\ before.endpoint_db \subseteq EndpointName /\ before.agents \subseteq AgentName
        /\ DOMAIN generation = EndpointName /\ DOMAIN link = EndpointName
        /\ DOMAIN agent_state = AgentName
    BY <1>2, <2>1 DEF TypeOK
  <2>3. ASSUME NEW e \in EndpointName,
               RefuseEndpoint(e) \/ AddPlanEndpoint(e) \/ ConnectPlanEndpoint(e)
        PROVE  Untouched
    <3>1. agent_state' = agent_state
      BY <2>3 DEF RefuseEndpoint, AddPlanEndpoint, ConnectPlanEndpoint, addMavlinkEndpoint,
                  connectMavlinkEndpoint, agentVars, vars
    <3>2. CASE RefuseEndpoint(e) \/ UNCHANGED vars
      BY <3>2 DEF RefuseEndpoint, vars
    <3>3. CASE e \notin before.endpoint_db
      <4>1. /\ generation' = generation \/ generation' = [generation EXCEPT ![e] = @ + 1]
            /\ link' = link \/ \E s \in LinkState : link' = [link EXCEPT ![e] = s]
        BY <2>3 DEF RefuseEndpoint, AddPlanEndpoint, ConnectPlanEndpoint, addMavlinkEndpoint,
                    connectMavlinkEndpoint, vars, LinkState
      <4> QED
        BY <2>2, <3>1, <3>3, <4>1
    <3>4. ASSUME ~ RefuseEndpoint(e) PROVE e \notin before.endpoint_db
      BY <1>2, <2>1, <2>3, <3>4, PlanAssumption
         DEF AddPlanEndpoint, ConnectPlanEndpoint, AddedIsValid, GoodEndpoints
    <3> QED
      BY <3>2, <3>3, <3>4
  <2>4. ASSUME NEW a \in AgentName,
               RefuseAgent(a) \/ AddPlanAgent(a) \/ StartPlanAgent(a)
        PROVE  Untouched
    <3>1. generation' = generation /\ link' = link
      BY <2>4 DEF RefuseAgent, AddPlanAgent, StartPlanAgent, addAgent, startAgent,
                  endpointVars, vars
    <3>2. CASE RefuseAgent(a)
      BY <3>2 DEF RefuseAgent, vars
    <3>3. CASE a \notin before.agents
      <4>1. \/ agent_state' = agent_state
            \/ \E s \in AgentState : agent_state' = [agent_state EXCEPT ![a] = s]
        BY <2>4 DEF RefuseAgent, AddPlanAgent, StartPlanAgent, addAgent, startAgent, vars,
                    AgentState
      <4> QED
        BY <2>2, <3>1, <3>3, <4>1
    <3>4. ASSUME ~ RefuseAgent(a) PROVE a \notin before.agents
      BY <1>2, <2>1, <2>4, <3>4, PlanAssumption
         DEF AddPlanAgent, StartPlanAgent, AgentTurn, AddedIsValid, GoodAgents
    <3> QED
      BY <3>2, <3>3, <3>4
  <2> QED
    BY <1>2, <2>3, <2>4 DEF PlanSteps, EndpointLoop, AgentLoop
<1> QED
  BY <1>1, <1>2, PlanInvariant, PTL DEF PlanSpec, ExistingUntouched

-----------------------------------------------------------------------------
(* What the loops report.                                                  *)

\* The entry between its two calls is the one whose name is registered while
\* it is still to be reported, and the second call is due.
PendingIsAdded ==
  /\ \A e \in todo_endpoints : e \in endpoint_db \ before.endpoint_db => added = e
  /\ \A a \in todo_agents : a \in agents \ before.agents => added = a
  /\ added # None /\ todo_endpoints # {} =>
       added \in todo_endpoints /\ executing_plan.endpoint_list[added].connect_on_create
  /\ added # None /\ todo_endpoints = {} =>
       added \in todo_agents /\ executing_plan.agent_list[added].start_on_create

RInv == PlanTypeOK /\ PendingIsAdded /\ ReportTellsTruth

\* A plan step leaves the plan and what was there before it alone.
LEMMA PlanStays ==
  ASSUME PInv, PlanSteps
  PROVE  /\ executing_plan # None
         /\ executing_plan' = executing_plan
         /\ before' = before
         /\ valid_endpoints' = valid_endpoints
         /\ valid_agents' = valid_agents
  BY DEF PInv, NoPlanYet, PlanSteps, EndpointLoop, AgentLoop, RefuseEndpoint, AddPlanEndpoint,
         ConnectPlanEndpoint, RefuseAgent, AddPlanAgent, StartPlanAgent, AgentTurn,
         ReportEndpoint, ReportAgent, RememberAdded

\* The endpoint loop reports the truth.
LEMMA EndpointStepReports ==
  ASSUME PInv, TypeOK, RInv, NEW e \in EndpointName,
         RefuseEndpoint(e) \/ AddPlanEndpoint(e) \/ ConnectPlanEndpoint(e)
  PROVE  RInv'
<1>1. /\ executing_plan # None /\ executing_plan' = executing_plan
      /\ before' = before /\ valid_endpoints' = valid_endpoints
      /\ valid_agents' = valid_agents
  BY PlanStays DEF PlanSteps, EndpointLoop
<1>2. /\ agents' = agents /\ agents = before.agents /\ todo_agents' = todo_agents
      /\ agent_plan_result' = agent_plan_result
      /\ e \in todo_endpoints /\ e \in PlannedEndpoints
  BY <1>1 DEF PInv, LoopsInOrder, RInv, PlanTypeOK, RefuseEndpoint, AddPlanEndpoint,
         ConnectPlanEndpoint, ReportEndpoint, RememberAdded, vars, addMavlinkEndpoint,
         connectMavlinkEndpoint, agentVars
<1>3. PlannedEndpoints' = PlannedEndpoints /\ PlannedAgents' = PlannedAgents
  BY <1>1 DEF PlannedEndpoints, PlannedAgents
<1>4. link \in [EndpointName -> LinkState] /\ endpoint_db \subseteq EndpointName
  BY DEF TypeOK
<1>5. /\ valid_endpoints = GoodEndpoints
      /\ e \in valid_endpoints => e \notin before.endpoint_db
      /\ before.endpoint_db \subseteq endpoint_db
      /\ endpoint_db \subseteq before.endpoint_db \cup valid_endpoints
      /\ DiscardPlan => endpoint_db = before.endpoint_db
  BY <1>1 DEF PInv, ValidIsGood, OnlyGoodAdded, GoodEndpoints
\* e is reported: true if the flag is what became of it.
<1>6. ASSUME NEW flag \in BOOLEAN, ReportEndpoint(e, flag),
             endpoint_db' = endpoint_db, added \in {None, e},
             link' = link \/ \E s \in LinkState : link' = [link EXCEPT ![e] = s],
             IF flag THEN /\ e \in endpoint_db \ before.endpoint_db
                          /\ executing_plan.endpoint_list[e].connect_on_create =>
                               link'[e] = "CONNECTED"
             ELSE e \in endpoint_db \ before.endpoint_db =>
                    executing_plan.endpoint_list[e].connect_on_create /\ link'[e] # "CONNECTED"
      PROVE  RInv'
  <2>1. /\ todo_endpoints' = todo_endpoints \ {e} /\ added' = None
        /\ endpoint_plan_result' =
             [x \in DOMAIN endpoint_plan_result \cup {e} |->
                IF x = e THEN flag ELSE endpoint_plan_result[x]]
    BY <1>6 DEF ReportEndpoint
  <2>2. PlanTypeOK'
    BY <1>1, <1>2, <1>3, <1>6, <2>1 DEF RInv, PlanTypeOK
  <2>3. PendingIsAdded'
    BY <1>1, <1>2, <1>6, <2>1, PlanAssumption DEF RInv, PendingIsAdded, PlanTypeOK
  <2>4. DOMAIN endpoint_plan_result = PlannedEndpoints \ todo_endpoints
    BY <1>1 DEF RInv, PlanTypeOK
  <2>5. \A x \in DOMAIN endpoint_plan_result : x # e /\ link'[x] = link[x]
    <3>1. \A x \in DOMAIN endpoint_plan_result : x # e
      BY <1>2, <2>4
    <3>2. DOMAIN endpoint_plan_result \subseteq EndpointName
      BY <1>1, <2>4 DEF RInv, PlanTypeOK, PlannedEndpoints, UserPlan, PartialMaps
    <3> QED
      BY <3>1, <3>2, <1>4, <1>6
  <2>6. ReportTellsTruth'
    BY <1>1, <1>2, <1>6, <2>1, <2>5 DEF RInv, ReportTellsTruth
  <2> QED
    BY <2>2, <2>3, <2>6 DEF RInv
<1>7. CASE RefuseEndpoint(e)
  <2>1. ReportEndpoint(e, FALSE) /\ UNCHANGED vars /\ added = None
    BY <1>7 DEF RefuseEndpoint
  <2>2. endpoint_db' = endpoint_db /\ link' = link /\ e \notin endpoint_db \ before.endpoint_db
    BY <1>5, <1>7, <2>1 DEF RefuseEndpoint, vars
  <2> QED
    BY <1>6, <2>1, <2>2
<1>8. CASE AddPlanEndpoint(e)
  <2>1. CASE e \in endpoint_db
    <3>1. ReportEndpoint(e, FALSE) /\ UNCHANGED vars /\ added = None
      BY <1>8, <2>1 DEF AddPlanEndpoint
    <3>2. e \notin endpoint_db \ before.endpoint_db
      BY <1>2, <3>1, PlanAssumption DEF RInv, PendingIsAdded
    <3>3. endpoint_db' = endpoint_db /\ link' = link
      BY <3>1 DEF vars
    <3> QED
      BY <1>6, <3>1, <3>2, <3>3
  <2>2. CASE e \notin endpoint_db
    <3>1. /\ endpoint_db' = endpoint_db \cup {e}
          /\ link' = [link EXCEPT ![e] = "DISCONNECTED"]
          /\ added = None /\ e \in valid_endpoints
      BY <1>8, <2>2 DEF AddPlanEndpoint, addMavlinkEndpoint
    <3>2. e \notin before.endpoint_db
      BY <1>5, <3>1
    <3>3. DOMAIN endpoint_plan_result = PlannedEndpoints \ todo_endpoints
      BY <1>1 DEF RInv, PlanTypeOK
    <3>4. \A x \in DOMAIN endpoint_plan_result : x # e /\ link'[x] = link[x]
      BY <1>2, <1>4, <3>1, <3>3
    <3>5. CASE executing_plan.endpoint_list[e].connect_on_create
      <4>1. /\ added' = e /\ todo_endpoints' = todo_endpoints
            /\ endpoint_plan_result' = endpoint_plan_result
        BY <1>8, <2>2, <3>5 DEF AddPlanEndpoint, RememberAdded
      <4>2. PlanTypeOK'
        BY <1>1, <1>2, <1>3, <3>1, <4>1 DEF RInv, PlanTypeOK
      <4>3. PendingIsAdded'
        <5>1. \A x \in todo_endpoints : x \in endpoint_db \ before.endpoint_db => FALSE
          BY <1>1, <1>4, <3>1, PlanAssumption DEF RInv, PendingIsAdded
        <5>2. todo_endpoints' # {} /\ before' = before /\ endpoint_db' = endpoint_db \cup {e}
          BY <1>1, <1>2, <3>1, <4>1
        <5> QED
          BY <1>1, <1>2, <3>5, <4>1, <5>1, <5>2 DEF PendingIsAdded
      <4>4. ReportTellsTruth'
        BY <1>1, <1>2, <3>1, <3>4, <4>1 DEF RInv, ReportTellsTruth
      <4> QED
        BY <4>2, <4>3, <4>4 DEF RInv
    <3>6. CASE ~ executing_plan.endpoint_list[e].connect_on_create
      <4>1. /\ todo_endpoints' = todo_endpoints \ {e} /\ added' = None
            /\ endpoint_plan_result' =
                 [x \in DOMAIN endpoint_plan_result \cup {e} |->
                    IF x = e THEN TRUE ELSE endpoint_plan_result[x]]
        BY <1>8, <2>2, <3>6 DEF AddPlanEndpoint, ReportEndpoint
      <4>2. PlanTypeOK'
        BY <1>1, <1>2, <1>3, <3>1, <4>1 DEF RInv, PlanTypeOK
      <4>3. PendingIsAdded'
        BY <1>1, <1>2, <3>1, <4>1 DEF RInv, PendingIsAdded
      <4>4. ReportTellsTruth'
        BY <1>1, <1>2, <3>1, <3>2, <3>4, <3>6, <4>1 DEF RInv, ReportTellsTruth
      <4> QED
        BY <4>2, <4>3, <4>4 DEF RInv
    <3> QED
      BY <3>5, <3>6
  <2> QED
    BY <2>1, <2>2
<1>9. CASE ConnectPlanEndpoint(e)
  <2>1. /\ added = e /\ ReportEndpoint(e, link'[e] = "CONNECTED")
        /\ e \in endpoint_db /\ endpoint_db' = endpoint_db
        /\ \E s \in LinkState : link' = [link EXCEPT ![e] = s]
    BY <1>9 DEF ConnectPlanEndpoint, connectMavlinkEndpoint
  <2>2. /\ e \in endpoint_db \ before.endpoint_db
        /\ executing_plan.endpoint_list[e].connect_on_create
    BY <1>2, <1>5, <2>1, PlanAssumption DEF PInv, AddedIsValid, RInv, PendingIsAdded
  <2>3. CASE link'[e] = "CONNECTED"
    BY <1>6, <2>1, <2>2, <2>3
  <2>4. CASE link'[e] # "CONNECTED"
    BY <1>6, <2>1, <2>2, <2>4
  <2> QED
    BY <2>3, <2>4
<1> QED
  BY <1>7, <1>8, <1>9

\* The agent loop reports the truth.
LEMMA AgentStepReports ==
  ASSUME PInv, TypeOK, RInv, NEW a \in AgentName,
         RefuseAgent(a) \/ AddPlanAgent(a) \/ StartPlanAgent(a)
  PROVE  RInv'
<1>1. /\ executing_plan # None /\ executing_plan' = executing_plan
      /\ before' = before /\ valid_endpoints' = valid_endpoints
      /\ valid_agents' = valid_agents
  BY PlanStays DEF PlanSteps, AgentLoop
<1>2. /\ endpoint_db' = endpoint_db /\ link' = link
      /\ endpoint_plan_result' = endpoint_plan_result
      /\ todo_endpoints = {} /\ todo_endpoints' = {}
      /\ a \in todo_agents /\ a \in PlannedAgents
  BY <1>1 DEF RInv, PlanTypeOK, RefuseAgent, AddPlanAgent, StartPlanAgent, AgentTurn,
         ReportAgent, RememberAdded, vars, addAgent, startAgent, endpointVars
<1>3. PlannedEndpoints' = PlannedEndpoints /\ PlannedAgents' = PlannedAgents
  BY <1>1 DEF PlannedEndpoints, PlannedAgents
<1>4. /\ a \in valid_agents => a \notin before.agents
      /\ before.agents \subseteq agents
      /\ agents \subseteq before.agents \cup valid_agents
      /\ DiscardPlan => agents = before.agents
      /\ agents \subseteq AgentName
  BY <1>1 DEF PInv, ValidIsGood, OnlyGoodAdded, GoodAgents, TypeOK
<1>5. DOMAIN agent_plan_result = PlannedAgents \ todo_agents
  BY <1>1 DEF RInv, PlanTypeOK
\* a is reported: true if the flag is what became of it.
<1>6. ASSUME NEW flag \in BOOLEAN, ReportAgent(a, flag), added \in {None, a},
             agents' = agents \/ agents' = agents \cup {a},
             IF flag THEN a \in agents' \ before.agents
             ELSE a \in agents' \ before.agents => executing_plan.agent_list[a].start_on_create
      PROVE  RInv'
  <2>1. /\ todo_agents' = todo_agents \ {a} /\ added' = None
        /\ agent_plan_result' =
             [x \in DOMAIN agent_plan_result \cup {a} |->
                IF x = a THEN flag ELSE agent_plan_result[x]]
    BY <1>6 DEF ReportAgent
  <2>2. PlanTypeOK'
    BY <1>1, <1>2, <1>3, <1>4, <1>6, <2>1 DEF RInv, PlanTypeOK
  <2>3. PendingIsAdded'
    <3>1. \A x \in todo_agents' : x \notin agents' \ before.agents
      BY <1>4, <1>6, <2>1, PlanAssumption DEF RInv, PendingIsAdded
    <3> QED
      BY <1>1, <1>2, <2>1, <3>1 DEF PendingIsAdded
  <2>4. ReportTellsTruth'
    BY <1>1, <1>2, <1>5, <1>6, <2>1 DEF RInv, ReportTellsTruth
  <2> QED
    BY <2>2, <2>3, <2>4 DEF RInv
<1>7. CASE RefuseAgent(a)
  <2>1. ReportAgent(a, FALSE) /\ UNCHANGED vars /\ added = None
    BY <1>7 DEF RefuseAgent
  <2>2. agents' = agents /\ a \notin agents \ before.agents
    BY <1>4, <1>7, <2>1 DEF RefuseAgent, vars
  <2> QED
    BY <1>6, <2>1, <2>2
<1>8. CASE AddPlanAgent(a)
  <2>1. added = None /\ a \in valid_agents /\ a \notin before.agents
    BY <1>4, <1>8 DEF AddPlanAgent
  <2>2. CASE ReportAgent(a, FALSE) /\ UNCHANGED vars
    <3>1. a \notin agents \ before.agents /\ agents' = agents
      BY <1>2, <1>4, <2>1, <2>2, PlanAssumption DEF RInv, PendingIsAdded, vars
    <3> QED
      BY <1>6, <2>1, <2>2, <3>1
  <2>3. CASE addAgent(a) /\ ReportAgent(a, TRUE)
    <3>1. agents' = agents \cup {a}
      BY <2>3 DEF addAgent
    <3> QED
      BY <1>6, <2>1, <2>3, <3>1
  <2>4. CASE /\ addAgent(a) /\ RememberAdded(a)
             /\ executing_plan.agent_list[a].start_on_create
    <3>1. /\ agents' = agents \cup {a} /\ added' = a /\ todo_agents' = todo_agents
          /\ agent_plan_result' = agent_plan_result
      BY <2>4 DEF addAgent, RememberAdded
    <3>2. PlanTypeOK'
      BY <1>1, <1>2, <1>3, <3>1 DEF RInv, PlanTypeOK
    <3>3. PendingIsAdded'
      <4>1. \A x \in todo_agents : x \notin agents \ before.agents
        BY <1>4, <2>1, PlanAssumption DEF RInv, PendingIsAdded
      <4> QED
        BY <1>1, <1>2, <2>4, <3>1, <4>1 DEF PendingIsAdded
    <3>4. ReportTellsTruth'
      BY <1>1, <1>2, <1>5, <3>1 DEF RInv, ReportTellsTruth
    <3> QED
      BY <3>2, <3>3, <3>4 DEF RInv
  <2> QED
    BY <1>8, <2>2, <2>3, <2>4 DEF AddPlanAgent
<1>9. CASE StartPlanAgent(a)
  <2>1. /\ added = a /\ agents' = agents
        /\ \/ ReportAgent(a, TRUE) /\ a \in agents
           \/ ReportAgent(a, FALSE)
    BY <1>9 DEF StartPlanAgent, startAgent, vars
  <2>2. a \notin before.agents /\ executing_plan.agent_list[a].start_on_create
    BY <1>2, <1>4, <2>1, PlanAssumption DEF PInv, AddedIsValid, RInv, PendingIsAdded
  <2> QED
    BY <1>6, <2>1, <2>2
<1> QED
  BY <1>7, <1>8, <1>9

\* A new plan has nothing reported and nothing pending.
LEMMA BeginReports ==
  ASSUME NEW p \in SubmittedPlan, BeginPlan(p)
  PROVE  RInv'
<1>1. /\ executing_plan' = p /\ p # None /\ p \in UserPlan
      /\ valid_endpoints' = ValidEndpoints(p) /\ valid_agents' = ValidAgents(p)
      /\ todo_endpoints' = DOMAIN p.endpoint_list /\ todo_agents' = DOMAIN p.agent_list
      /\ added' = None
      /\ endpoint_plan_result' = [x \in {} |-> TRUE]
      /\ agent_plan_result' = [x \in {} |-> TRUE]
      /\ before'.endpoint_db = endpoint_db /\ before'.agents = agents
      /\ endpoint_db' = endpoint_db /\ agents' = agents
  BY PlanAssumption DEF BeginPlan, vars
<1>2. PlannedEndpoints' = DOMAIN p.endpoint_list /\ PlannedAgents' = DOMAIN p.agent_list
  BY <1>1 DEF PlannedEndpoints, PlannedAgents
<1>3. PlanTypeOK'
  BY <1>1, <1>2 DEF PlanTypeOK, ValidEndpoints, ValidAgents
<1> QED
  BY <1>1, <1>3 DEF RInv, PendingIsAdded, ReportTellsTruth

\* A step that leaves the plan, the names and the connections alone disturbs
\* no report.
LEMMA UnchangedReports ==
  ASSUME RInv, UNCHANGED planVars, endpoint_db' = endpoint_db, agents' = agents, link' = link
  PROVE  RInv'
  BY DEF RInv, PlanTypeOK, PendingIsAdded, ReportTellsTruth, PlannedEndpoints, PlannedAgents,
         planVars

LEMMA ReportInvariant == PlanSpec => []RInv
<1>1. PlanSpec => []TypeOK
  BY PlanIsManagerCalls, TypeCorrect, PTL
<1>2. PlanInit => RInv
  BY DEF PlanInit, Init, NoNames, RInv, PlanTypeOK, PendingIsAdded, ReportTellsTruth
<1>3. PInv /\ TypeOK /\ RInv /\ [PlanNext]_allVars => RInv'
  <2> SUFFICES ASSUME PInv, TypeOK, RInv, [PlanNext]_allVars PROVE RInv'
    OBVIOUS
  <2>1. ASSUME NEW p \in SubmittedPlan, BeginPlan(p) PROVE RInv'
    BY <2>1, BeginReports
  <2>2. CASE PlanSteps
    BY <2>2, EndpointStepReports, AgentStepReports DEF PlanSteps, EndpointLoop, AgentLoop
  <2>3. ASSUME NEW a \in AgentName, AgentActs(a) PROVE RInv'
    <3>1. UNCHANGED planVars /\ link' = link
      BY <2>3 DEF AgentActs, AgentProgress, createMavlinkEndpointUser, HandleNext,
                  DestroyHandle, UseHandle, endpointVars
    <3> QED
      BY <2>3, <3>1, AgentsRegisterNothing, UnchangedReports
  <2>4. CASE UNCHANGED allVars
    <3>1. /\ UNCHANGED planVars /\ endpoint_db' = endpoint_db /\ agents' = agents
          /\ link' = link
      BY <2>4 DEF allVars, vars
    <3> QED
      BY <3>1, UnchangedReports
  <2> QED
    BY <2>1, <2>2, <2>3, <2>4 DEF PlanNext
<1> QED
  BY <1>1, <1>2, <1>3, PlanInvariant, PTL DEF PlanSpec

\* Every variable of executePlan keeps its shape, and each entry of the plan
\* is reported exactly once.
THEOREM PlanTypeCorrect == PlanSpec => []PlanTypeOK
<1>1. RInv => PlanTypeOK
  BY DEF RInv
<1> QED
  BY <1>1, ReportInvariant, PTL

\* What executePlan reports of an entry is what became of it, for any plan and
\* whatever the agents do meanwhile.
THEOREM ReportsTellTruth == PlanSpec => []ReportTellsTruth
<1>1. RInv => ReportTellsTruth
  BY DEF RInv
<1> QED
  BY <1>1, ReportInvariant, PTL

-----------------------------------------------------------------------------
(* The program as it is today removes no endpoint and calls nothing that   *)
(* makes counts drift.                                                     *)

\* Every handle works and its requester is listed, and every count is the
\* number of the requester's handles.
HandlesStayListed ==
  /\ \A h \in HandleId :
       Live(h) => Locks(h) /\ CountOf(handle[h].endpoint, handle[h].user) >= 1
  /\ \A e \in EndpointName, r \in Requester :
       CountOf(e, r) = Cardinality(CurrentHandles(e, r))

NeverDisturbed ==
  /\ disturbed = {}
  /\ \A h \in HandleId : Live(h) => handle[h].endpoint \in endpoint_db

LEMMA AgentsNeverDisturb ==
  ASSUME TypeOK, NeverDisturbed, NEW a \in AgentName, AgentActs(a)
  PROVE  NeverDisturbed'
<1> USE DEF TypeOK, NeverDisturbed, Live, HandleRecord, endpointVars, agentVars, handleVars
<1>1. CASE AgentProgress(a)
  BY <1>1 DEF AgentProgress
<1>2. ASSUME NEW e \in EndpointName, NEW h \in HandleId, createMavlinkEndpointUser(e, a, h)
      PROVE  NeverDisturbed'
  BY <1>2 DEF createMavlinkEndpointUser
<1>3. ASSUME NEW h \in HandleId, HandleNext(h)
      PROVE  NeverDisturbed'
  BY <1>3 DEF HandleNext, DestroyHandle, UseHandle
<1> QED
  BY <1>1, <1>2, <1>3 DEF AgentActs

LEMMA PlansNeverDisturb ==
  ASSUME TypeOK, NeverDisturbed, PlanSteps
  PROVE  NeverDisturbed'
<1> USE DEF TypeOK, NeverDisturbed, Live, endpointVars, agentVars, handleVars
<1>1. CASE UNCHANGED vars
  BY <1>1 DEF vars
<1>2. ASSUME NEW e \in EndpointName, addMavlinkEndpoint(e) PROVE NeverDisturbed'
  BY <1>2 DEF addMavlinkEndpoint
<1>3. ASSUME NEW e \in EndpointName, connectMavlinkEndpoint(e) PROVE NeverDisturbed'
  BY <1>3 DEF connectMavlinkEndpoint
<1>4. ASSUME NEW a \in AgentName, addAgent(a) \/ startAgent(a) PROVE NeverDisturbed'
  BY <1>4 DEF addAgent, startAgent
<1> QED
  BY <1>1, <1>2, <1>3, <1>4
     DEF PlanSteps, EndpointLoop, AgentLoop, RefuseEndpoint, AddPlanEndpoint,
         ConnectPlanEndpoint, RefuseAgent, AddPlanAgent, StartPlanAgent

\* Whatever plans are applied and whatever agents do with their handles, no
\* stale release happens: for lack of a caller of removeMavlinkEndpoint the
\* finding about them is out of reach (Manager.cpp, AppService.cpp).
THEOREM PlansHideNoUser == PlanSpec => []HandlesStayListed
<1>1. PlanInit => NeverDisturbed
  BY DEF PlanInit, Init, NeverDisturbed, Live
<1>2. TypeOK /\ NeverDisturbed /\ [PlanNext]_allVars => NeverDisturbed'
  <2> SUFFICES ASSUME TypeOK, NeverDisturbed, [PlanNext]_allVars PROVE NeverDisturbed'
    OBVIOUS
  <2>1. CASE UNCHANGED vars
    BY <2>1 DEF vars, NeverDisturbed, Live
  <2>2. ASSUME NEW p \in SubmittedPlan, BeginPlan(p) PROVE NeverDisturbed'
    BY <2>1, <2>2 DEF BeginPlan
  <2> QED
    BY <2>1, <2>2, AgentsNeverDisturb, PlansNeverDisturb DEF PlanNext, allVars
<1>3. NeverDisturbed /\ ListedUnlessDisturbed /\ CountsAreExact => HandlesStayListed
  BY DEF NeverDisturbed, ListedUnlessDisturbed, CountsAreExact, HandlesStayListed
<1> QED
  BY <1>1, <1>2, <1>3, PlanIsManagerCalls, TypeCorrect, OnlyDriftHidesUsers, ExactUndisturbed,
     PTL DEF PlanSpec

-----------------------------------------------------------------------------
(* The loops of executePlan come to an end.                                *)

\* An entry is finished for good, or goes on from its first call into the
\* Manager to its second.
EntryFinished ==
  /\ added' = None
  /\ \/ /\ \E e \in todo_endpoints : todo_endpoints' = todo_endpoints \ {e}
        /\ UNCHANGED todo_agents
     \/ /\ \E a \in todo_agents : todo_agents' = todo_agents \ {a}
        /\ UNCHANGED todo_endpoints

EntryHalfDone ==
  /\ added = None
  /\ added' \in todo_endpoints \cup todo_agents
  /\ UNCHANGED <<todo_endpoints, todo_agents>>

\* Every step of the loops takes one entry further, and none is taken twice.
LEMMA LoopAdvances ==
  ASSUME PlanSteps
  PROVE  EntryFinished \/ EntryHalfDone
<1>1. ASSUME NEW e \in EndpointName,
             RefuseEndpoint(e) \/ AddPlanEndpoint(e) \/ ConnectPlanEndpoint(e)
      PROVE  EntryFinished \/ EntryHalfDone
  BY <1>1 DEF RefuseEndpoint, AddPlanEndpoint, ConnectPlanEndpoint, ReportEndpoint,
              RememberAdded, EntryFinished, EntryHalfDone
<1>2. ASSUME NEW a \in AgentName, RefuseAgent(a) \/ AddPlanAgent(a) \/ StartPlanAgent(a)
      PROVE  EntryFinished \/ EntryHalfDone
  BY <1>2 DEF RefuseAgent, AddPlanAgent, StartPlanAgent, AgentTurn, ReportAgent,
              RememberAdded, EntryFinished, EntryHalfDone
<1> QED
  BY <1>1, <1>2 DEF PlanSteps, EndpointLoop, AgentLoop
=============================================================================
