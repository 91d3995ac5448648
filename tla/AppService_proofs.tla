--------------------------- MODULE AppService_proofs ---------------------------
(***************************************************************************)
(* Proofs about AppService, for any names, plans and commands.             *)
(***************************************************************************)
EXTENDS AppService, PlanExecution_proofs

\* The check and the plan it was made for agree: with what validation would
\* find now, or, while that plan is executed, with what it found when the
\* execution began.
CheckStands ==
  checked # None =>
    LET p == checked.plan
        r == checked.report
    IN  IF command = InExecutePlan
          THEN /\ executing_plan = p /\ p # None
               /\ r.endpoint_plan_result =
                    [e \in DOMAIN p.endpoint_list |-> e \in GoodEndpoints]
               /\ r.agent_plan_result = [a \in DOMAIN p.agent_list |-> a \in GoodAgents]
          ELSE /\ r.endpoint_plan_result =
                    [e \in DOMAIN p.endpoint_list |-> e \in ValidEndpoints(p)]
               /\ r.agent_plan_result =
                    [a \in DOMAIN p.agent_list |-> a \in ValidAgents(p)]

PlanIsLoaded == current_plan \in SubmittedPlan \cup {None}

-----------------------------------------------------------------------------
\* A step of the calling thread outside executePlan does not touch the Manager.
OutsideManager ==
  WithoutPlan \/ LoadPlan \/ CheckPlan \/ ReportPlan \/ DeletePlan \/ DoNothing \/ Queries
  \/ TakeAgentRows \/ TakeEndpointRows \/ Caller

LEMMA OutsideChangesNothing ==
  ASSUME OutsideManager
  PROVE  UNCHANGED allVars
  BY DEF OutsideManager, WithoutPlan, LoadPlan, CheckPlan, ReportPlan, DeletePlan, DoNothing,
         Queries, QueryOne, QueryNames, ReadState, ReturnStates, TakeAgentRows,
         TakeEndpointRows, Caller, FetchOverview, Call

LEMMA LoadedInvariant == ServiceSafeSpec => []PlanIsLoaded
<1>1. ServiceInit => PlanIsLoaded
  BY DEF ServiceInit, PlanIsLoaded
<1>2. PlanIsLoaded /\ [ServiceNext]_everyVar => PlanIsLoaded'
  <2> SUFFICES ASSUME PlanIsLoaded, [ServiceNext]_everyVar PROVE PlanIsLoaded'
    OBVIOUS
  <2>1. CASE LoadPlan \/ DeletePlan
    BY <2>1 DEF LoadPlan, DeletePlan, PlanIsLoaded
  <2>2. CASE Caller
    BY <2>2 DEF Caller, FetchOverview, Call, PlanIsLoaded
  <2>3. CASE WithoutPlan \/ CheckPlan \/ ApplyPlan \/ ExecutePlan \/ ReportPlan
    BY <2>3 DEF WithoutPlan, CheckPlan, ApplyPlan, ExecutePlan, ReportPlan, serviceVars,
                PlanIsLoaded
  <2>4. CASE DoNothing \/ Queries \/ TakeAgentRows \/ TakeEndpointRows \/ AgentsRun
    BY <2>4 DEF DoNothing, Queries, QueryOne, QueryNames, ReadState, ReturnStates,
                TakeAgentRows, TakeEndpointRows, AgentsRun, PlanIsLoaded
  <2>5. CASE UNCHANGED everyVar
    BY <2>5 DEF everyVar, serviceVars, PlanIsLoaded
  <2> QED
    BY <2>1, <2>2, <2>3, <2>4, <2>5 DEF ServiceNext, CallingThread, PlanCommands
<1> QED
  BY <1>1, <1>2, PTL DEF ServiceSafeSpec

\* The service is a client of executePlan that calls it with loaded plans and
\* one at a time: what is proved of plans holds of the plans it applies.
THEOREM ServiceRunsPlans == ServiceSafeSpec => ImplementsPlanExecution
<1>1. ServiceInit => PlanInit
  BY DEF ServiceInit
<1>2. PlanIsLoaded /\ [ServiceNext]_everyVar => [PlanNext]_allVars
  <2> SUFFICES ASSUME PlanIsLoaded, [ServiceNext]_everyVar
               PROVE  PlanNext \/ UNCHANGED allVars
    OBVIOUS
  <2>1. CASE OutsideManager
    BY <2>1, OutsideChangesNothing
  <2>2. CASE ApplyPlan
    <3>1. current_plan \in SubmittedPlan /\ BeginPlan(current_plan)
      BY <2>2 DEF ApplyPlan, PlanIsLoaded
    <3> QED
      BY <3>1 DEF PlanNext
  <2>3. CASE ExecutePlan
    BY <2>3 DEF ExecutePlan, PlanNext
  <2>4. CASE AgentsRun
    BY <2>4 DEF AgentsRun, PlanNext
  <2>5. CASE UNCHANGED everyVar
    BY <2>5 DEF everyVar
  <2> QED
    BY <2>1, <2>2, <2>3, <2>4, <2>5
       DEF ServiceNext, CallingThread, PlanCommands, OutsideManager
<1> QED
  BY <1>1, <1>2, LoadedInvariant, PTL DEF ServiceSafeSpec, ImplementsPlanExecution, PlanSpec

-----------------------------------------------------------------------------
(* A check and the plan it foretells.                                      *)

LEMMA NotInExecutePlan ==
  /\ None # InExecutePlan
  /\ \A types : "executePlan" \notin types /\ Executes(types) => command # InExecutePlan
  /\ \A c \in AppServiceCommand : c # InExecutePlan
<1>2. InExecutePlan.type = "executePlan"
  BY DEF InExecutePlan, CommandOf
<1>3. \A c \in AppServiceCommand : c.type # "executePlan"
  BY DEF AppServiceCommand, EndpointStatusCommand, AgentNameCommand, LoadCommand,
         ReadingCommand, EmptyCommand
<1>4. None # InExecutePlan
  BY ServiceAssumption
<1>5. \A types : "executePlan" \notin types /\ Executes(types) => command # InExecutePlan
  BY <1>2 DEF Executes
<1> QED
  BY <1>2, <1>3, <1>4, <1>5

\* While no plan is applied a check stays right, for nothing else registers a
\* name.
LEMMA StandsOutside ==
  ASSUME CheckStands, command # InExecutePlan, command' # InExecutePlan,
         UNCHANGED <<checked, endpoint_db, agents>>
  PROVE  CheckStands'
  BY DEF CheckStands, ValidEndpoints, ValidAgents

\* While the plan is applied, what was good in it when that began is settled.
LEMMA StandsInside ==
  ASSUME CheckStands, command = InExecutePlan, command' = InExecutePlan,
         UNCHANGED <<checked, executing_plan, before>>
  PROVE  CheckStands'
  BY DEF CheckStands, GoodEndpoints, GoodAgents, PlannedEndpoints, PlannedAgents

\* A check made now stands.
LEMMA CheckPlanStands ==
  ASSUME CheckPlan
  PROVE  CheckStands'
<1>1. /\ checked' = [plan |-> current_plan,
                     report |-> [endpoint_plan_result |->
                        [e \in DOMAIN current_plan.endpoint_list |->
                           e \in ValidEndpoints(current_plan)],
                      agent_plan_result |->
                        [a \in DOMAIN current_plan.agent_list |->
                           a \in ValidAgents(current_plan)]]]
      /\ command' = None /\ endpoint_db' = endpoint_db /\ agents' = agents
  BY DEF CheckPlan, Return, executionResultListToJsonString, Doc, allVars, vars
<1> QED
  BY <1>1, NotInExecutePlan DEF CheckStands, ValidEndpoints, ValidAgents

\* The execution of a plan finds what the check of that plan found.
LEMMA ApplyPlanStands ==
  ASSUME CheckStands, ApplyPlan
  PROVE  CheckStands'
<1>1. command # InExecutePlan
  BY NotInExecutePlan DEF ApplyPlan
<1>2. /\ executing_plan' = current_plan /\ command' = InExecutePlan
      /\ current_plan # None
      /\ before'.endpoint_db = endpoint_db /\ before'.agents = agents
      /\ checked' = CheckOf(current_plan)
  BY DEF ApplyPlan, BeginPlan
<1>3. /\ GoodEndpoints' = ValidEndpoints(current_plan)
      /\ GoodAgents' = ValidAgents(current_plan)
  BY <1>2 DEF GoodEndpoints, GoodAgents, ValidEndpoints, ValidAgents, PlannedEndpoints,
              PlannedAgents
<1>4. CASE checked' = None
  BY <1>4 DEF CheckStands
<1>5. CASE checked' # None
  <2>1. checked # None /\ checked' = checked /\ checked.plan = current_plan
    BY <1>2, <1>5 DEF CheckOf
  <2> QED
    BY <1>1, <1>2, <1>3, <2>1 DEF CheckStands
<1> QED
  BY <1>4, <1>5

LEMMA CheckInvariant == ServiceSafeSpec => []CheckStands
<1>1. ServiceInit => CheckStands
  BY DEF ServiceInit, CheckStands
<1>2. CheckStands /\ PInv /\ [ServiceNext]_everyVar => CheckStands'
  <2> SUFFICES ASSUME CheckStands, PInv, [ServiceNext]_everyVar PROVE CheckStands'
    OBVIOUS
  <2>1. ASSUME UNCHANGED <<command, checked, executing_plan, before, endpoint_db, agents>>
        PROVE  CheckStands'
    BY <2>1, StandsOutside, StandsInside
  <2>2. CASE CheckPlan
    BY <2>2, CheckPlanStands
  <2>3. CASE ApplyPlan
    BY <2>3, ApplyPlanStands
  <2>4. CASE ExecutePlan
    <3>1. UNCHANGED <<executing_plan, before, checked, command>> /\ command = InExecutePlan
      BY <2>4, PlanStays DEF ExecutePlan, serviceVars
    <3> QED
      BY <3>1, StandsInside
  <2>5. CASE ReportPlan
    BY <2>5 DEF ReportPlan, CheckStands
  <2>6. CASE WithoutPlan \/ LoadPlan \/ DeletePlan \/ DoNothing
    <3>1. /\ command # InExecutePlan /\ command' = None
          /\ UNCHANGED <<checked, allVars>>
      BY <2>6, NotInExecutePlan
         DEF WithoutPlan, LoadPlan, DeletePlan, DoNothing, Return, LoadCommand, EmptyCommand
    <3> QED
      BY <3>1, StandsOutside, NotInExecutePlan DEF allVars, vars
  <2>7. CASE QueryOne \/ QueryNames \/ ReturnStates
    <3>1. /\ command # InExecutePlan /\ command' = None
          /\ UNCHANGED <<checked, allVars>>
      BY <2>7, NotInExecutePlan
         DEF QueryOne, QueryNames, ReturnStates, Return, ReturnOptional
    <3> QED
      BY <3>1, StandsOutside, NotInExecutePlan DEF allVars, vars
  <2>8. CASE \E n \in EndpointName \cup AgentName : ReadState(n)
    BY <2>8, <2>1 DEF ReadState, allVars, planVars, vars
  <2>9. CASE Caller \/ TakeAgentRows \/ TakeEndpointRows
    <3>1. /\ command = None /\ UNCHANGED <<checked, allVars>>
          /\ command' = None \/ command' \in AppServiceCommand
      BY <2>9, ServiceAssumption
         DEF Caller, FetchOverview, Call, Enter, Idle, TakeAgentRows, TakeEndpointRows,
             CommandOf, AppServiceCommand, ReadingCommand
    <3> QED
      BY <3>1, StandsOutside, NotInExecutePlan DEF allVars, vars
  <2>10. CASE AgentsRun
    <3>1. UNCHANGED <<command, checked, executing_plan, before, endpoint_db, agents>>
      BY <2>10, AgentsRegisterNothing DEF AgentsRun, AgentActs, planVars
    <3> QED
      BY <3>1, <2>1
  <2>11. CASE UNCHANGED everyVar
    BY <2>11, <2>1 DEF everyVar, allVars, vars, planVars, serviceVars
  <2> QED
    BY <2>2, <2>3, <2>4, <2>5, <2>6, <2>7, <2>8, <2>9, <2>10, <2>11
       DEF ServiceNext, CallingThread, PlanCommands, Queries
<1>3. ServiceSafeSpec => []PInv
  BY ServiceRunsPlans, PlanInvariant, PTL DEF ImplementsPlanExecution
<1> QED
  BY <1>1, <1>2, <1>3, PTL DEF ServiceSafeSpec

\* CHECK_CURRENT_PLAN foretells APPLY_CURRENT_PLAN, for any plans and any
\* commands and agents in between (AppService::executeCommand, validatePlan and
\* executePlan).
THEOREM CheckForetells == ServiceSafeSpec => []CheckForetellsApply
<1>1. PInv /\ RInv /\ CheckStands => CheckForetellsApply
  <2> SUFFICES ASSUME PInv, RInv, CheckStands, command = InExecutePlan, checked # None
               PROVE  CheckForetellsApply
    BY DEF CheckForetellsApply
  <2> DEFINE r == checked.report
             good_endpoints == CheckedGood(r.endpoint_plan_result)
             good_agents == CheckedGood(r.agent_plan_result)
  <2>1. /\ executing_plan = checked.plan /\ executing_plan # None
        /\ r.endpoint_plan_result = [e \in PlannedEndpoints |-> e \in GoodEndpoints]
        /\ r.agent_plan_result = [a \in PlannedAgents |-> a \in GoodAgents]
    BY DEF CheckStands, PlannedEndpoints, PlannedAgents
  <2>2. good_endpoints = GoodEndpoints /\ good_agents = GoodAgents
    BY <2>1 DEF CheckedGood, GoodEndpoints, GoodAgents
  <2>3. CheckFoundFault <=> ~ AllGood
    BY <2>1 DEF CheckFoundFault, AllGood, GoodEndpoints, GoodAgents
  <2>4. DiscardIsAllOrNothing /\ GoodEntriesAreApplied /\ ReportTellsTruth
    BY DEF RInv, PInv, ValidIsGood, OnlyGoodAdded, LoopsInOrder, DiscardPlan, AllGood,
           DiscardIsAllOrNothing, GoodEntriesAreApplied, PlannedEndpoints, PlannedAgents,
           Executing
  <2>5. /\ endpoint_db \subseteq before.endpoint_db \cup GoodEndpoints
        /\ agents \subseteq before.agents \cup GoodAgents
    BY <2>1 DEF PInv, ValidIsGood, OnlyGoodAdded
  <2>6. /\ CheckedGood(endpoint_plan_result) \subseteq GoodEndpoints
        /\ CheckedGood(agent_plan_result) \subseteq GoodAgents
    BY <2>1, <2>4, <2>5 DEF CheckedGood, ReportTellsTruth
  <2> QED
    BY <2>1, <2>2, <2>3, <2>4, <2>6
       DEF CheckForetellsApply, DiscardIsAllOrNothing, GoodEntriesAreApplied
<1>2. ServiceSafeSpec => [](PInv /\ RInv)
  BY ServiceRunsPlans, PlanInvariant, ReportInvariant, PTL DEF ImplementsPlanExecution
<1> QED
  BY <1>1, <1>2, CheckInvariant, PTL

-----------------------------------------------------------------------------
(* Queries.                                                                *)

Names == EndpointName \cup AgentName

\* What is read is recorded, and what is still to be read is registered.
ReadingIsTrue ==
  /\ ~ Idle /\ command # InExecutePlan => \A n \in Names : StateNow[n] \in observed[n]
  /\ \A n \in DOMAIN states :
       /\ states[n] \in observed[n]
       /\ n \in EndpointName => states[n] \in LinkState
       /\ n \in AgentName => states[n] \in AgentState
  /\ command = None => unread = {} /\ states = NoRows
  /\ command # None => DOMAIN states \cup unread = NamesToRead(command)

\* The answer updateOverviewData has not yet put in its table, and the table
\* it has filled, are true of the fetch.
FetchIsTrue ==
  /\ fetching = "agents" /\ command = None =>
       AnswerTrue(CommandOf("GET_AGENT_STATUS_ALL"), result)
         /\ result.data.key = "agent_status_list"
  /\ fetching = "endpoints" =>
       DOMAIN agent_rows = agents /\ \A a \in agents : AgentTextTrue(a, agent_rows[a])
  /\ fetching = "endpoints" /\ command = None =>
       AnswerTrue(CommandOf("GET_ENDPOINT_STATUS_ALL"), result)
         /\ result.data.key = "endpoint_status_list"
  /\ fetching \in {"none", "agents", "endpoints"}
  /\ fetching = "agents" /\ command # None => command = CommandOf("GET_AGENT_STATUS_ALL")
  /\ fetching = "endpoints" /\ command # None => command = CommandOf("GET_ENDPOINT_STATUS_ALL")

CommandOK == command \in AppServiceCommand \cup {None, InExecutePlan}

QInv == CommandOK /\ ReadingIsTrue /\ FetchIsTrue

\* A state survives the number it is sent as.
LEMMA CastBack ==
  /\ \A s \in AgentState : Enumerator(AgentStateCode, AgentStateCode[s]) = s
  /\ \A s \in LinkState : Enumerator(EndpointStateCode, EndpointStateCode[s]) = s
<1>1. AgentState \subseteq DOMAIN AgentStateCode /\ LinkState \subseteq DOMAIN EndpointStateCode
  BY StatusJsonAssumption DEF AgentState, LinkState
<1>2. ASSUME NEW code, Distinct(code), NEW s \in DOMAIN code
      PROVE  Enumerator(code, code[s]) = s
  BY <1>2 DEF Enumerator, Distinct
<1> QED
  BY <1>1, <1>2, StatusJsonAssumption

\* An answer that is true of what was observed stays true while more is.
LEMMA ObservingMore ==
  ASSUME \A n \in Names : observed[n] \subseteq observed'[n],
         endpoint_db' = endpoint_db, agents' = agents,
         endpoint_db \subseteq EndpointName, agents \subseteq AgentName
  PROVE  /\ \A e \in endpoint_db : \A t : EndpointTextTrue(e, t) => EndpointTextTrue(e, t)'
         /\ \A a \in agents : \A t : AgentTextTrue(a, t) => AgentTextTrue(a, t)'
  BY DEF EndpointTextTrue, AgentTextTrue, Names

\* A query gives a true answer.
LEMMA QueriesAnswerTrue ==
  ASSUME QInv, TypeOK, QueryOne \/ QueryNames \/ ReturnStates
  PROVE  AnswerTrue(command, result')
<1>1. /\ endpoint_db \subseteq EndpointName /\ agents \subseteq AgentName
      /\ link \in [EndpointName -> LinkState] /\ agent_state \in [AgentName -> AgentState]
  BY DEF TypeOK
<1>2. /\ command # None /\ command # InExecutePlan /\ command \in AppServiceCommand
      /\ \A n \in Names : StateNow[n] \in observed[n]
  BY NotInExecutePlan
     DEF QInv, CommandOK, ReadingIsTrue, Idle, QueryOne, QueryNames, ReturnStates, Executes
<1>3. /\ command.type = "GET_ENDPOINT_STATUS" => command.payload \in EndpointName \cup {None}
      /\ command.type \in AgentNameCommand => command.payload \in AgentName \cup {None}
  BY <1>2 DEF AppServiceCommand, EndpointStatusCommand, AgentNameCommand, LoadCommand,
              ReadingCommand, EmptyCommand
<1>4. None \notin endpoint_db /\ None \notin agents
  BY <1>1, PlanAssumption
<1>5. CASE QueryNames
  BY <1>5 DEF QueryNames, Executes, AnswerTrue
<1>6. CASE QueryOne
  <2>1. CASE Executes({"GET_ENDPOINT_STATUS"})
    <3> DEFINE p == command.payload
    <3>1. /\ p \in endpoint_db => getMavlinkEndpointState(p) = link[p] /\ link[p] # Nullopt
          /\ p \notin endpoint_db => getMavlinkEndpointState(p) = Nullopt
      BY <1>1, ServiceAssumption DEF getMavlinkEndpointState
    <3>2. command.type = "GET_ENDPOINT_STATUS"
      BY <2>1 DEF Executes
    <3>3. ReturnOptional(getMavlinkEndpointState(p),
                         endpointStatusToJsonString(getMavlinkEndpointState(p)))
      BY <1>6, <3>2 DEF QueryOne, Executes
    <3>4. /\ result'.success <=> p \in endpoint_db
          /\ p \in endpoint_db => result'.data.value = endpointStateToString(link[p])
      BY <1>4, <3>1, <3>3 DEF ReturnOptional, Return, endpointStatusToJsonString, Doc
    <3>5. p \in endpoint_db => link[p] \in observed[p]
      BY <1>1, <1>2 DEF StateNow, Names
    <3> QED
      BY <3>2, <3>4, <3>5 DEF AnswerTrue, EndpointTextTrue
  <2>2. CASE Executes({"GET_AGENT_STATUS"})
    <3> DEFINE p == command.payload
    <3>1. /\ p \in agents => getAgentState(p) = agent_state[p] /\ agent_state[p] # Nullopt
          /\ p \notin agents => getAgentState(p) = Nullopt
      BY <1>1, ServiceAssumption DEF getAgentState
    <3>2. command.type = "GET_AGENT_STATUS"
      BY <2>2 DEF Executes
    <3>3. ReturnOptional(getAgentState(p), agentStatusToJsonString(getAgentState(p)))
      BY <1>6, <3>2 DEF QueryOne, Executes
    <3>4. /\ result'.success <=> p \in agents
          /\ p \in agents => result'.data.value = agentStateToString(agent_state[p])
      BY <1>4, <3>1, <3>3 DEF ReturnOptional, Return, agentStatusToJsonString, Doc
    <3>5. p \in agents => agent_state[p] \in observed[p]
      BY <1>1, <1>2, ServiceAssumption DEF StateNow, Names
    <3> QED
      BY <3>2, <3>4, <3>5 DEF AnswerTrue, AgentTextTrue
  <2>3. CASE Executes({"GET_AGENT_REPORT"})
    <3> DEFINE p == command.payload
    <3>1. /\ p \in agents => getAgentReport(p) = ReportOf(p) /\ ReportOf(p) # Nullopt
          /\ p \notin agents => getAgentReport(p) = Nullopt
      BY <1>1, ServiceAssumption DEF getAgentReport, ReportOf
    <3>2. command.type = "GET_AGENT_REPORT"
      BY <2>3 DEF Executes
    <3>3. ReturnOptional(getAgentReport(p), agentReportToJsonString(p, getAgentReport(p)))
      BY <1>6, <3>2 DEF QueryOne, Executes
    <3>4. /\ result'.success <=> p \in agents
          /\ p \in agents => result'.data.value = [name |-> p, report |-> ReportOf(p)]
      BY <1>4, <3>1, <3>3 DEF ReturnOptional, Return, agentReportToJsonString, Doc
    <3> QED
      BY <3>2, <3>4 DEF AnswerTrue
  <2> QED
    BY <1>6, <2>1, <2>2, <2>3 DEF QueryOne
<1>7. CASE ReturnStates
  <2>1. /\ DOMAIN states = NamesToRead(command)
        /\ \A n \in DOMAIN states : states[n] \in observed[n]
    BY <1>2, <1>7 DEF QInv, ReadingIsTrue, ReturnStates
  <2>2. CASE Executes({"GET_AGENT_STATUS_ALL"})
    <3>1. /\ command.type = "GET_AGENT_STATUS_ALL"
          /\ DOMAIN states = agents
          /\ result' = [success |-> TRUE, data |-> agentStatusListToJsonString(states)]
      BY <1>7, <2>1, <2>2 DEF ReturnStates, Executes, Return, NamesToRead
    <3>2. \A a \in agents : states[a] \in AgentState
      BY <1>1, <3>1 DEF QInv, ReadingIsTrue
    <3>3. /\ result'.success /\ DOMAIN result'.data.value = agents
          /\ \A a \in agents : agentStatusListFromJsonString(result'.data)[a]
                                 = agentStateToString(states[a])
      BY <3>1, <3>2, CastBack
         DEF agentStatusListToJsonString, agentStatusListFromJsonString, Doc
    <3> QED
      BY <2>1, <3>1, <3>3 DEF AnswerTrue, AgentTextTrue
  <2>3. CASE Executes({"GET_ENDPOINT_STATUS_ALL"})
    <3>1. /\ command.type = "GET_ENDPOINT_STATUS_ALL"
          /\ DOMAIN states = endpoint_db
          /\ result' = [success |-> TRUE, data |-> endpointStatusListToJsonString(states)]
      BY <1>7, <2>1, <2>3 DEF ReturnStates, Executes, Return, NamesToRead
    <3>2. \A e \in endpoint_db : states[e] \in LinkState
      BY <1>1, <3>1 DEF QInv, ReadingIsTrue
    <3>3. /\ result'.success /\ DOMAIN result'.data.value = endpoint_db
          /\ \A e \in endpoint_db : endpointStatusListFromJsonString(result'.data)[e]
                                      = endpointStateToString(states[e])
      BY <3>1, <3>2, CastBack
         DEF endpointStatusListToJsonString, endpointStatusListFromJsonString, Doc
    <3> QED
      BY <2>1, <3>1, <3>3 DEF AnswerTrue, EndpointTextTrue
  <2> QED
    BY <1>7, <2>2, <2>3 DEF ReturnStates
<1> QED
  BY <1>5, <1>6, <1>7

\* A step inside a list's loop, or anything but the end of a command: nothing
\* is observed less, names stay, and what was read stays true.
LEMMA QueryStep ==
  ASSUME QInv, TypeOK, [ServiceNext]_everyVar
  PROVE  QInv'
<1> USE DEF QInv
<1>1. /\ endpoint_db \subseteq EndpointName /\ agents \subseteq AgentName
      /\ link \in [EndpointName -> LinkState] /\ agent_state \in [AgentName -> AgentState]
  BY DEF TypeOK
<1>2. UNCHANGED allVars => StateNow' = StateNow /\ endpoint_db' = endpoint_db /\ agents' = agents
  BY DEF allVars, vars, StateNow
\* A command begins.
<1>3. ASSUME NEW c \in AppServiceCommand, Enter(c), UNCHANGED allVars,
             \A n \in Names : StateNow[n] \in observed'[n]
      PROVE  CommandOK' /\ ReadingIsTrue'
  <2>1. /\ command' = c /\ unread' = NamesToRead(c) /\ states' = NoRows
        /\ c # None /\ DOMAIN NoRows = {}
    BY <1>3, ServiceAssumption DEF Enter, NoRows
  <2>2. NamesToRead(c)' = NamesToRead(c)
    BY <1>2, <1>3 DEF NamesToRead
  <2> QED
    BY <1>2, <1>3, <2>1, <2>2 DEF CommandOK, ReadingIsTrue
<1>4. CASE Caller
  <2>1. ASSUME NEW c \in IssuedCommand, Call(c) PROVE QInv'
    <3>1. c \in AppServiceCommand /\ Enter(c) /\ UNCHANGED allVars
      BY <2>1, ServiceAssumption DEF Call
    <3>2. \A n \in Names : StateNow[n] \in observed'[n]
      BY <2>1 DEF Call, Names
    <3>3. fetching' = "none"
      BY <2>1 DEF Call, Idle, clientVars
    <3> QED
      BY <1>3, <3>1, <3>2, <3>3 DEF FetchIsTrue
  <2>2. CASE FetchOverview
    <3>1. /\ CommandOf("GET_AGENT_STATUS_ALL") \in AppServiceCommand
          /\ CommandOf("GET_AGENT_STATUS_ALL") # None
      BY ServiceAssumption DEF CommandOf, AppServiceCommand, ReadingCommand
    <3>2. /\ Enter(CommandOf("GET_AGENT_STATUS_ALL")) /\ UNCHANGED allVars
          /\ fetching' = "agents"
          /\ \A n \in Names : StateNow[n] \in observed'[n]
      BY <2>2 DEF FetchOverview, Names
    <3>3. command' = CommandOf("GET_AGENT_STATUS_ALL")
      BY <3>2 DEF Enter
    <3> QED
      BY <1>3, <3>1, <3>2, <3>3 DEF FetchIsTrue
  <2> QED
    BY <1>4, <2>1, <2>2 DEF Caller
\* A command ends: what was read is dropped, its answer kept for a fetch.
<1>5. ASSUME NEW success, NEW data, Return(success, data), UNCHANGED allVars, command # None,
             unread = {},
             fetching # "none" => /\ AnswerTrue(command, result')
                                  /\ data.key = (IF fetching = "agents" THEN "agent_status_list"
                                                 ELSE "endpoint_status_list")
                                  /\ command # InExecutePlan
      PROVE  QInv'
  <2>1. /\ command' = None /\ states' = NoRows /\ unread' = {} /\ DOMAIN NoRows = {}
        /\ result' = [success |-> success, data |-> data]
        /\ fetching' = fetching /\ agent_rows' = agent_rows
        /\ observed' = IF fetching = "none" THEN NothingObserved ELSE observed
    BY <1>5 DEF Return, clientVars, NoRows
  <2>2. ReadingIsTrue'
    BY <1>2, <1>5, <2>1 DEF ReadingIsTrue, Idle
  <2>3. CASE fetching = "none"
    BY <2>1, <2>2, <2>3 DEF FetchIsTrue, CommandOK
  <2>4. CASE fetching = "agents"
    <3>1. command = CommandOf("GET_AGENT_STATUS_ALL")
      BY <1>5, <2>4 DEF FetchIsTrue
    <3>2. AnswerTrue(CommandOf("GET_AGENT_STATUS_ALL"), result)'
      BY <1>2, <1>5, <2>1, <2>4, <3>1 DEF AnswerTrue, AgentTextTrue, EndpointTextTrue, CommandOf
    <3> QED
      BY <1>5, <2>1, <2>2, <2>4, <3>2 DEF FetchIsTrue, CommandOK
  <2>5. CASE fetching = "endpoints"
    <3>1. command = CommandOf("GET_ENDPOINT_STATUS_ALL")
      BY <1>5, <2>5 DEF FetchIsTrue
    <3>2. AnswerTrue(CommandOf("GET_ENDPOINT_STATUS_ALL"), result)'
      BY <1>2, <1>5, <2>1, <2>5, <3>1 DEF AnswerTrue, AgentTextTrue, EndpointTextTrue, CommandOf
    <3>3. DOMAIN agent_rows' = agents' /\ \A a \in agents' : AgentTextTrue(a, agent_rows[a])'
      BY <1>2, <1>5, <2>1, <2>5 DEF FetchIsTrue, AgentTextTrue
    <3> QED
      BY <1>5, <2>1, <2>2, <2>5, <3>2, <3>3 DEF FetchIsTrue, CommandOK
  <2> QED
    BY <2>3, <2>4, <2>5 DEF FetchIsTrue
<1>6. CASE WithoutPlan \/ LoadPlan \/ CheckPlan \/ DeletePlan \/ DoNothing \/ ReportPlan
  <2>1. /\ \E success \in BOOLEAN : \E data : Return(success, data)
        /\ UNCHANGED allVars /\ command # None
        /\ command.type \notin ReadingCommand
    BY <1>6, NotInExecutePlan
       DEF WithoutPlan, LoadPlan, CheckPlan, DeletePlan, DoNothing, ReportPlan, Executes,
           ReadingCommand, LoadCommand, EmptyCommand, InExecutePlan, CommandOf
  <2>2. fetching = "none"
    BY <2>1 DEF FetchIsTrue, CommandOf, ReadingCommand
  <2>3. unread = {}
    BY <2>1 DEF ReadingIsTrue, NamesToRead, ReadingCommand
  <2> QED
    BY <1>5, <2>1, <2>2, <2>3
<1>7. CASE QueryOne \/ QueryNames
  <2>1. /\ \E success \in BOOLEAN : \E data : Return(success, data)
        /\ UNCHANGED allVars /\ command # None
        /\ command.type \notin ReadingCommand
    BY <1>7 DEF QueryOne, QueryNames, ReturnOptional, Executes, ReadingCommand
  <2>2. fetching = "none"
    BY <2>1 DEF FetchIsTrue, CommandOf, ReadingCommand
  <2>3. unread = {}
    BY <2>1 DEF ReadingIsTrue, NamesToRead, ReadingCommand
  <2> QED
    BY <1>5, <2>1, <2>2, <2>3
<1>8. CASE ReturnStates
  <2>1. AnswerTrue(command, result')
    BY <1>8, QueriesAnswerTrue
  <2>2. /\ unread = {} /\ UNCHANGED allVars /\ command # None /\ command # InExecutePlan
        /\ \/ /\ command.type = "GET_ENDPOINT_STATUS_ALL"
              /\ Return(TRUE, endpointStatusListToJsonString(states))
           \/ /\ command.type = "GET_AGENT_STATUS_ALL"
              /\ Return(TRUE, agentStatusListToJsonString(states))
    BY <1>8, NotInExecutePlan DEF ReturnStates, Executes
  <2>3. /\ fetching = "agents" => command.type = "GET_AGENT_STATUS_ALL"
        /\ fetching = "endpoints" => command.type = "GET_ENDPOINT_STATUS_ALL"
        /\ fetching \in {"none", "agents", "endpoints"}
    BY <2>2 DEF FetchIsTrue, CommandOf
  <2>4. /\ endpointStatusListToJsonString(states).key = "endpoint_status_list"
        /\ agentStatusListToJsonString(states).key = "agent_status_list"
    BY DEF endpointStatusListToJsonString, agentStatusListToJsonString, Doc
  <2> QED
    BY <1>5, <2>1, <2>2, <2>3, <2>4
<1>9. ASSUME NEW n \in Names, ReadState(n) PROVE QInv'
  <2>1. /\ n \in unread /\ unread' = unread \ {n}
        /\ states' = [m \in DOMAIN states \cup {n} |->
                        IF m = n THEN StateNow[n] ELSE states[m]]
        /\ UNCHANGED <<command, result, fetching, agent_rows, observed, allVars>>
    BY <1>9 DEF ReadState, clientVars
  <2>2. command # None /\ command # InExecutePlan
    BY <2>1 DEF ReadingIsTrue, NamesToRead, InExecutePlan, CommandOf
  <2>3. /\ StateNow[n] \in observed[n]
        /\ n \in EndpointName => StateNow[n] \in LinkState
        /\ n \in AgentName => StateNow[n] \in AgentState
    BY <1>1, <2>2, ServiceAssumption DEF ReadingIsTrue, Idle, StateNow, Names
  <2>4. NamesToRead(command)' = NamesToRead(command)
    BY <1>2, <2>1 DEF NamesToRead
  <2>5. ReadingIsTrue'
    BY <1>2, <2>1, <2>2, <2>3, <2>4 DEF ReadingIsTrue, Idle
  <2>6. FetchIsTrue'
    BY <1>2, <2>1, <2>2 DEF FetchIsTrue, AgentTextTrue
  <2> QED
    BY <2>1, <2>5, <2>6 DEF CommandOK
<1>10. CASE ApplyPlan \/ ExecutePlan
  <2>1. /\ command' = InExecutePlan /\ fetching' = fetching
        /\ UNCHANGED <<states, unread, observed>>
        /\ command # None /\ command.type \notin ReadingCommand
    BY <1>10, NotInExecutePlan
       DEF ApplyPlan, ExecutePlan, serviceVars, readVars, clientVars, Executes, InExecutePlan,
           CommandOf, ReadingCommand
  <2>2. fetching = "none"
    BY <2>1 DEF FetchIsTrue, CommandOf, ReadingCommand
  <2>3. unread = {} /\ DOMAIN states = {}
    BY <2>1 DEF ReadingIsTrue, NamesToRead, ReadingCommand
  <2>4. NamesToRead(command)' = {}
    BY <2>1 DEF NamesToRead, InExecutePlan, CommandOf
  <2>5. ReadingIsTrue'
    BY <2>1, <2>3, <2>4, NotInExecutePlan DEF ReadingIsTrue
  <2> QED
    BY <2>1, <2>2, <2>5 DEF FetchIsTrue, CommandOK
<1>11. CASE TakeAgentRows
  <2> DEFINE c == CommandOf("GET_ENDPOINT_STATUS_ALL")
             rows == agentStatusListFromJsonString(result.data)
  <2>1. c \in AppServiceCommand /\ c # None
    BY ServiceAssumption DEF CommandOf, AppServiceCommand, ReadingCommand
  <2>2. /\ Enter(c) /\ UNCHANGED <<observed, allVars>> /\ command = None
        /\ fetching = "agents" /\ fetching' = "endpoints"
        /\ agent_rows' = Rows(agent_rows, rows)
    BY <1>11 DEF TakeAgentRows
  <2>3. \A n \in Names : StateNow[n] \in observed'[n]
    BY <2>2, NotInExecutePlan DEF ReadingIsTrue, Idle
  <2>4. /\ result.success /\ DOMAIN result.data.value = agents
        /\ result.data.key = "agent_status_list"
        /\ \A a \in agents : AgentTextTrue(a, rows[a])
    BY <2>2 DEF FetchIsTrue, AnswerTrue, CommandOf
  <2>5. /\ rows = [a \in agents |->
                     agentStateToString(Enumerator(AgentStateCode, result.data.value[a]))]
        /\ rows # Nullopt
    <3>1. rows = [a \in agents |->
                    agentStateToString(Enumerator(AgentStateCode, result.data.value[a]))]
      BY <2>4 DEF agentStatusListFromJsonString
    <3>2. \A s : agentStateToString(s) \in StateText
      BY DEF agentStateToString, StateText
    <3>3. rows \in [agents -> StateText] /\ agents \in SUBSET (EndpointName \cup AgentName)
      BY <1>1, <3>1, <3>2
    <3>4. rows \in PartialMaps(EndpointName \cup AgentName, StateText)
      BY <3>3 DEF PartialMaps
    <3> QED
      BY <3>1, <3>4, ServiceAssumption
  <2>6. agent_rows' = rows /\ DOMAIN rows = agents
    BY <2>2, <2>4, <2>5 DEF Rows
  <2>7. DOMAIN agent_rows' = agents' /\ \A a \in agents' : AgentTextTrue(a, agent_rows[a])'
    BY <1>2, <2>2, <2>4, <2>6 DEF AgentTextTrue
  <2>8. command' = c
    BY <2>2 DEF Enter
  <2> QED
    BY <1>3, <2>1, <2>2, <2>3, <2>7, <2>8 DEF FetchIsTrue
<1>12. CASE TakeEndpointRows
  <2>1. /\ command = None /\ command' = None /\ fetching' = "none"
        /\ UNCHANGED <<unread, states>>
    BY <1>12 DEF TakeEndpointRows, readVars
  <2> QED
    BY <2>1 DEF CommandOK, ReadingIsTrue, FetchIsTrue, Idle, NoRows
<1>13. CASE AgentsRun
  <2>1. /\ UNCHANGED <<command, unread, states, result, fetching, agent_rows>>
        /\ observed' = IF Idle THEN observed
                       ELSE [n \in Names |-> observed[n] \cup {StateNow'[n]}]
        /\ endpoint_db' = endpoint_db /\ agents' = agents
    BY <1>13, AgentsRegisterNothing DEF AgentsRun, readVars, clientVars, Names
  <2>2. NamesToRead(command)' = NamesToRead(command)
    BY <2>1 DEF NamesToRead
  <2>3. DOMAIN states \subseteq Names
    BY <1>1, NotInExecutePlan DEF ReadingIsTrue, NamesToRead, NoRows, Names
  <2>4. \A n \in Names : observed[n] \subseteq observed'[n]
    BY <2>1
  <2>5. ReadingIsTrue'
    BY <2>1, <2>2, <2>3, <2>4 DEF ReadingIsTrue, Idle
  <2>6. /\ \A e \in endpoint_db : \A t : EndpointTextTrue(e, t) => EndpointTextTrue(e, t)'
        /\ \A a \in agents : \A t : AgentTextTrue(a, t) => AgentTextTrue(a, t)'
    BY <1>1, <2>1, <2>4, ObservingMore
  <2>7. FetchIsTrue'
    BY <2>1, <2>6 DEF FetchIsTrue, AnswerTrue, CommandOf
  <2> QED
    BY <2>1, <2>5, <2>7 DEF CommandOK
<1>14. CASE UNCHANGED everyVar
  BY <1>14 DEF everyVar, serviceVars, readVars, clientVars, allVars, vars, CommandOK,
               ReadingIsTrue, FetchIsTrue, Idle, StateNow, NamesToRead, AnswerTrue,
               AgentTextTrue, EndpointTextTrue
<1> QED
  BY <1>4, <1>6, <1>7, <1>8, <1>9, <1>10, <1>11, <1>12, <1>13, <1>14
     DEF ServiceNext, CallingThread, PlanCommands, Queries, Names

\* Commands other than these five are not about a state.
LEMMA NoAnswerNeeded ==
  ASSUME NEW c, NEW answer,
         c.type \notin {"GET_ENDPOINT_STATUS", "GET_AGENT_STATUS", "GET_AGENT_REPORT",
                        "GET_AGENT_STATUS_ALL", "GET_ENDPOINT_STATUS_ALL"}
  PROVE  AnswerTrue(c, answer)
BY DEF AnswerTrue

LEMMA QueryInvariant == ServiceSafeSpec => [](TypeOK /\ QInv)
<1>1. ServiceSafeSpec => []TypeOK
  BY ServiceRunsPlans, PlanIsManagerCalls, TypeCorrect, PTL DEF ImplementsPlanExecution
<1>2. ServiceInit => QInv
  BY DEF ServiceInit, QInv, CommandOK, ReadingIsTrue, FetchIsTrue, Idle, NoRows
<1>3. TypeOK /\ QInv /\ [ServiceNext]_everyVar => QInv'
  BY QueryStep
<1> QED
  BY <1>1, <1>2, <1>3, PTL DEF ServiceSafeSpec

\* Every query is answered truly, for any number of names and however the
\* agents move while their states are read (AppService::executeCommand, the
\* Manager's getters and the encoders and decoders of JsonUtils).
THEOREM AnswersTrue == ServiceSafeSpec => AnswersAreTrue
<1> DEFINE Answered == command # None /\ command' = None => AnswerTrue(command, result')
<1>1. ASSUME TypeOK, QInv, [ServiceNext]_everyVar PROVE Answered
  <2> SUFFICES ASSUME command # None, command' = None PROVE AnswerTrue(command, result')
    OBVIOUS
  <2>1. CASE QueryOne \/ QueryNames \/ ReturnStates
    BY <1>1, <2>1, QueriesAnswerTrue
  <2>2. CASE WithoutPlan \/ LoadPlan \/ CheckPlan \/ DeletePlan \/ DoNothing \/ ReportPlan
    <3>1. command.type \in LoadCommand \cup EmptyCommand \cup
            {"CHECK_CURRENT_PLAN", "APPLY_CURRENT_PLAN", "DELETE_CURRENT_PLAN", "executePlan"}
      <4>1. CASE WithoutPlan
        BY <4>1 DEF WithoutPlan, Executes
      <4>2. CASE LoadPlan
        BY <4>2 DEF LoadPlan, Executes
      <4>3. CASE CheckPlan
        BY <4>3 DEF CheckPlan, Executes
      <4>4. CASE DeletePlan
        BY <4>4 DEF DeletePlan, Executes
      <4>5. CASE DoNothing
        BY <4>5 DEF DoNothing, Executes
      <4>6. CASE ReportPlan
        BY <4>6 DEF ReportPlan, InExecutePlan, CommandOf
      <4> QED
        BY <2>2, <4>1, <4>2, <4>3, <4>4, <4>5, <4>6
    <3>2. command.type \notin {"GET_ENDPOINT_STATUS", "GET_AGENT_STATUS", "GET_AGENT_REPORT",
                              "GET_AGENT_STATUS_ALL", "GET_ENDPOINT_STATUS_ALL"}
      BY <3>1 DEF LoadCommand, EmptyCommand
    <3> QED
      BY <3>2, NoAnswerNeeded
  <2>3. CASE ApplyPlan \/ ExecutePlan
    BY <2>3, NotInExecutePlan DEF ApplyPlan, ExecutePlan, serviceVars
  <2>4. CASE Caller \/ TakeAgentRows \/ TakeEndpointRows
    BY <2>4 DEF Caller, Call, FetchOverview, Idle, TakeAgentRows, TakeEndpointRows
  <2>5. CASE AgentsRun \/ UNCHANGED everyVar
    BY <2>5 DEF AgentsRun, everyVar, serviceVars
  <2>6. CASE \E n \in EndpointName \cup AgentName : ReadState(n)
    BY <2>6 DEF ReadState
  <2> QED
    BY <1>1, <2>1, <2>2, <2>3, <2>4, <2>5, <2>6
       DEF ServiceNext, CallingThread, PlanCommands, Queries
<1> QED
  BY <1>1, QueryInvariant, PTL DEF ServiceSafeSpec, AnswersAreTrue

\* The overview is true of the fetch that filled it
\* (CliUiController::updateOverviewData).
THEOREM OverviewTrue == ServiceSafeSpec => OverviewTellsTruth
<1> DEFINE Shown == fetching = "endpoints" /\ fetching' = "none" =>
                      /\ DOMAIN agent_rows' = agents
                      /\ DOMAIN endpoint_rows' = endpoint_db
                      /\ \A a \in agents : AgentTextTrue(a, agent_rows'[a])
                      /\ \A e \in endpoint_db : EndpointTextTrue(e, endpoint_rows'[e])
<1>1. ASSUME TypeOK, QInv, [ServiceNext]_everyVar PROVE Shown
  <2> SUFFICES ASSUME fetching = "endpoints", fetching' = "none"
               PROVE  /\ DOMAIN agent_rows' = agents
                      /\ DOMAIN endpoint_rows' = endpoint_db
                      /\ \A a \in agents : AgentTextTrue(a, agent_rows'[a])
                      /\ \A e \in endpoint_db : EndpointTextTrue(e, endpoint_rows'[e])
    OBVIOUS
  <2>1. TakeEndpointRows
    BY <1>1 DEF ServiceNext, CallingThread, PlanCommands, Queries, Caller, FetchOverview, Call,
                Idle, WithoutPlan, LoadPlan, CheckPlan, ApplyPlan, ExecutePlan, ReportPlan,
                DeletePlan, DoNothing, QueryOne, QueryNames, ReturnOptional, Return,
                ReturnStates, ReadState, TakeAgentRows, AgentsRun, everyVar, serviceVars,
                clientVars
  <2> DEFINE rows == endpointStatusListFromJsonString(result.data)
  <2>2. /\ result.success /\ DOMAIN result.data.value = endpoint_db
        /\ result.data.key = "endpoint_status_list"
        /\ \A e \in endpoint_db : EndpointTextTrue(e, rows[e])
        /\ DOMAIN agent_rows = agents /\ \A a \in agents : AgentTextTrue(a, agent_rows[a])
    BY <1>1, <2>1 DEF QInv, FetchIsTrue, AnswerTrue, CommandOf, TakeEndpointRows
  <2>3. rows = [e \in endpoint_db |->
                  endpointStateToString(Enumerator(EndpointStateCode, result.data.value[e]))]
    BY <2>2 DEF endpointStatusListFromJsonString
  <2>4. rows # Nullopt
    <3>1. \A s : endpointStateToString(s) \in StateText
      BY DEF endpointStateToString, StateText
    <3>2. rows \in [endpoint_db -> StateText] /\ endpoint_db \in SUBSET Names
      BY <1>1, <2>3, <3>1 DEF TypeOK, Names
    <3>3. rows \in PartialMaps(EndpointName \cup AgentName, StateText)
      BY <3>2 DEF PartialMaps, Names
    <3> QED
      BY <3>3, ServiceAssumption
  <2>5. endpoint_rows' = rows /\ DOMAIN rows = endpoint_db /\ agent_rows' = agent_rows
    BY <2>1, <2>2, <2>3, <2>4 DEF TakeEndpointRows, Rows
  <2> QED
    BY <2>2, <2>5
<1> QED
  BY <1>1, QueryInvariant, PTL DEF ServiceSafeSpec, OverviewTellsTruth

-----------------------------------------------------------------------------
(* Types.                                                                  *)

\* What QInv leaves open of the service's variables.
RowsOK ==
  /\ PlanIsLoaded
  /\ checked # None => checked.plan \in SubmittedPlan
  /\ DOMAIN agent_rows \subseteq AgentName
  /\ DOMAIN endpoint_rows \subseteq EndpointName

LEMMA RowsInit == ServiceInit => RowsOK
<1>1. DOMAIN NoRows = {}
  BY DEF NoRows
<1> QED
  BY <1>1 DEF ServiceInit, RowsOK, PlanIsLoaded

\* A table is filled from an answer that lists registered names only.
LEMMA RowsStep ==
  ASSUME RowsOK, QInv, TypeOK, PlanIsLoaded', [ServiceNext]_everyVar
  PROVE  RowsOK'
<1> USE DEF RowsOK
<1>1. endpoint_db \subseteq EndpointName /\ agents \subseteq AgentName
  BY DEF TypeOK
<1>2. CASE TakeAgentRows
  <2>1. /\ fetching = "agents" /\ command = None
        /\ agent_rows' = Rows(agent_rows, agentStatusListFromJsonString(result.data))
        /\ UNCHANGED <<endpoint_rows, checked>>
    BY <1>2 DEF TakeAgentRows
  <2>2. DOMAIN result.data.value = agents
    BY <2>1 DEF QInv, FetchIsTrue, AnswerTrue, CommandOf
  <2>3. \/ agent_rows' = agent_rows
        \/ /\ agent_rows' = agentStatusListFromJsonString(result.data)
           /\ agent_rows' # Nullopt
    BY <2>1 DEF Rows
  <2>4. agentStatusListFromJsonString(result.data) # Nullopt =>
          DOMAIN agentStatusListFromJsonString(result.data) = agents
    BY <2>2 DEF agentStatusListFromJsonString
  <2> QED
    BY <1>1, <2>1, <2>3, <2>4
<1>3. CASE TakeEndpointRows
  <2>1. /\ fetching = "endpoints" /\ command = None
        /\ endpoint_rows' = Rows(endpoint_rows, endpointStatusListFromJsonString(result.data))
        /\ UNCHANGED <<agent_rows, checked>>
    BY <1>3 DEF TakeEndpointRows
  <2>2. DOMAIN result.data.value = endpoint_db
    BY <2>1 DEF QInv, FetchIsTrue, AnswerTrue, CommandOf
  <2>3. \/ endpoint_rows' = endpoint_rows
        \/ /\ endpoint_rows' = endpointStatusListFromJsonString(result.data)
           /\ endpoint_rows' # Nullopt
    BY <2>1 DEF Rows
  <2>4. endpointStatusListFromJsonString(result.data) # Nullopt =>
          DOMAIN endpointStatusListFromJsonString(result.data) = endpoint_db
    BY <2>2 DEF endpointStatusListFromJsonString
  <2> QED
    BY <1>1, <2>1, <2>3, <2>4
<1>4. CASE CheckPlan
  <2>1. checked'.plan = current_plan /\ current_plan \in SubmittedPlan
    BY <1>4 DEF CheckPlan, PlanIsLoaded
  <2>2. UNCHANGED <<agent_rows, endpoint_rows>>
    BY <1>4 DEF CheckPlan, Return, clientVars
  <2> QED
    BY <2>1, <2>2
<1>5. CASE ApplyPlan
  <2>1. /\ checked' = checked \/ checked' = None
        /\ UNCHANGED <<agent_rows, endpoint_rows>>
    BY <1>5 DEF ApplyPlan, CheckOf, clientVars
  <2> QED
    BY <2>1
<1>6. CASE WithoutPlan \/ LoadPlan \/ DeletePlan \/ DoNothing \/ ReportPlan
  BY <1>6 DEF WithoutPlan, LoadPlan, DeletePlan, DoNothing, ReportPlan, Return, clientVars
<1>7. CASE QueryOne \/ QueryNames \/ ReturnStates
  BY <1>7 DEF QueryOne, QueryNames, ReturnStates, ReturnOptional, Return, clientVars
<1>8. CASE ExecutePlan \/ AgentsRun \/ \E n \in Names : ReadState(n)
  BY <1>8 DEF ExecutePlan, AgentsRun, ReadState, serviceVars, clientVars
<1>9. CASE Caller
  BY <1>9 DEF Caller, Call, FetchOverview, clientVars
<1>10. CASE UNCHANGED everyVar
  BY <1>10 DEF everyVar, serviceVars, clientVars
<1> QED
  BY <1>2, <1>3, <1>4, <1>5, <1>6, <1>7, <1>8, <1>9, <1>10
     DEF ServiceNext, CallingThread, PlanCommands, Queries, Names

\* The service's variables keep their shape, and a list in the making covers
\* exactly the registered names (AppService.cpp, CliUiController.cpp).
THEOREM ServiceTypeCorrect == ServiceSafeSpec => []ServiceTypeOK
<1>1. RowsOK /\ QInv => ServiceTypeOK
  BY DEF RowsOK, PlanIsLoaded, QInv, CommandOK, ReadingIsTrue, FetchIsTrue, ServiceTypeOK
<1>2. ServiceSafeSpec => []RowsOK
  BY RowsInit, RowsStep, LoadedInvariant, QueryInvariant, PTL DEF ServiceSafeSpec
<1> QED
  BY <1>1, <1>2, QueryInvariant, PTL

-----------------------------------------------------------------------------
(* The plans an application applies.                                       *)

\* Whatever commands are issued, every endpoint handle of every agent works and
\* its agent is listed: no command the service dispatches can break a count
\* (AppService::executeCommand, Manager.cpp).
THEOREM CommandsHideNoUser == ServiceSafeSpec => []HandlesStayListed
BY ServiceRunsPlans, PlansHideNoUser, PTL DEF ImplementsPlanExecution

-----------------------------------------------------------------------------
(* The safety half of CommandReturns.                                      *)

\* While a command runs, each step of the calling thread ends it, or has read
\* one more name, or takes one more entry of its plan further, or is the one
\* step that begins a plan; the agents change nothing the command has left to do.
CommandAdvances ==
  \/ command' = None
  \/ /\ command' = command
     /\ \E n \in unread : unread' = unread \ {n}
     /\ UNCHANGED planVars
  \/ command # InExecutePlan /\ command' = InExecutePlan /\ unread = {} /\ unread' = {}
  \/ /\ command = InExecutePlan /\ command' = InExecutePlan
     /\ UNCHANGED unread
     /\ EntryFinished \/ EntryHalfDone

CommandsOnlyShorten ==
  [][command # None =>
       CommandAdvances \/ UNCHANGED <<command, unread, todo_endpoints, todo_agents, added>>]_everyVar

\* What is left of a command only ever gets less, whatever agents do meanwhile:
\* with finitely many names and entries, a call that does not return has a calling
\* thread that no longer takes steps (AppService.cpp, Manager.cpp).
THEOREM CommandsShorten == ServiceSafeSpec => CommandsOnlyShorten
<1> DEFINE Shortens ==
      command # None =>
        CommandAdvances \/ UNCHANGED <<command, unread, todo_endpoints, todo_agents, added>>
<1>1. ASSUME QInv, [ServiceNext]_everyVar PROVE Shortens
  <2> SUFFICES ASSUME command # None, ServiceNext
               PROVE  CommandAdvances
                      \/ UNCHANGED <<command, unread, todo_endpoints, todo_agents, added>>
    BY <1>1 DEF everyVar, serviceVars, readVars, allVars, planVars
  <2>1. CASE WithoutPlan \/ LoadPlan \/ CheckPlan \/ ReportPlan \/ DeletePlan \/ DoNothing
    BY <2>1 DEF WithoutPlan, LoadPlan, CheckPlan, ReportPlan, DeletePlan, DoNothing, Return,
                CommandAdvances
  <2>2. CASE QueryOne \/ QueryNames \/ ReturnStates
    BY <2>2 DEF QueryOne, QueryNames, ReturnStates, ReturnOptional, Return, CommandAdvances
  <2>3. ASSUME NEW n \in Names, ReadState(n) PROVE CommandAdvances
    BY <2>3 DEF ReadState, allVars, CommandAdvances
  <2>4. CASE ApplyPlan
    <3>1. command.type = "APPLY_CURRENT_PLAN" /\ command # InExecutePlan
      BY <2>4, NotInExecutePlan DEF ApplyPlan, Executes
    <3>2. NamesToRead(command) = {}
      BY <3>1 DEF NamesToRead
    <3>3. unread = {}
      BY <1>1, <3>2 DEF QInv, ReadingIsTrue
    <3> QED
      BY <2>4, <3>1, <3>3 DEF ApplyPlan, readVars, CommandAdvances
  <2>5. CASE ExecutePlan
    BY <2>5, LoopAdvances DEF ExecutePlan, serviceVars, readVars, CommandAdvances
  <2>6. CASE AgentsRun
    BY <2>6 DEF AgentsRun, AgentActs, readVars, planVars
  <2>7. CASE Caller \/ TakeAgentRows \/ TakeEndpointRows
    BY <2>7 DEF Caller, Call, FetchOverview, Idle, TakeAgentRows, TakeEndpointRows
  <2> QED
    BY <2>1, <2>2, <2>3, <2>4, <2>5, <2>6, <2>7
       DEF ServiceNext, CallingThread, PlanCommands, Queries, Names
<1> QED
  BY <1>1, QueryInvariant, PTL DEF ServiceSafeSpec, CommandsOnlyShorten
=============================================================================
