------------------------------ MODULE AppService ------------------------------
(***************************************************************************)
(* AppService::executeCommand, composed with the Manager and the plans it  *)
(* dispatches to, and the one caller that puts two answers together: the   *)
(* overview of CliUiController.                                            *)
(*                                                                         *)
(* Calls come one at a time (IAppService has no lock and its callers take  *)
(* turns), but the agents run in threads of their own, and a list of their *)
(* states is read agent by agent.                                          *)
(***************************************************************************)
EXTENDS PlanExecution, StatusJson

CONSTANT IssuedCommand  \* the commands callers issue

VARIABLES
  current_plan,   \* the loaded plan, or None
  command,        \* the command executeCommand is executing, or None
  unread,         \* the names whose state the Manager has yet to read
  states,         \* the states it has read
  result,         \* the CommandResult returned last, or None
  fetching,       \* the table updateOverviewData waits for, or "none"
  agent_rows,     \* the overview: the agents by name and the text of their state
  endpoint_rows,  \* the endpoints likewise
  checked,        \* history: what CHECK_CURRENT_PLAN said, until a plan has been applied
  observed        \* history: the states of each name since the caller's call

clientVars == <<fetching, agent_rows, endpoint_rows>>
readVars == <<unread, states>>
serviceVars ==
  <<current_plan, command, readVars, result, clientVars, checked, observed>>
everyVar == <<allVars, serviceVars>>

LoadCommand == {"LOAD_PLAN_FROM_PATH", "LOAD_PLAN_FROM_JSON_TEXT"}

EndpointStatusCommand == {"GET_ENDPOINT_STATUS"}
AgentNameCommand == {"GET_AGENT_STATUS", "GET_AGENT_REPORT"}
ReadingCommand == {"GET_ENDPOINT_STATUS_ALL", "GET_AGENT_STATUS_ALL"}

\* The commands whose case is still empty.
EmptyCommand ==
  {"GET_CURRENT_PLAN", "GET_STATUS", "ADD_MAVLINK_ENDPOINT", "EDIT_MAVLINK_ENDPOINT",
   "CONNECT_MAVLINK_ENDPOINT", "DISCONNECT_MAVLINK_ENDPOINT", "REMOVE_MAVLINK_ENDPOINT",
   "ADD_AGENT", "EDIT_AGENT", "START_AGENT", "STOP_AGENT", "REMOVE_AGENT"}

\* The payload None is the empty string.
AppServiceCommand ==
  [type : EndpointStatusCommand, payload : EndpointName \cup {None}]
  \cup [type : AgentNameCommand, payload : AgentName \cup {None}]
  \cup [type : LoadCommand \cup ReadingCommand \cup EmptyCommand \cup
               {"CHECK_CURRENT_PLAN", "APPLY_CURRENT_PLAN", "DELETE_CURRENT_PLAN",
                "GET_ENDPOINT_LIST", "GET_AGENT_LIST", "GET_AGENT_REPORT_ALL"},
        payload : {None}]

CommandOf(type) == [type |-> type, payload |-> None]

\* APPLY_CURRENT_PLAN while the Manager executes the plan.
InExecutePlan == CommandOf("executePlan")

\* A name is a name of an endpoint or of an agent: where the code uses one text
\* for both, it stands for two.
ASSUME ServiceAssumption ==
  /\ IssuedCommand \subseteq AppServiceCommand
  /\ None \notin AppServiceCommand \cup {InExecutePlan}
  /\ EndpointName \cap AgentName = {}
  /\ Nullopt \notin LinkState \cup AgentState \cup AgentName
  /\ Nullopt \notin PartialMaps(EndpointName \cup AgentName, StateText)

\* CommandResult::data of a command that produces none.
NoData == Doc("none", {})

NoRows == [n \in {} |-> "none"]

NothingObserved == [n \in EndpointName \cup AgentName |-> {}]

StateNow == [n \in EndpointName \cup AgentName |->
               IF n \in EndpointName THEN link[n] ELSE agent_state[n]]

ServiceInit ==
  /\ PlanInit
  /\ current_plan = None
  /\ command = None
  /\ unread = {}
  /\ states = NoRows
  /\ result = None
  /\ fetching = "none"
  /\ agent_rows = NoRows
  /\ endpoint_rows = NoRows
  /\ checked = None
  /\ observed = NothingObserved

-----------------------------------------------------------------------------
(* The Manager's getters.                                                  *)

getMavlinkEndpointState(name) == IF name \in endpoint_db THEN link[name] ELSE Nullopt

\* Slip: operator[] instead of find: an unknown name has a state.
getAgentStateByIndex(name) == IF name \in AgentName THEN agent_state[name] ELSE Nullopt

getAgentState(name) == IF name \in agents THEN agent_state[name] ELSE Nullopt

\* What Agent::report() gives is the agent's own business.
ReportOf(name) == name

getAgentReport(name) == IF name \in agents THEN ReportOf(name) ELSE Nullopt

getAgentReportAll == [a \in agents |-> ReportOf(a)]

(* Calling and returning.                                                  *)

Idle == command = None /\ fetching = "none"

\* The names getMavlinkEndpointStateAll and getAgentStateAll loop over.
NamesToRead(c) ==
  CASE c.type = "GET_ENDPOINT_STATUS_ALL" -> endpoint_db
    [] c.type = "GET_AGENT_STATUS_ALL" -> agents
    [] OTHER -> {}

Enter(c) ==
  /\ command' = c
  /\ result' = None
  /\ unread' = NamesToRead(c)
  /\ states' = NoRows

Call(c) ==
  /\ Idle
  /\ Enter(c)
  /\ observed' = [n \in EndpointName \cup AgentName |-> {StateNow[n]}]
  /\ UNCHANGED <<current_plan, clientVars, checked, allVars>>

\* During updateOverviewData the caller's call goes on.
Return(success, data) ==
  /\ command' = None
  /\ result' = [success |-> success, data |-> data]
  /\ states' = NoRows
  /\ observed' = IF fetching = "none" THEN NothingObserved ELSE observed
  /\ UNCHANGED <<unread, clientVars>>

Executes(types) == command # None /\ command.type \in types

(* The commands on the plan.                                               *)

\* Each of them refuses when no plan is loaded.
WithoutPlan ==
  /\ Executes({"CHECK_CURRENT_PLAN", "APPLY_CURRENT_PLAN"})
  /\ current_plan = None
  /\ Return(FALSE, NoData)
  /\ UNCHANGED <<current_plan, checked, allVars>>

\* The file is missing or does not decode, or the plan it holds becomes the
\* current one.
LoadPlan ==
  /\ Executes(LoadCommand)
  /\ \/ \E p \in SubmittedPlan : current_plan' = p /\ Return(TRUE, NoData)
     \/ current_plan' = current_plan /\ Return(FALSE, NoData)
  /\ UNCHANGED <<checked, allVars>>

\* Slip: names are not compared with those registered.
CheckConfigsOnly ==
  /\ Executes({"CHECK_CURRENT_PLAN"})
  /\ current_plan # None
  /\ LET p == current_plan IN
       /\ Return(TRUE, executionResultListToJsonString(
            [e \in DOMAIN p.endpoint_list |-> p.endpoint_list[e].usable],
            [a \in DOMAIN p.agent_list |-> p.agent_list[a].usable]))
       /\ checked' = [plan |-> p, report |-> result'.data.value]
  /\ UNCHANGED <<current_plan, allVars>>

CheckPlan ==
  /\ Executes({"CHECK_CURRENT_PLAN"})
  /\ current_plan # None
  /\ LET p == current_plan IN
       /\ Return(TRUE, executionResultListToJsonString(
            [e \in DOMAIN p.endpoint_list |-> e \in ValidEndpoints(p)],
            [a \in DOMAIN p.agent_list |-> a \in ValidAgents(p)]))
       /\ checked' = [plan |-> p, report |-> result'.data.value]
  /\ UNCHANGED <<current_plan, allVars>>

\* Once a plan is applied, what the check said of another is out of date.
CheckOf(p) == IF checked # None /\ checked.plan = p THEN checked ELSE None

\* Slip: executePlan goes by what the last check found.
ApplyAsChecked ==
  /\ Executes({"APPLY_CURRENT_PLAN"})
  /\ current_plan # None
  /\ LET p == current_plan
         known == IF CheckOf(p) # None
                    THEN checked.report.endpoint_plan_result
                    ELSE [e \in DOMAIN p.endpoint_list |-> p.endpoint_list[e].usable]
     IN  /\ executing_plan' = p
         /\ valid_endpoints' = {e \in DOMAIN known : known[e]}
         /\ valid_agents' = ValidAgents(p)
         /\ todo_endpoints' = DOMAIN p.endpoint_list
         /\ todo_agents' = DOMAIN p.agent_list
  /\ added' = None
  /\ endpoint_plan_result' = [e \in {} |-> TRUE]
  /\ agent_plan_result' = [a \in {} |-> TRUE]
  /\ before' = [endpoint_db |-> endpoint_db, agents |-> agents]
  /\ command' = InExecutePlan
  /\ checked' = CheckOf(current_plan)
  /\ UNCHANGED <<current_plan, readVars, result, clientVars, observed, vars>>

ApplyPlan ==
  /\ Executes({"APPLY_CURRENT_PLAN"})
  /\ current_plan # None
  /\ BeginPlan(current_plan)
  /\ command' = InExecutePlan
  /\ checked' = CheckOf(current_plan)
  /\ UNCHANGED <<current_plan, readVars, result, clientVars, observed>>

\* The Manager's calls on behalf of the plan's entries.
ExecutePlan ==
  /\ command = InExecutePlan
  /\ PlanSteps
  /\ UNCHANGED serviceVars

ReportPlan ==
  /\ command = InExecutePlan
  /\ ~ Executing
  /\ Return(TRUE, executionResultListToJsonString(endpoint_plan_result, agent_plan_result))
  /\ checked' = None
  /\ UNCHANGED <<current_plan, allVars>>

DeletePlan ==
  /\ Executes({"DELETE_CURRENT_PLAN"})
  /\ current_plan' = None
  /\ Return(TRUE, NoData)
  /\ UNCHANGED <<checked, allVars>>

\* CommandResult::success has no initializer, and an empty case does not set
\* it either.
DoNothing ==
  /\ Executes(EmptyCommand)
  /\ \E success \in BOOLEAN : Return(success, NoData)
  /\ UNCHANGED <<current_plan, checked, allVars>>

(* The queries.                                                            *)

\* An optional from the Manager: an unknown name, and the empty one before
\* the Manager is asked, is refused.
ReturnOptional(value, data) ==
  IF command.payload = None \/ value = Nullopt
    THEN Return(FALSE, NoData)
    ELSE Return(TRUE, data)

QueryOne ==
  LET name == command.payload
      endpoint == getMavlinkEndpointState(name)
      agent == getAgentState(name)
      report == getAgentReport(name)
  IN  /\ \/ /\ Executes({"GET_ENDPOINT_STATUS"})
            /\ ReturnOptional(endpoint, endpointStatusToJsonString(endpoint))
         \/ /\ Executes({"GET_AGENT_STATUS"})
            /\ ReturnOptional(agent, agentStatusToJsonString(agent))
         \/ /\ Executes({"GET_AGENT_REPORT"})
            /\ ReturnOptional(report, agentReportToJsonString(name, report))
      /\ UNCHANGED <<current_plan, checked, allVars>>

\* The names do not change while a list is made of them.
QueryNames ==
  /\ \/ /\ Executes({"GET_ENDPOINT_LIST"})
        /\ Return(TRUE, endpointListToJsonString(endpoint_db))
     \/ /\ Executes({"GET_AGENT_LIST"})
        /\ Return(TRUE, agentListToJsonString(agents))
     \/ /\ Executes({"GET_AGENT_REPORT_ALL"})
        /\ Return(TRUE, agentReportListToJsonString(getAgentReportAll))
  /\ UNCHANGED <<current_plan, checked, allVars>>

\* Slip: the state of an agent that is starting is waited for.
ReadSettledState(n) ==
  /\ n \in unread
  /\ StateNow[n] # "STARTING"
  /\ states' = [m \in DOMAIN states \cup {n} |-> IF m = n THEN StateNow[n] ELSE states[m]]
  /\ unread' = unread \ {n}
  /\ UNCHANGED <<current_plan, command, result, clientVars, checked, observed, allVars>>

\* One name's turn in getMavlinkEndpointStateAll or getAgentStateAll.
ReadState(n) ==
  /\ n \in unread
  /\ states' = [m \in DOMAIN states \cup {n} |-> IF m = n THEN StateNow[n] ELSE states[m]]
  /\ unread' = unread \ {n}
  /\ UNCHANGED <<current_plan, command, result, clientVars, checked, observed, allVars>>

\* Slip: the list is handed out before the loop has ended.
ReturnPartialStates ==
  /\ \/ /\ Executes({"GET_ENDPOINT_STATUS_ALL"})
        /\ Return(TRUE, endpointStatusListToJsonString(states))
     \/ /\ Executes({"GET_AGENT_STATUS_ALL"})
        /\ Return(TRUE, agentStatusListToJsonString(states))
  /\ UNCHANGED <<current_plan, checked, allVars>>

ReturnStates ==
  /\ unread = {}
  /\ \/ /\ Executes({"GET_ENDPOINT_STATUS_ALL"})
        /\ Return(TRUE, endpointStatusListToJsonString(states))
     \/ /\ Executes({"GET_AGENT_STATUS_ALL"})
        /\ Return(TRUE, agentStatusListToJsonString(states))
  /\ UNCHANGED <<current_plan, checked, allVars>>

(* CliUiController::updateOverviewData.                                    *)

FetchOverview ==
  /\ Idle
  /\ fetching' = "agents"
  /\ Enter(CommandOf("GET_AGENT_STATUS_ALL"))
  /\ observed' = [n \in EndpointName \cup AgentName |-> {StateNow[n]}]
  /\ UNCHANGED <<current_plan, agent_rows, endpoint_rows, checked, allVars>>

\* Slip: a table that has rows keeps them.
RowsOnce(old, decoded) == IF old = NoRows /\ result.success THEN decoded ELSE old

\* A table keeps its rows unless it is given new ones.
Rows(old, decoded) == IF result.success /\ decoded # Nullopt THEN decoded ELSE old

TakeAgentRows ==
  /\ fetching = "agents"
  /\ command = None
  /\ agent_rows' = Rows(agent_rows, agentStatusListFromJsonString(result.data))
  /\ fetching' = "endpoints"
  /\ Enter(CommandOf("GET_ENDPOINT_STATUS_ALL"))
  /\ UNCHANGED <<current_plan, endpoint_rows, checked, observed, allVars>>

TakeEndpointRows ==
  /\ fetching = "endpoints"
  /\ command = None
  /\ endpoint_rows' = Rows(endpoint_rows, endpointStatusListFromJsonString(result.data))
  /\ fetching' = "none"
  /\ observed' = NothingObserved
  /\ UNCHANGED <<current_plan, command, readVars, result, agent_rows, checked, allVars>>

(* The agents' threads, at any moment of a command.                        *)

AgentsRun ==
  /\ \E a \in AgentName : AgentActs(a)
  /\ observed' = IF Idle THEN observed
                 ELSE [n \in EndpointName \cup AgentName |-> observed[n] \cup {StateNow'[n]}]
  /\ UNCHANGED <<current_plan, command, readVars, result, clientVars, checked>>

-----------------------------------------------------------------------------
Caller == FetchOverview \/ \E c \in IssuedCommand : Call(c)

PlanCommands ==
  WithoutPlan \/ LoadPlan \/ CheckPlan \/ ApplyPlan \/ ExecutePlan \/ ReportPlan \/ DeletePlan

Queries ==
  QueryOne \/ QueryNames \/ ReturnStates \/ \E n \in EndpointName \cup AgentName : ReadState(n)

\* What the calling thread does inside executeCommand and updateOverviewData.
CallingThread ==
  PlanCommands \/ DoNothing \/ Queries \/ TakeAgentRows \/ TakeEndpointRows

ServiceNext == Caller \/ CallingThread \/ AgentsRun

ServiceSafeSpec == ServiceInit /\ [][ServiceNext]_everyVar

\* The calling thread is scheduled; callers call as they please and agents may
\* stand still.
ServiceSpec == ServiceSafeSpec /\ WF_everyVar(CallingThread)

-----------------------------------------------------------------------------
(* Properties.                                                             *)

\* Every variable keeps its shape; a list that is being made covers, with the
\* names still to be read, exactly the registered names, and nothing is left
\* to read when no command runs.
ServiceTypeOK ==
  /\ current_plan \in SubmittedPlan \cup {None}
  /\ command \in AppServiceCommand \cup {None, InExecutePlan}
  /\ fetching \in {"none", "agents", "endpoints"}
  /\ IF command = None THEN unread = {} /\ states = NoRows
     ELSE DOMAIN states \cup unread = NamesToRead(command)
  /\ DOMAIN agent_rows \subseteq AgentName
  /\ DOMAIN endpoint_rows \subseteq EndpointName
  /\ checked # None => checked.plan \in SubmittedPlan

\* What the check found good and bad in the plan it was made for.
CheckedGood(results) == {n \in DOMAIN results : results[n]}

CheckFoundFault ==
  \/ \E e \in DOMAIN checked.report.endpoint_plan_result :
       ~ checked.report.endpoint_plan_result[e]
  \/ \E a \in DOMAIN checked.report.agent_plan_result :
       ~ checked.report.agent_plan_result[a]

\* CHECK_CURRENT_PLAN foretells APPLY_CURRENT_PLAN: when the plan last checked
\* is the next to be applied, then whatever else was asked, loaded in vain or
\* done by the agents in between, a DISCARD plan in which the check found a
\* fault registers nothing, any other registers exactly the endpoints the check
\* found good and no other agents, and an entry it found bad is not reported a
\* success (IManager.h: validatePlan is what executePlan goes by).
CheckForetellsApply ==
  command = InExecutePlan /\ checked # None =>
    LET good_endpoints == CheckedGood(checked.report.endpoint_plan_result)
        good_agents == CheckedGood(checked.report.agent_plan_result)
        refused == executing_plan.policy = "DISCARD" /\ CheckFoundFault
    IN  /\ refused => endpoint_db = before.endpoint_db /\ agents = before.agents
        /\ ~ refused /\ ~ Executing =>
             /\ endpoint_db = before.endpoint_db \cup good_endpoints
             /\ agents \subseteq before.agents \cup good_agents
        /\ CheckedGood(endpoint_plan_result) \subseteq good_endpoints
        /\ CheckedGood(agent_plan_result) \subseteq good_agents

\* The text of some state that n was in since the caller called.
EndpointTextTrue(n, text) == \E s \in observed[n] : text = endpointStateToString(s)
AgentTextTrue(n, text) == \E s \in observed[n] : text = agentStateToString(s)

AnswerTrue(c, answer) ==
  LET value == answer.data.value IN
    CASE c.type = "GET_ENDPOINT_STATUS" ->
           /\ answer.success <=> c.payload \in endpoint_db
           /\ answer.success => EndpointTextTrue(c.payload, value)
      [] c.type = "GET_AGENT_STATUS" ->
           /\ answer.success <=> c.payload \in agents
           /\ answer.success => AgentTextTrue(c.payload, value)
      [] c.type = "GET_AGENT_REPORT" ->
           /\ answer.success <=> c.payload \in agents
           /\ answer.success => value.name = c.payload /\ value.report = ReportOf(c.payload)
      [] c.type = "GET_AGENT_STATUS_ALL" ->
           /\ answer.success
           /\ DOMAIN value = agents
           /\ \A a \in agents :
                AgentTextTrue(a, agentStatusListFromJsonString(answer.data)[a])
      [] c.type = "GET_ENDPOINT_STATUS_ALL" ->
           /\ answer.success
           /\ DOMAIN value = endpoint_db
           /\ \A e \in endpoint_db :
                EndpointTextTrue(e, endpointStatusListFromJsonString(answer.data)[e])
      [] OTHER -> TRUE

\* A query succeeds for exactly the registered names, and each state it tells
\* is one the agent or the endpoint was in at some moment of the call, also in a
\* list, which is read name by name while the agents move on and which carries
\* numbers that its reader turns back into states.
AnswersAreTrue ==
  [][command # None /\ command' = None => AnswerTrue(command, result')]_everyVar

\* When updateOverviewData returns, each table of the overview lists exactly
\* the registered names, each with a state it was in during the fetch: neither
\* rows of an earlier fetch nor one table's answer in the other survive it.
OverviewTellsTruth ==
  [][fetching = "endpoints" /\ fetching' = "none" =>
       /\ DOMAIN agent_rows' = agents
       /\ DOMAIN endpoint_rows' = endpoint_db
       /\ \A a \in agents : AgentTextTrue(a, agent_rows'[a])
       /\ \A e \in endpoint_db : EndpointTextTrue(e, endpoint_rows'[e])]_everyVar

\* The service executes plans as PlanExecution says, one at a time and each
\* validated anew: all that is shown of plans there holds of the plans that
\* are applied here, whatever is loaded, checked and asked before and after.
ImplementsPlanExecution == PlanSpec

\* Every call returns, whatever the plan's entries come to and however the
\* agents move (the UI's worker and the startup sequence wait for it).
CommandReturns == command # None ~> command = None
=============================================================================
