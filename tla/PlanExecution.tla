---------------------------- MODULE PlanExecution ----------------------------
(***************************************************************************)
(* Manager::executePlan and validatePlan, composed with the Manager whose  *)
(* operations they call: a plan is validated as a whole and then applied   *)
(* entry by entry, endpoints first. Each call into the Manager is a step   *)
(* of its own, and the agents that exist already, those the plan itself    *)
(* has started included, use their handles in between.                     *)
(*                                                                         *)
(* Whether an entry's type is registered and its config parses does not    *)
(* change once the libraries are loaded, so it is part of the entry here.  *)
(***************************************************************************)
EXTENDS Manager

CONSTANTS
  None,          \* no name, or no plan
  SubmittedPlan  \* the plans executePlan is called with

\* DISCARD, BEST_EFFORT, or the indeterminate value of a policy that was
\* never set.
Policy == {"DISCARD", "BEST_EFFORT", "INDETERMINATE"}

MavlinkEndpointEntry == [usable : BOOLEAN, connect_on_create : BOOLEAN]

AgentEntry == [usable : BOOLEAN, start_on_create : BOOLEAN]

\* The maps from some of the names in S to values in T.
PartialMaps(S, T) == UNION {[D -> T] : D \in SUBSET S}

UserPlan ==
  [policy : Policy,
   endpoint_list : PartialMaps(EndpointName, MavlinkEndpointEntry),
   agent_list : PartialMaps(AgentName, AgentEntry)]

ASSUME PlanAssumption ==
  /\ None \notin EndpointName \cup AgentName \cup UserPlan
  /\ SubmittedPlan \subseteq UserPlan
  /\ MaxGeneration > 0

VARIABLES
  executing_plan,       \* the plan executePlan was last called with, or None
  valid_endpoints,      \* the endpoint entries that passed validation
  valid_agents,         \* the agent entries that passed validation
  todo_endpoints,       \* the endpoint entries the first loop has yet to finish
  todo_agents,          \* the agent entries the second loop has yet to finish
  added,                \* the entry that was added and is to be connected or started
  endpoint_plan_result, \* the endpoint entries reported so far, and their success
  agent_plan_result,    \* the agent entries reported so far, and their success
  before                \* the names registered when executePlan was called

planVars == <<executing_plan, valid_endpoints, valid_agents, todo_endpoints, todo_agents,
              added, endpoint_plan_result, agent_plan_result, before>>

NoNames == [endpoint_db |-> {}, agents |-> {}]

PlanInit ==
  /\ Init
  /\ executing_plan = None
  /\ valid_endpoints = {}
  /\ valid_agents = {}
  /\ todo_endpoints = {}
  /\ todo_agents = {}
  /\ added = None
  /\ endpoint_plan_result = [e \in {} |-> TRUE]
  /\ agent_plan_result = [a \in {} |-> TRUE]
  /\ before = NoNames

Executing == todo_endpoints \cup todo_agents # {}

(* Validation.                                                             *)

ValidEndpoints(p) ==
  {e \in DOMAIN p.endpoint_list : e \notin endpoint_db /\ p.endpoint_list[e].usable}

ValidAgents(p) ==
  {a \in DOMAIN p.agent_list : a \notin agents /\ p.agent_list[a].usable}

\* Slip: an invalid entry discards the plan whatever its policy.
DiscardAnyPlan ==
  \/ valid_endpoints # DOMAIN executing_plan.endpoint_list
  \/ valid_agents # DOMAIN executing_plan.agent_list

\* Slip: the agent entries do not count.
DiscardForEndpoints ==
  /\ executing_plan.policy = "DISCARD"
  /\ valid_endpoints # DOMAIN executing_plan.endpoint_list

\* The whole plan is refused: only under DISCARD, for one invalid entry.
DiscardPlan ==
  /\ executing_plan.policy = "DISCARD"
  /\ \/ valid_endpoints # DOMAIN executing_plan.endpoint_list
     \/ valid_agents # DOMAIN executing_plan.agent_list

\* Slip: the results of the plan before this one are kept.
BeginPlanKeepingResults(p) ==
  /\ ~ Executing
  /\ executing_plan' = p
  /\ valid_endpoints' = ValidEndpoints(p)
  /\ valid_agents' = ValidAgents(p)
  /\ todo_endpoints' = DOMAIN p.endpoint_list
  /\ todo_agents' = DOMAIN p.agent_list
  /\ added' = None
  /\ UNCHANGED <<endpoint_plan_result, agent_plan_result>>
  /\ before' = [endpoint_db |-> endpoint_db, agents |-> agents]
  /\ UNCHANGED vars

\* executePlan up to its first loop: nothing in the Manager changes.
BeginPlan(p) ==
  /\ ~ Executing
  /\ executing_plan' = p
  /\ valid_endpoints' = ValidEndpoints(p)
  /\ valid_agents' = ValidAgents(p)
  /\ todo_endpoints' = DOMAIN p.endpoint_list
  /\ todo_agents' = DOMAIN p.agent_list
  /\ added' = None
  /\ endpoint_plan_result' = [e \in {} |-> TRUE]
  /\ agent_plan_result' = [a \in {} |-> TRUE]
  /\ before' = [endpoint_db |-> endpoint_db, agents |-> agents]
  /\ UNCHANGED vars

(* The endpoint loop. The order of the entries is that of an unordered_map.*)

ReportEndpoint(e, success) ==
  /\ endpoint_plan_result' =
       [x \in DOMAIN endpoint_plan_result \cup {e} |->
          IF x = e THEN success ELSE endpoint_plan_result[x]]
  /\ todo_endpoints' = todo_endpoints \ {e}
  /\ added' = None
  /\ UNCHANGED <<executing_plan, valid_endpoints, valid_agents, todo_agents,
                 agent_plan_result, before>>

\* Between an entry's two calls into the Manager.
RememberAdded(x) ==
  /\ added' = x
  /\ UNCHANGED <<executing_plan, valid_endpoints, valid_agents, todo_endpoints, todo_agents,
                 endpoint_plan_result, agent_plan_result, before>>

\* Slip: an entry whose name is taken is connected all the same.
ReconnectExisting(e) ==
  /\ e \in todo_endpoints
  /\ added = None
  /\ e \notin valid_endpoints \/ DiscardPlan
  /\ ReportEndpoint(e, FALSE)
  /\ IF e \in endpoint_db THEN connectMavlinkEndpoint(e) ELSE UNCHANGED vars

\* An invalid entry reports its validation, a valid one that the plan is
\* discarded; neither reaches the Manager.
RefuseEndpoint(e) ==
  /\ e \in todo_endpoints
  /\ added = None
  /\ e \notin valid_endpoints \/ DiscardPlan
  /\ ReportEndpoint(e, FALSE)
  /\ UNCHANGED vars

\* addMavlinkEndpoint asks again whether the name is free.
AddPlanEndpoint(e) ==
  /\ e \in todo_endpoints
  /\ added = None
  /\ e \in valid_endpoints
  /\ ~ DiscardPlan
  /\ IF e \in endpoint_db
       THEN ReportEndpoint(e, FALSE) /\ UNCHANGED vars
       ELSE /\ addMavlinkEndpoint(e)
            /\ IF executing_plan.endpoint_list[e].connect_on_create
                 THEN RememberAdded(e)
                 ELSE ReportEndpoint(e, TRUE)

\* Slip: the connection's result is not merged into the entry's.
ConnectReportingAddition(e) ==
  /\ e \in todo_endpoints
  /\ added = e
  /\ connectMavlinkEndpoint(e)
  /\ ReportEndpoint(e, TRUE)

ConnectPlanEndpoint(e) ==
  /\ e \in todo_endpoints
  /\ added = e
  /\ connectMavlinkEndpoint(e)
  /\ ReportEndpoint(e, link'[e] = "CONNECTED")

(* The agent loop, after the endpoint loop.                                *)

ReportAgent(a, success) ==
  /\ agent_plan_result' =
       [x \in DOMAIN agent_plan_result \cup {a} |->
          IF x = a THEN success ELSE agent_plan_result[x]]
  /\ todo_agents' = todo_agents \ {a}
  /\ added' = None
  /\ UNCHANGED <<executing_plan, valid_endpoints, valid_agents, todo_endpoints,
                 endpoint_plan_result, before>>

\* Slip: agents are not held back until the endpoints are there.
AnyAgentTurn(a) == a \in todo_agents

AgentTurn(a) == todo_endpoints = {} /\ a \in todo_agents

RefuseAgent(a) ==
  /\ AgentTurn(a)
  /\ added = None
  /\ a \notin valid_agents \/ DiscardPlan
  /\ ReportAgent(a, FALSE)
  /\ UNCHANGED vars

\* The definition may refuse to create the agent although its config parses.
AddPlanAgent(a) ==
  /\ AgentTurn(a)
  /\ added = None
  /\ a \in valid_agents
  /\ ~ DiscardPlan
  /\ \/ ReportAgent(a, FALSE) /\ UNCHANGED vars
     \/ /\ addAgent(a)
        /\ IF executing_plan.agent_list[a].start_on_create
             THEN RememberAdded(a)
             ELSE ReportAgent(a, TRUE)

\* An agent that does not start stays registered.
StartPlanAgent(a) ==
  /\ AgentTurn(a)
  /\ added = a
  /\ \/ startAgent(a) /\ ReportAgent(a, TRUE)
     \/ UNCHANGED vars /\ ReportAgent(a, FALSE)

(* The agents, in threads of their own.                                    *)

AgentActs(a) ==
  /\ \/ AgentProgress(a)
     \/ /\ a \in agents
        /\ \E e \in EndpointName, h \in HandleId : createMavlinkEndpointUser(e, a, h)
     \/ \E h \in HandleId : Live(h) /\ handle[h].user = a /\ HandleNext(h)
  /\ UNCHANGED planVars

-----------------------------------------------------------------------------
EndpointLoop ==
  \E e \in EndpointName : RefuseEndpoint(e) \/ AddPlanEndpoint(e) \/ ConnectPlanEndpoint(e)

AgentLoop == \E a \in AgentName : RefuseAgent(a) \/ AddPlanAgent(a) \/ StartPlanAgent(a)

PlanSteps == EndpointLoop \/ AgentLoop

PlanNext ==
  \/ \E p \in SubmittedPlan : BeginPlan(p)
  \/ PlanSteps
  \/ \E a \in AgentName : AgentActs(a)

allVars == <<vars, planVars>>

PlanSpec == PlanInit /\ [][PlanNext]_allVars

-----------------------------------------------------------------------------
(* Properties.                                                             *)

PlannedEndpoints == DOMAIN executing_plan.endpoint_list
PlannedAgents == DOMAIN executing_plan.agent_list

\* What the plan's entries deserve, told from the plan and from what was
\* registered when executePlan was called, never from what it computed.
GoodEndpoints ==
  {e \in PlannedEndpoints \ before.endpoint_db : executing_plan.endpoint_list[e].usable}
GoodAgents ==
  {a \in PlannedAgents \ before.agents : executing_plan.agent_list[a].usable}

AllGood == GoodEndpoints = PlannedEndpoints /\ GoodAgents = PlannedAgents

\* Every variable keeps its shape while executePlan's loops run; each entry
\* of the plan has either been reported or is still to be handled, never both
\* and never neither, and an entry of an earlier plan is not reported again.
PlanTypeOK ==
  /\ executing_plan \in UserPlan \cup {None}
  /\ added \in {None} \cup todo_endpoints \cup todo_agents
  /\ before.endpoint_db \subseteq endpoint_db
  /\ before.agents \subseteq agents
  /\ executing_plan = None => todo_endpoints = {} /\ todo_agents = {}
  /\ executing_plan # None =>
       /\ valid_endpoints \subseteq PlannedEndpoints
       /\ valid_agents \subseteq PlannedAgents
       /\ todo_endpoints \subseteq PlannedEndpoints
       /\ todo_agents \subseteq PlannedAgents
       /\ endpoint_plan_result \in [PlannedEndpoints \ todo_endpoints -> BOOLEAN]
       /\ agent_plan_result \in [PlannedAgents \ todo_agents -> BOOLEAN]

\* A DISCARD plan with one entry that is unusable or whose name is taken
\* registers nothing at all, at any moment of its execution and whichever
\* list the bad entry is in (IManager.h: if any entry is invalid, nothing is
\* executed).
DiscardIsAllOrNothing ==
  executing_plan # None =>
    (executing_plan.policy = "DISCARD" /\ ~ AllGood =>
       endpoint_db = before.endpoint_db /\ agents = before.agents)

\* A plan that is not refused as a whole registers exactly its good endpoint
\* entries once it has run, and no agent that is not a good entry: a bad
\* entry keeps no other entry out (IManager.h: valid entries are applied while
\* invalid entries are skipped).
GoodEntriesAreApplied ==
  executing_plan # None /\ ~ Executing =>
    (executing_plan.policy # "DISCARD" \/ AllGood =>
       /\ endpoint_db = before.endpoint_db \cup GoodEndpoints
       /\ agents \subseteq before.agents \cup GoodAgents)

\* An agent of the plan never exists, let alone runs, before every endpoint
\* of the plan has been registered and connected or given up: an agent that
\* asks for an endpoint of its own plan while it starts finds it
\* (executePlan's two loops).
EndpointsSettleFirst ==
  agents # before.agents =>
    /\ todo_endpoints = {}
    /\ GoodEndpoints \subseteq endpoint_db

\* What executePlan reports is what became of the entry: a success means its
\* name was free and is now registered, and the endpoint connected if the plan
\* asked for that; an endpoint that failed was never added or was to be
\* connected and is down, an agent that failed was never added or was to be
\* started.
ReportTellsTruth ==
  executing_plan # None =>
    /\ \A e \in DOMAIN endpoint_plan_result :
         IF endpoint_plan_result[e]
           THEN /\ e \in endpoint_db \ before.endpoint_db
                /\ executing_plan.endpoint_list[e].connect_on_create => link[e] = "CONNECTED"
           ELSE e \in endpoint_db \ before.endpoint_db =>
                  executing_plan.endpoint_list[e].connect_on_create /\ link[e] # "CONNECTED"
    /\ \A a \in DOMAIN agent_plan_result :
         IF agent_plan_result[a]
           THEN a \in agents \ before.agents
           ELSE a \in agents \ before.agents => executing_plan.agent_list[a].start_on_create

\* A plan leaves alone what it did not create: the endpoints registered
\* before it keep their object and their connection, the agents their state
\* but for the progress they make by themselves, whatever entries of the plan
\* have their names.
ExistingUntouched ==
  [][PlanSteps =>
       /\ \A e \in before.endpoint_db :
            generation'[e] = generation[e] /\ link'[e] = link[e]
       /\ \A a \in before.agents : agent_state'[a] = agent_state[a]]_allVars
=============================================================================
