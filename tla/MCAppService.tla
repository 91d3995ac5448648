----------------------------- MODULE MCAppService -----------------------------
EXTENDS AppService, TLC

CONSTANTS e1, a1, a2

Entry(usable, connect) == [usable |-> usable, connect_on_create |-> connect]
Agent(usable, start) == [usable |-> usable, start_on_create |-> start]

\* Good and bad entries in either list and under either policy, entries that
\* are connected or started at once, and plans that share names.
MCSubmittedPlan ==
  {[policy |-> "DISCARD",
    endpoint_list |-> e1 :> Entry(TRUE, TRUE),
    agent_list |-> a1 :> Agent(TRUE, TRUE)],
   [policy |-> "DISCARD",
    endpoint_list |-> e1 :> Entry(TRUE, FALSE),
    agent_list |-> a2 :> Agent(FALSE, FALSE)],
   [policy |-> "BEST_EFFORT",
    endpoint_list |-> e1 :> Entry(FALSE, FALSE),
    agent_list |-> a1 :> Agent(TRUE, TRUE) @@ a2 :> Agent(TRUE, FALSE)]}

\* One of the commands that load a plan and one of those whose case is empty
\* stand for the others, which differ from it in name only.
MCIssuedCommand ==
  {c \in AppServiceCommand :
     c.type \notin (LoadCommand \cup EmptyCommand) \ {"LOAD_PLAN_FROM_PATH", "GET_STATUS"}}

\* Any numbers will do as long as they differ.
MCAgentStateCode == [IDLE |-> 0, STARTING |-> 1, ACTIVE |-> 2, STOPPING |-> 3]
MCEndpointStateCode ==
  [CONNECTED |-> 0, CONNECTING |-> 1, DISCONNECTED |-> 2, DISCONNECTING |-> 3]
=============================================================================
