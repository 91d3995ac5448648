--------------------------- MODULE MCPlanExecution ---------------------------
EXTENDS PlanExecution, TLC

\* The flag of an unusable entry is never read: FALSE stands for both.
EndpointEntries ==
  {x \in MavlinkEndpointEntry : x.usable \/ ~ x.connect_on_create}

AgentEntries ==
  {x \in AgentEntry : x.usable \/ ~ x.start_on_create}

\* Plans of up to two agent entries, or of up to two endpoint entries and one
\* agent entry (beside two endpoint entries, a usable agent entry is one to
\* start: not starting it leaves out its last step only). executePlan only asks whether the policy is DISCARD, so
\* BEST_EFFORT stands for INDETERMINATE as well.
MCSubmittedPlan ==
  {p \in [policy : {"DISCARD", "BEST_EFFORT"},
          endpoint_list : PartialMaps(EndpointName, EndpointEntries),
          agent_list : PartialMaps(AgentName, AgentEntries)] :
     /\ Cardinality(DOMAIN p.agent_list) = 2 => DOMAIN p.endpoint_list = {}
     /\ Cardinality(DOMAIN p.endpoint_list) = 2 =>
          \A a \in DOMAIN p.agent_list :
             p.agent_list[a].usable => p.agent_list[a].start_on_create}

Symmetry == Permutations(EndpointName) \cup Permutations(AgentName)
=============================================================================
