------------------------------ MODULE StatusJson ------------------------------
(***************************************************************************)
(* What AppService answers a query with: the encoders of JsonUtils.cpp,    *)
(* and the two decoders that turn a list of states back into the rows of   *)
(* the overview. A JSON text is reduced to its one key and what it holds.  *)
(*                                                                         *)
(* A single state is encoded by its name, but a list carries the number    *)
(* the compiler gives the enumerator, which the decoder casts back.        *)
(***************************************************************************)
EXTENDS Integers

CONSTANTS
  AgentStateCode,     \* [AgentState -> the enumerator's number]
  EndpointStateCode,  \* [MavlinkEndpointState -> the enumerator's number]
  Nullopt             \* the answer for an unknown name, the decoder's refusal

Distinct(code) == \A s, t \in DOMAIN code : code[s] = code[t] => s = t

ASSUME StatusJsonAssumption ==
  /\ AgentStateCode \in [{"IDLE", "STARTING", "ACTIVE", "STOPPING"} -> Int]
  /\ EndpointStateCode \in
       [{"CONNECTED", "CONNECTING", "DISCONNECTED", "DISCONNECTING"} -> Int]
  /\ Distinct(AgentStateCode)
  /\ Distinct(EndpointStateCode)

agentStateToString(state) ==
  CASE state = "ACTIVE" -> "active"
    [] state = "IDLE" -> "idle"
    [] state = "STARTING" -> "starting"
    [] state = "STOPPING" -> "stopping"
    [] OTHER -> "unknown agent state"

endpointStateToString(state) ==
  CASE state = "CONNECTED" -> "connected"
    [] state = "CONNECTING" -> "connecting"
    [] state = "DISCONNECTED" -> "disconnected"
    [] state = "DISCONNECTING" -> "disconnecting"
    [] OTHER -> "unknown endpoint state"

StateText ==
  {"active", "idle", "starting", "stopping", "unknown agent state", "connected", "connecting",
   "disconnected", "disconnecting", "unknown endpoint state"}

\* static_cast from a number; no enumerator may have it.
Enumerator(code, number) ==
  IF \E s \in DOMAIN code : code[s] = number
    THEN CHOOSE s \in DOMAIN code : code[s] = number
    ELSE "none"

Doc(key, value) == [key |-> key, value |-> value]

endpointListToJsonString(names) == Doc("endpoint_list", names)

agentListToJsonString(names) == Doc("agent_list", names)

endpointStatusToJsonString(state) == Doc("endpoint_status", endpointStateToString(state))

agentStatusToJsonString(state) == Doc("agent_status", agentStateToString(state))

endpointStatusListToJsonString(list) ==
  Doc("endpoint_status_list", [n \in DOMAIN list |-> EndpointStateCode[list[n]]])

agentStatusListToJsonString(list) ==
  Doc("agent_status_list", [n \in DOMAIN list |-> AgentStateCode[list[n]]])

agentReportToJsonString(name, report) ==
  Doc("agent_report", [name |-> name, report |-> report])

agentReportListToJsonString(list) == Doc("agent_report_list", list)

executionResultListToJsonString(endpoints, all_agents) ==
  Doc("execution_result", [endpoint_plan_result |-> endpoints, agent_plan_result |-> all_agents])

endpointStatusListFromJsonString(doc) ==
  IF doc.key # "endpoint_status_list" THEN Nullopt
  ELSE [n \in DOMAIN doc.value |->
          endpointStateToString(Enumerator(EndpointStateCode, doc.value[n]))]

agentStatusListFromJsonString(doc) ==
  IF doc.key # "agent_status_list" THEN Nullopt
  ELSE [n \in DOMAIN doc.value |->
          agentStateToString(Enumerator(AgentStateCode, doc.value[n]))]
=============================================================================
