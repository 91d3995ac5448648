------------------------------ MODULE MCStartup ------------------------------
EXTENDS Startup

CONSTANTS n1, n2, p1, p2, a1, e1, e2

Absent == [shape |-> "absent", entries |-> <<>>]
NotArray == [shape |-> "not_array", entries |-> <<>>]
Array(entries) == [shape |-> "array", entries |-> entries]

\* Library lists: none, one, two, one whose entry is malformed, and one that
\* repeats a name.
Lib(n, p) == [name |-> n, form |-> "complete", data |-> p]
BadLib == [name |-> n1, form |-> "missing_field", data |-> p1]

AgentLibSections ==
  {Absent, Array(<<Lib(n1, p1)>>), Array(<<Lib(n1, p2), Lib(n2, p2)>>),
   Array(<<Lib(n1, p1), BadLib>>), Array(<<Lib(n1, p1), Lib(n1, p2)>>)}

TransportLibSections == {Absent, Array(<<Lib(n1, p2)>>)}

\* How a plan file decodes does not depend on the libraries: with a plan, one
\* library of the main list will do, beside those of the extra list.
MCConfigDocuments ==
  {doc \in [agent_lib_list : AgentLibSections,
            transport_lib_list : TransportLibSections,
            apply_user_plan_on_startup : {"absent", "true", "false"},
            names_extra_libs : BOOLEAN,
            names_plan : BOOLEAN] :
     doc.names_plan => doc.agent_lib_list \in {Absent, Array(<<Lib(n1, p1)>>)}}

\* Plans: up to two endpoint entries, which may share a name, and up to two
\* agent entries of one name.
EndpointItems ==
  {[name |-> n, form |-> f, data |-> [usable |-> TRUE, connect_on_create |-> c]] :
     <<n, f, c>> \in {<<e1, "complete", TRUE>>, <<e1, "complete", FALSE>>,
                      <<e2, "no_flag", TRUE>>}}

AgentItems ==
  {[name |-> a1, form |-> f, data |-> [usable |-> TRUE, start_on_create |-> TRUE]] :
     f \in {"complete", "no_flag", "config_not_object"}}

SeqsUpTo2(S) == {<<>>} \cup {<<x>> : x \in S} \cup {<<x, y>> : x \in S, y \in S}

AgentSections ==
  {Absent, NotArray} \cup {Array(<<x>>) : x \in AgentItems}
    \cup {Array(<<x, y>>) : x, y \in {i \in AgentItems : i.form # "complete"}}

MCPlanDocuments ==
  [policy : PolicyText,
   endpoint_list : {Absent, NotArray} \cup {Array(s) : s \in SeqsUpTo2(EndpointItems)},
   agent_list : AgentSections]
=============================================================================
