------------------------------ MODULE JsonUtils ------------------------------
(***************************************************************************)
(* The decoders of JsonUtils.cpp, from a parsed JSON document to a plan or *)
(* to a library list. A document is reduced to what the decoders ask of    *)
(* it: which sections it has, whether a section is an array, and for each  *)
(* entry its name, its form and the data it describes.                     *)
(***************************************************************************)
EXTENDS Integers, Sequences

\* std::optional: the decoders refuse with nullopt.
Nullopt == [has_value |-> FALSE]

Optional(v) == [has_value |-> TRUE, value |-> v]

\* What can be wrong with an entry: a required field is missing, the flag
\* (connect_on_create, start_on_create) is missing or no Boolean, the config
\* is no object.
EntryForm == {"complete", "missing_field", "no_flag", "flag_not_bool", "config_not_object"}

SectionShape == {"absent", "not_array", "array"}

PolicyText == {"discard", "best_effort", "unknown", "absent"}

\* A section, an array's entries in their order, and the documents they are
\* sections of.
IsSection(section) ==
  /\ section.shape \in SectionShape
  /\ Len(section.entries) \in Nat
  /\ DOMAIN section.entries = 1 .. Len(section.entries)

IsPlanDocument(doc) ==
  doc.policy \in PolicyText /\ IsSection(doc.endpoint_list) /\ IsSection(doc.agent_list)

NoEntries == [n \in {} |-> Nullopt]

Insert(list, name, value) ==
  [n \in DOMAIN list \cup {name} |-> IF n = name THEN value ELSE list[n]]

\* connect_on_create is required, start_on_create is not.
EndpointFormOK(entry) == entry.form = "complete"

AgentFormOK(entry) == entry.form \in {"complete", "no_flag"}

EndpointData(entry) == entry.data

\* An absent start_on_create is false.
AgentData(entry) ==
  IF entry.form = "no_flag"
    THEN [entry.data EXCEPT !.start_on_create = FALSE]
    ELSE entry.data

\* Slip: a malformed entry is skipped whatever the policy.
SkipMalformed(list, policy) == list

\* A malformed entry is skipped under BEST_EFFORT and refuses the whole list
\* under every other value.
OnMalformed(list, policy) == IF policy = "BEST_EFFORT" THEN list ELSE Nullopt

\* What an entry describes, if it is well formed.
EndpointItem(entry) ==
  IF EndpointFormOK(entry) THEN Optional([name |-> entry.name, data |-> EndpointData(entry)])
  ELSE Nullopt

AgentItem(entry) ==
  IF AgentFormOK(entry) THEN Optional([name |-> entry.name, data |-> AgentData(entry)])
  ELSE Nullopt

\* One turn of the loop over an array; once it has returned it stays returned.
TakeItem(list, item, policy) ==
  IF ~ list.has_value THEN list
  ELSE IF ~ item.has_value THEN OnMalformed(list, policy)
  ELSE Optional(Insert(list.value, item.value.name, item.value.data))

\* The list after the first i of n entries.
ListAfter(items, n, policy) ==
  LET list[i \in 0 .. n] ==
        IF i = 0 THEN Optional(NoEntries) ELSE TakeItem(list[i - 1], items[i], policy)
  IN  list

DecodeEntries(items, n, policy) == ListAfter(items, n, policy)[n]

jsonToEndpointList(section, policy) ==
  IF section.shape # "array" THEN Nullopt
  ELSE DecodeEntries([i \in DOMAIN section.entries |-> EndpointItem(section.entries[i])],
                     Len(section.entries), policy)

jsonToAgentList(section, policy) ==
  IF section.shape # "array" THEN Nullopt
  ELSE DecodeEntries([i \in DOMAIN section.entries |-> AgentItem(section.entries[i])],
                     Len(section.entries), policy)

\* Slip: a refused list refuses the plan whatever the policy.
ListOrNothing(section, decoded, policy) ==
  IF section.shape = "absent" THEN Optional(NoEntries) ELSE decoded

\* A refused list refuses the plan under DISCARD and counts as empty under
\* every other value; an absent section is an empty list.
ListOf(section, decoded, policy) ==
  IF section.shape # "absent" /\ (decoded.has_value \/ policy = "DISCARD")
    THEN decoded ELSE Optional(NoEntries)

\* Slip: a document without a policy is refused.
PolicyRequired(doc, unset) ==
  CASE doc.policy = "discard" -> Optional("DISCARD")
    [] doc.policy = "best_effort" -> Optional("BEST_EFFORT")
    [] doc.policy \in {"unknown", "absent"} -> Nullopt

\* UserPlan::policy has no initializer: when the document does not state one,
\* it is whatever the memory held, `unset' here.
PolicyOf(doc, unset) ==
  CASE doc.policy = "discard" -> Optional("DISCARD")
    [] doc.policy = "best_effort" -> Optional("BEST_EFFORT")
    [] doc.policy = "unknown" -> Nullopt
    [] doc.policy = "absent" -> Optional(unset)

\* The two sections, decoded under the policy.
EndpointsOf(doc, policy) ==
  ListOf(doc.endpoint_list, jsonToEndpointList(doc.endpoint_list, policy), policy)

AgentsOf(doc, policy) ==
  ListOf(doc.agent_list, jsonToAgentList(doc.agent_list, policy), policy)

jsonToUserPlan(doc, unset) ==
  LET policy == PolicyOf(doc, unset) IN
    IF /\ policy.has_value
       /\ EndpointsOf(doc, policy.value).has_value
       /\ AgentsOf(doc, policy.value).has_value
      THEN Optional([policy |-> policy.value,
                     endpoint_list |-> EndpointsOf(doc, policy.value).value,
                     agent_list |-> AgentsOf(doc, policy.value).value])
      ELSE Nullopt

\* A malformed entry or a repeated name refuses the list.
AddLib(list, entry) ==
  IF ~ list.has_value \/ entry.form # "complete" \/ entry.name \in DOMAIN list.value
    THEN Nullopt
    ELSE Optional(Insert(list.value, entry.name, [name |-> entry.name, data |-> entry.data]))

LibsAfter(entries) ==
  LET list[i \in 0 .. Len(entries)] ==
        IF i = 0 THEN Optional(NoEntries) ELSE AddLib(list[i - 1], entries[i])
  IN  list

jsonToLibList(section) ==
  IF section.shape # "array" THEN Nullopt
  ELSE LibsAfter(section.entries)[Len(section.entries)]

\* AppConfig::apply_user_plan_on_startup has no initializer either.
FlagOf(cfg, unset) ==
  IF cfg.apply_user_plan_on_startup = "absent" THEN unset
  ELSE cfg.apply_user_plan_on_startup = "true"

LibsOf(section) ==
  IF section.shape = "absent" THEN Optional(NoEntries) ELSE jsonToLibList(section)

jsonToAppConfig(cfg, unset) ==
  IF LibsOf(cfg.agent_lib_list).has_value /\ LibsOf(cfg.transport_lib_list).has_value
    THEN Optional([agent_lib_list |-> LibsOf(cfg.agent_lib_list).value,
                   transport_lib_list |-> LibsOf(cfg.transport_lib_list).value,
                   apply_user_plan_on_startup |-> FlagOf(cfg, unset)])
    ELSE Nullopt
=============================================================================
