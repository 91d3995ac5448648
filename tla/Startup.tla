------------------------------- MODULE Startup -------------------------------
(***************************************************************************)
(* From the command line to a running hub and back: parseArgs, applyConfig *)
(* with the libraries and the startup plan it loads, and the destruction   *)
(* of App's members in reverse order. Composes the decoders (JsonUtils)    *)
(* and the library loader (Libraries); what applying the plan does to the  *)
(* Manager is the subject of PlanExecution.                                *)
(***************************************************************************)
EXTENDS Libraries, JsonUtils

CONSTANTS
  None,             \* no document or configuration
  ConfigDocuments,  \* configuration files, and extra library lists
  PlanDocuments     \* startup plan files

\* Libraries to load: each has a name and a file.
IsLibList(list) ==
  DOMAIN list \subseteq LibName /\ \A n \in DOMAIN list : list[n].data \in LibPath

\* The sections of a configuration name libraries of the model.
IsLibSection(section) ==
  /\ IsSection(section)
  /\ \A i \in DOMAIN section.entries :
       section.entries[i].name \in LibName /\ section.entries[i].data \in LibPath

ASSUME StartupAssumption ==
  /\ None \notin PlanDocuments
  /\ \A doc \in PlanDocuments : IsPlanDocument(doc)
  /\ \A doc \in ConfigDocuments :
       IsLibSection(doc.agent_lib_list) /\ IsLibSection(doc.transport_lib_list)

VARIABLES
  stage,          \* what App::run and ~App are doing
  config_file,    \* the configuration file that was read
  config,         \* the AppConfig decoded from it, until it is applied
  extra,          \* the transport libraries of the extra list, until loaded
  todo,           \* the libraries the current loop has yet to load
  plan_file,      \* the plan file that was read
  current_plan,   \* AppServiceImpl::current_plan, an optional
  plan_applied,   \* has APPLY_CURRENT_PLAN been executed?
  objects         \* the libraries whose code agents and transports run

startupVars == <<stage, config_file, config, extra, todo, plan_file, current_plan,
                 plan_applied, objects>>

allVars == <<opened, registry, handles, reported, collided, stage, config_file, config,
             extra, todo, plan_file, current_plan, plan_applied, objects>>

StartupInit ==
  /\ LibInit
  /\ stage = "parsing"
  /\ config_file = None
  /\ config = None
  /\ extra = NoEntries
  /\ todo = NoEntries
  /\ plan_file = None
  /\ current_plan = Nullopt
  /\ plan_applied = FALSE
  /\ objects = {}

(* parseArgs.                                                              *)

\* Help, a bad option, or a configuration that cannot be read or parsed.
GiveUp ==
  /\ stage = "parsing"
  /\ stage' = "exited"
  /\ UNCHANGED <<libVars, config_file, config, extra, todo, plan_file, current_plan,
                 plan_applied, objects>>

\* Without -c the configuration is that of an empty document.
parseArgs(doc) ==
  /\ stage = "parsing"
  /\ \E unset \in BOOLEAN :
       LET decoded == jsonToAppConfig(doc, unset) IN
         IF ~ decoded.has_value
           THEN stage' = "exited" /\ UNCHANGED <<config_file, config, todo>>
           ELSE /\ stage' = "agent_libs"
                /\ config_file' = doc
                /\ config' = decoded.value
                /\ todo' = decoded.value.agent_lib_list
  /\ UNCHANGED <<libVars, extra, plan_file, current_plan, plan_applied, objects>>

(* applyConfig.                                                            *)

KindOf == [agent_libs |-> "agent", transport_libs |-> "transport",
           extra_agent_libs |-> "agent", extra_transport_libs |-> "transport"]

\* One library of the list the current loop goes through; a failed load does
\* not end the loop.
LoadLibrary(n) ==
  /\ stage \in DOMAIN KindOf
  /\ n \in DOMAIN todo
  /\ Load(KindOf[stage], n, todo[n].data)
  /\ todo' = [m \in DOMAIN todo \ {n} |-> todo[m]]
  /\ UNCHANGED <<stage, config_file, config, extra, plan_file, current_plan, plan_applied,
                 objects>>

EnterStage(from, to, list) ==
  /\ stage = from
  /\ DOMAIN todo = {}
  /\ stage' = to
  /\ todo' = list
  /\ UNCHANGED <<libVars, config_file, config, extra, plan_file, current_plan, plan_applied,
                 objects>>

NextList ==
  \/ EnterStage("agent_libs", "transport_libs", config.transport_lib_list)
  \/ EnterStage("transport_libs",
                IF config_file.names_extra_libs THEN "extra_file" ELSE "plan", NoEntries)
  \/ EnterStage("extra_agent_libs", "extra_transport_libs", extra)
  \/ EnterStage("extra_transport_libs", "plan", NoEntries)

\* applyConfig returns; App::run ignores its result.
ConfigApplied ==
  /\ stage' = "running"
  /\ config' = None
  /\ extra' = NoEntries

\* A missing or malformed extra list ends applyConfig, startup plan included.
ReadExtraList(doc) ==
  /\ stage = "extra_file"
  /\ \E unset \in BOOLEAN :
       LET decoded == jsonToAppConfig(doc, unset) IN
         IF ~ decoded.has_value
           THEN ConfigApplied /\ UNCHANGED todo
           ELSE /\ stage' = "extra_agent_libs"
                /\ extra' = decoded.value.transport_lib_list
                /\ todo' = decoded.value.agent_lib_list
                /\ UNCHANGED config
  /\ UNCHANGED <<libVars, config_file, plan_file, current_plan, plan_applied, objects>>

ExtraListMissing ==
  /\ stage = "extra_file"
  /\ ConfigApplied
  /\ UNCHANGED <<libVars, config_file, todo, plan_file, current_plan, plan_applied, objects>>

\* No plan is configured, or its file cannot be opened or parsed.
SkipPlan ==
  /\ stage = "plan"
  /\ ConfigApplied
  /\ UNCHANGED <<libVars, config_file, todo, plan_file, current_plan, plan_applied, objects>>

\* LOAD_PLAN_FROM_PATH, then the decision to apply.
LoadPlan(doc) ==
  /\ stage = "plan"
  /\ config_file.names_plan
  /\ plan_file' = doc
  /\ \E unset \in {"DISCARD", "BEST_EFFORT", "INDETERMINATE"} :
       LET decoded == jsonToUserPlan(doc, unset) IN
         IF ~ decoded.has_value
           THEN ConfigApplied /\ UNCHANGED current_plan
           ELSE /\ current_plan' = decoded
                /\ IF config.apply_user_plan_on_startup
                     THEN stage' = "applying" /\ UNCHANGED <<config, extra>>
                     ELSE ConfigApplied
  /\ UNCHANGED <<libVars, config_file, todo, plan_applied, objects>>

RegisteredLibraries ==
  UNION {{registry[k][n] : n \in DOMAIN registry[k]} : k \in Kind}

\* APPLY_CURRENT_PLAN creates agents and transports from registered
\* definitions.
ApplyPlan ==
  /\ stage = "applying"
  /\ ConfigApplied
  /\ plan_applied' = TRUE
  /\ objects' \in SUBSET RegisteredLibraries
  /\ UNCHANGED <<libVars, config_file, todo, plan_file, current_plan>>

(* ~AppImpl, in reverse order of its members.                              *)

\* Slip: the loader goes before the Manager.
DestroyLoaderFirst ==
  /\ stage = "running"
  /\ CloseAll
  /\ stage' = "manager_destroyed"
  /\ UNCHANGED <<config_file, config, extra, todo, plan_file, current_plan, plan_applied,
                 objects>>

DestroyManager ==
  /\ stage = "running"
  /\ stage' = "manager_destroyed"
  /\ objects' = {}
  /\ UNCHANGED <<libVars, config_file, config, extra, todo, plan_file, current_plan,
                 plan_applied>>

DestroyLoader ==
  /\ stage = "manager_destroyed"
  /\ CloseAll
  /\ stage' = "loader_destroyed"
  /\ UNCHANGED <<config_file, config, extra, todo, plan_file, current_plan, plan_applied,
                 objects>>

-----------------------------------------------------------------------------
StartupNext ==
  \/ GiveUp
  \/ \E doc \in ConfigDocuments : parseArgs(doc)
  \/ \E n \in LibName : LoadLibrary(n)
  \/ NextList
  \/ \E doc \in ConfigDocuments : ReadExtraList(doc)
  \/ ExtraListMissing
  \/ SkipPlan
  \/ \E doc \in PlanDocuments : LoadPlan(doc)
  \/ ApplyPlan
  \/ DestroyManager
  \/ DestroyLoader

StartupSpec == StartupInit /\ [][StartupNext]_allVars

-----------------------------------------------------------------------------
(* Properties: libraries.                                                  *)

\* Every variable keeps its shape; in particular no library is closed more
\* often than it was opened.
TypeOK ==
  /\ LibTypeOK
  /\ stage \in {"parsing", "exited", "extra_file", "plan", "applying", "running",
                "manager_destroyed", "loader_destroyed"} \cup DOMAIN KindOf
  /\ config_file \in ConfigDocuments \cup {None}
  /\ DOMAIN todo \subseteq LibName
  /\ plan_file \in PlanDocuments \cup {None}
  /\ plan_applied \in BOOLEAN
  /\ objects \subseteq LibPath

\* As long as the loader lives, a registered definition lies in a library that
\* is open, and it is the library whose handle is recorded under the name:
\* addAgentDefinition and the loader's emplace resolve a repeated name alike.
DefinitionsAreBacked ==
  stage # "loader_destroyed" =>
    /\ registry = handles
    /\ \A k \in Kind : \A n \in DOMAIN registry[k] : opened[registry[k][n]] > 0

\* No agent or transport outlives the library its code is in: the Manager is
\* destroyed before the loader (App.cpp declares it after).
ObjectsHaveCode == \A p \in objects : opened[p] > 0

\* Once the loader is gone no library is open any more, unless a definition
\* was loaded under a name that was taken; the count never goes below zero.
NothingStaysOpen ==
  /\ \A p \in LibPath : opened[p] >= 0
  /\ stage = "loader_destroyed" /\ ~ collided => \A p \in LibPath : opened[p] = 0

(* Properties: the startup plan.                                           *)

\* The entries of a section, none unless it is an array.
EntriesOf(section) == IF section.shape = "array" THEN section.entries ELSE <<>>

GoodEntries(section, FormOK(_)) ==
  {i \in DOMAIN EntriesOf(section) : FormOK(section.entries[i])}

AllGood(section, FormOK(_)) ==
  section.shape # "not_array" /\ GoodEntries(section, FormOK) = DOMAIN EntriesOf(section)

DocumentIsGood(doc) ==
  AllGood(doc.endpoint_list, EndpointFormOK) /\ AllGood(doc.agent_list, AgentFormOK)

\* The list holds exactly the names of the section's good entries, each with
\* the data of the last good entry of that name.
HoldsGoodEntries(list, section, FormOK(_), Data(_)) ==
  LET good == GoodEntries(section, FormOK) IN
    /\ DOMAIN list = {section.entries[i].name : i \in good}
    /\ \A i \in good :
         (\A j \in good : j > i => section.entries[j].name # section.entries[i].name)
           => list[section.entries[i].name] = Data(section.entries[i])

PlanHoldsGoodEntries ==
  /\ HoldsGoodEntries(current_plan.value.endpoint_list, plan_file.endpoint_list,
                      EndpointFormOK, EndpointData)
  /\ HoldsGoodEntries(current_plan.value.agent_list, plan_file.agent_list, AgentFormOK, AgentData)

\* Under "discard" one malformed entry refuses the whole file, and nothing
\* else does (JsonUtils.h: nullopt on a malformed entry).
DiscardLoadsAllOrNothing ==
  plan_file # None /\ plan_file.policy = "discard" =>
    (current_plan.has_value <=> DocumentIsGood(plan_file))

\* Under "best_effort" every file loads, with exactly its good entries.
BestEffortLoadsTheGood ==
  plan_file # None /\ plan_file.policy = "best_effort" =>
    current_plan.has_value /\ PlanHoldsGoodEntries

\* A good file loads as it stands whatever its policy, also when it states
\* none and the decoder goes by an indeterminate value.
GoodFilesLoadFaithfully ==
  plan_file # None /\ plan_file.policy # "unknown" /\ DocumentIsGood(plan_file) =>
    current_plan.has_value /\ PlanHoldsGoodEntries

\* The startup plan is applied only when the configuration says so
\* (JsonUtils.h: optional sections, the plan flag among them, are only applied
\* when present).
PlanAppliedOnlyWhenAsked ==
  plan_applied => config_file.apply_user_plan_on_startup = "true"
=============================================================================
