------------------------------- MODULE Manager -------------------------------
(***************************************************************************)
(* The Manager of the hub: the registry of MAVLink endpoints and agents,   *)
(* and the per-requester reference counts every endpoint keeps of the      *)
(* MavlinkEndpointUser handles that were created on it.                    *)
(*                                                                         *)
(* A handle holds a weak reference to one MavlinkEndpoint OBJECT but is    *)
(* accounted for by the endpoint's NAME, and a name may be removed and     *)
(* registered again: `generation' tells the objects of one name apart.     *)
(*                                                                         *)
(* IManager is not thread-safe by contract (IManager.h), so one call is    *)
(* one action here.                                                        *)
(***************************************************************************)
EXTENDS Integers, FiniteSets

CONSTANTS
  EndpointName,         \* names an endpoint may be registered under
  AgentName,            \* names an agent may be registered under
  ClientName,           \* requesters of IManager that are not agents
  HandleId,             \* MavlinkEndpointUser objects that may live at once
  NoHandle,             \* a HandleId that no object occupies
  MaxGeneration,        \* bound: objects ever created under one endpoint name
  AllowExplicitRelease  \* may a caller use removeMavlinkEndpointUser directly?

Requester == AgentName \cup ClientName

LinkState == {"DISCONNECTED", "CONNECTED"}

AgentState == {"IDLE", "STARTING", "ACTIVE", "STOPPING"}

HandleRecord ==
  [endpoint : EndpointName, user : Requester, generation : Nat]

ASSUME ManagerAssumption ==
  /\ AgentName \cap ClientName = {}
  /\ IsFiniteSet(HandleId)
  /\ NoHandle \notin HandleRecord
  /\ MaxGeneration \in Nat
  /\ AllowExplicitRelease \in BOOLEAN

VARIABLES
  endpoint_db,  \* the registered endpoint names
  generation,   \* [EndpointName -> number of objects created under the name]
  user_count,   \* [EndpointName -> the entry's map from requester to count]
  link,         \* [EndpointName -> connection state of the current object]
  agents,       \* the registered agent names
  agent_state,  \* [AgentName -> AgentState], meaningful for registered agents
  handle,       \* [HandleId -> HandleRecord or NoHandle]
  seen,         \* [HandleId -> what the last call through the handle found]
  disturbed     \* history: the registered names whose counts may have drifted

endpointVars == <<endpoint_db, generation, user_count, link, disturbed>>
agentVars == <<agents, agent_state>>
handleVars == <<handle, seen>>
vars ==
  <<endpoint_db, generation, user_count, link, agents, agent_state, handle, seen, disturbed>>

-----------------------------------------------------------------------------
(* Reference counts. A count map holds only the requesters it has a count  *)
(* for: removeMavlinkEndpointUser erases a count that reaches zero.        *)

NoUsers == [r \in {} |-> 0]

IsCountMap(counts) ==
  /\ counts = [r \in DOMAIN counts |-> counts[r]]
  /\ DOMAIN counts \subseteq Requester
  /\ \A r \in DOMAIN counts : counts[r] \in Nat /\ counts[r] > 0

\* The requester's count, 0 when the map does not list it.
CountIn(counts, r) == IF r \in DOMAIN counts THEN counts[r] ELSE 0

CountOf(e, r) == CountIn(user_count[e], r)

\* Slip: a requester already in the map is not counted again.
AcquiredOnce(counts, r) ==
  [s \in DOMAIN counts \cup {r} |-> IF s \in DOMAIN counts THEN counts[s] ELSE 1]

\* createMavlinkEndpointUser's bookkeeping: a first count of 1, or one more.
Acquired(counts, r) ==
  [s \in DOMAIN counts \cup {r} |->
     IF s # r THEN counts[s]
     ELSE IF r \in DOMAIN counts THEN counts[r] + 1 ELSE 1]

\* Slip: a count that reaches zero is kept in the map.
ReleasedKeepsZero(counts, r, n) ==
  IF r \in DOMAIN counts /\ n > 0
    THEN [counts EXCEPT ![r] = IF @ <= n THEN 0 ELSE @ - n]
    ELSE counts

\* n calls of removeMavlinkEndpointUser for r: an absent count is left alone,
\* and the call that reaches zero erases the count.
Released(counts, r, n) ==
  IF r \in DOMAIN counts /\ n > 0
    THEN IF counts[r] <= n
           THEN [s \in DOMAIN counts \ {r} |-> counts[s]]
           ELSE [counts EXCEPT ![r] = @ - n]
    ELSE counts

Live(h) == handle[h] # NoHandle

\* Slip: the handle looks its endpoint up by name.
LocksByName(h) == handle[h].endpoint \in endpoint_db

\* weak_ptr::lock succeeds: the object the handle was made for is still the
\* one registered under its name.
Locks(h) ==
  /\ handle[h].endpoint \in endpoint_db
  /\ handle[h].generation = generation[handle[h].endpoint]

\* The live handles of requester r that name e, and those whose object is
\* still the registered one.
HandlesNaming(e, r) ==
  {h \in HandleId : Live(h) /\ handle[h].endpoint = e /\ handle[h].user = r}

CurrentHandles(e, r) == {h \in HandlesNaming(e, r) : Locks(h)}

-----------------------------------------------------------------------------
Init ==
  /\ endpoint_db = {}
  /\ generation = [e \in EndpointName |-> 0]
  /\ user_count = [e \in EndpointName |-> NoUsers]
  /\ link = [e \in EndpointName |-> "DISCONNECTED"]
  /\ agents = {}
  /\ agent_state = [a \in AgentName |-> "IDLE"]
  /\ handle = [h \in HandleId |-> NoHandle]
  /\ seen = [h \in HandleId |-> "unused"]
  /\ disturbed = {}

(* Endpoint operations.                                                    *)

\* Registering a name that a live handle of an earlier object still names is
\* allowed, and recorded in `disturbed'.
addMavlinkEndpoint(e) ==
  /\ e \notin endpoint_db
  /\ generation[e] < MaxGeneration
  /\ disturbed' = IF \E h \in HandleId : Live(h) /\ handle[h].endpoint = e
                    THEN disturbed \cup {e} ELSE disturbed
  /\ endpoint_db' = endpoint_db \cup {e}
  /\ generation' = [generation EXCEPT ![e] = @ + 1]
  /\ user_count' = [user_count EXCEPT ![e] = NoUsers]
  /\ link' = [link EXCEPT ![e] = "DISCONNECTED"]
  /\ UNCHANGED <<agentVars, handleVars>>

\* The transport accepts or refuses; a refusal leaves the endpoint down.
connectMavlinkEndpoint(e) ==
  /\ e \in endpoint_db
  /\ \E s \in LinkState : link' = [link EXCEPT ![e] = s]
  /\ UNCHANGED <<endpoint_db, generation, user_count, disturbed, agentVars, handleVars>>

disconnectMavlinkEndpoint(e) ==
  /\ e \in endpoint_db
  /\ link[e] = "CONNECTED"
  /\ link' = [link EXCEPT ![e] = "DISCONNECTED"]
  /\ UNCHANGED <<endpoint_db, generation, user_count, disturbed, agentVars, handleVars>>

\* The entry goes with its counts; nobody asks whether handles still use it.
removeMavlinkEndpoint(e) ==
  /\ e \in endpoint_db
  /\ endpoint_db' = endpoint_db \ {e}
  /\ disturbed' = disturbed \ {e}
  /\ user_count' = [user_count EXCEPT ![e] = NoUsers]
  /\ link' = [link EXCEPT ![e] = "DISCONNECTED"]
  /\ UNCHANGED <<generation, agentVars, handleVars>>

(* Handles.                                                                *)

\* A client calls createMavlinkEndpointUser; an agent reaches it through its
\* ManagerResourceRequester, which passes the agent's own name. An unknown
\* endpoint yields nullptr and changes nothing.
createMavlinkEndpointUser(e, r, h) ==
  /\ r \in agents \cup ClientName
  /\ ~ Live(h)
  /\ e \in endpoint_db
  /\ user_count' = [user_count EXCEPT ![e] = Acquired(@, r)]
  /\ handle' = [handle EXCEPT ![h] =
       [endpoint |-> e, user |-> r, generation |-> generation[e]]]
  /\ seen' = [seen EXCEPT ![h] = "unused"]
  /\ UNCHANGED <<endpoint_db, generation, link, disturbed, agentVars>>

\* A public call that releases one count without a handle being destroyed,
\* recorded in `disturbed'.
removeMavlinkEndpointUser(e, r) ==
  /\ AllowExplicitRelease
  /\ e \in endpoint_db
  /\ user_count' = [user_count EXCEPT ![e] = Released(@, r, 1)]
  /\ disturbed' = disturbed \cup {e}
  /\ UNCHANGED <<endpoint_db, generation, link, agentVars, handleVars>>

\* Slip: the destructor forgets to release.
DestroyHandleSilently(h) ==
  /\ Live(h)
  /\ handle' = [handle EXCEPT ![h] = NoHandle]
  /\ seen' = [seen EXCEPT ![h] = "unused"]
  /\ UNCHANGED <<endpointVars, agentVars>>

\* ~MavlinkEndpointUserImpl: releases by NAME, whatever object the handle was
\* made for; nothing happens when the name is not registered.
DestroyHandle(h) ==
  /\ Live(h)
  /\ LET e == handle[h].endpoint IN
       user_count' = IF e \in endpoint_db
                       THEN [user_count EXCEPT ![e] = Released(@, handle[h].user, 1)]
                       ELSE user_count
  /\ handle' = [handle EXCEPT ![h] = NoHandle]
  /\ seen' = [seen EXCEPT ![h] = "unused"]
  /\ UNCHANGED <<endpoint_db, generation, link, disturbed, agentVars>>

\* createListener, getNumOfListener, writeMessage and getState: each locks
\* the weak reference and gives nullopt (nullptr) when the object is gone.
UseHandle(h) ==
  /\ Live(h)
  /\ seen' = [seen EXCEPT ![h] = IF Locks(h) THEN "alive" ELSE "gone"]
  /\ UNCHANGED <<endpointVars, agentVars, handle>>

(* Agent operations. The library that defines the agent decides whether    *)
(* create, configure, start and stop succeed.                              *)

addAgent(a) ==
  /\ a \notin agents
  /\ agents' = agents \cup {a}
  /\ agent_state' = [agent_state EXCEPT ![a] = "IDLE"]
  /\ UNCHANGED <<endpointVars, handleVars>>

startAgent(a) ==
  /\ a \in agents
  /\ agent_state[a] = "IDLE"
  /\ agent_state' = [agent_state EXCEPT ![a] = "STARTING"]
  /\ UNCHANGED <<endpointVars, agents, handleVars>>

stopAgent(a) ==
  /\ a \in agents
  /\ agent_state[a] = "ACTIVE"
  /\ agent_state' = [agent_state EXCEPT ![a] = "STOPPING"]
  /\ UNCHANGED <<endpointVars, agents, handleVars>>

\* The agent's own progress: it finishes starting, or finishes stopping.
AgentProgress(a) ==
  /\ a \in agents
  /\ \/ /\ agent_state[a] = "STARTING"
        /\ agent_state' = [agent_state EXCEPT ![a] = "ACTIVE"]
     \/ /\ agent_state[a] = "STOPPING"
        /\ agent_state' = [agent_state EXCEPT ![a] = "IDLE"]
  /\ UNCHANGED <<endpointVars, agents, handleVars>>

\* Slip: the agent's destruction releases one count per endpoint, as if it
\* held one handle on each.
removeAgentReleasingOnce(a) ==
  /\ a \in agents
  /\ agents' = agents \ {a}
  /\ agent_state' = [agent_state EXCEPT ![a] = "IDLE"]
  /\ user_count' = [e \in EndpointName |-> Released(user_count[e], a, 1)]
  /\ handle' = [h \in HandleId |->
       IF Live(h) /\ handle[h].user = a THEN NoHandle ELSE handle[h]]
  /\ seen' = [h \in HandleId |->
       IF Live(h) /\ handle[h].user = a THEN "unused" ELSE seen[h]]
  /\ UNCHANGED <<endpoint_db, generation, link, disturbed>>

\* The entry is erased whatever the agent's state, and the agent's destructor
\* destroys the handles it holds: one release per handle, still under the
\* same call.
removeAgent(a) ==
  /\ a \in agents
  /\ agents' = agents \ {a}
  /\ agent_state' = [agent_state EXCEPT ![a] = "IDLE"]
  /\ user_count' = [e \in EndpointName |->
       IF e \in endpoint_db
         THEN Released(user_count[e], a, Cardinality(HandlesNaming(e, a)))
         ELSE user_count[e]]
  /\ handle' = [h \in HandleId |->
       IF Live(h) /\ handle[h].user = a THEN NoHandle ELSE handle[h]]
  /\ seen' = [h \in HandleId |->
       IF Live(h) /\ handle[h].user = a THEN "unused" ELSE seen[h]]
  /\ UNCHANGED <<endpoint_db, generation, link, disturbed>>

-----------------------------------------------------------------------------
EndpointNext(e) ==
  \/ addMavlinkEndpoint(e)
  \/ connectMavlinkEndpoint(e)
  \/ disconnectMavlinkEndpoint(e)
  \/ removeMavlinkEndpoint(e)
  \/ \E r \in Requester : removeMavlinkEndpointUser(e, r)
  \/ \E r \in Requester, h \in HandleId : createMavlinkEndpointUser(e, r, h)

AgentNext(a) ==
  \/ addAgent(a)
  \/ startAgent(a)
  \/ stopAgent(a)
  \/ AgentProgress(a)
  \/ removeAgent(a)

HandleNext(h) == DestroyHandle(h) \/ UseHandle(h)

Next ==
  \/ \E e \in EndpointName : EndpointNext(e)
  \/ \E a \in AgentName : AgentNext(a)
  \/ \E h \in HandleId : HandleNext(h)

Spec == Init /\ [][Next]_vars

-----------------------------------------------------------------------------
(* Properties.                                                             *)

\* Every variable keeps its shape; in particular a count map never lists a
\* requester with a zero or negative count (Manager::removeMavlinkEndpointUser
\* erases a count that reaches zero), and the entry of a name that is not
\* registered has no counts.
TypeOK ==
  /\ endpoint_db \subseteq EndpointName
  /\ generation \in [EndpointName -> 0 .. MaxGeneration]
  /\ DOMAIN user_count = EndpointName
  /\ \A e \in EndpointName : IsCountMap(user_count[e])
  /\ link \in [EndpointName -> LinkState]
  /\ agents \subseteq AgentName
  /\ agent_state \in [AgentName -> AgentState]
  /\ handle \in [HandleId -> HandleRecord \cup {NoHandle}]
  /\ seen \in [HandleId -> {"unused", "alive", "gone"}]
  /\ disturbed \subseteq endpoint_db
  /\ \A e \in EndpointName \ endpoint_db : user_count[e] = NoUsers

\* getMavlinkEndpointUserList never overstates: the count it gives for a
\* requester is at most the number of live handles of that requester on the
\* endpoint object registered now, whatever removals, re-registrations and
\* explicit releases came before.
CountNeverOverstates ==
  \A e \in EndpointName, r \in Requester :
    CountOf(e, r) <= Cardinality(CurrentHandles(e, r))

\* Removing an agent (Manager::removeAgent) takes all it held with it: no
\* handle of an agent that is not registered is alive, and no endpoint counts
\* it as a user, so an agent registered later under the name starts at zero.
RemovedAgentHoldsNothing ==
  \A a \in AgentName \ agents, e \in EndpointName :
    /\ HandlesNaming(e, a) = {}
    /\ a \notin DOMAIN user_count[e]

\* The counts of an endpoint are exactly the handles that use it (IManager.h: a
\* call bumps the count, the handle's destruction releases it), until the two
\* calls that can make them drift are made on that very endpoint: its name is
\* registered again under a live handle, or a count of it is released by hand.
\* Whatever happens to the other endpoints, and once the name is registered
\* afresh, they are exact again.
CountsAreExact ==
  \A e \in EndpointName \ disturbed, r \in Requester :
    CountOf(e, r) = Cardinality(CurrentHandles(e, r))

\* A requester that holds a working handle on an endpoint is listed among the
\* endpoint's users (the reason getMavlinkEndpointUserList exists).
LiveHandleIsListed ==
  \A h \in HandleId :
    Live(h) /\ Locks(h) => CountOf(handle[h].endpoint, handle[h].user) >= 1

\* Once a call through a handle has found its endpoint gone, every later call
\* does: re-registering the name never revives an old handle
\* (MavlinkEndpointUser locks a weak reference, not a name).
GoneStaysGone ==
  [][\A h \in HandleId :
       seen[h] = "gone" /\ handle'[h] = handle[h] => seen'[h] = "gone"]_vars
=============================================================================
