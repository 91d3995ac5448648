------------------------------ MODULE Libraries ------------------------------
(***************************************************************************)
(* LibLoader and the two registries it fills. The registries hold bare     *)
(* references to definitions that live inside the loaded libraries, and    *)
(* dlopen counts how often a library was opened.                           *)
(***************************************************************************)
EXTENDS Integers, FiniteSets

CONSTANTS
  LibName,  \* names a definition may be registered under
  LibPath,  \* library files
  MaxOpen   \* bound: times one library may be open at once

ASSUME LibrariesAssumption == MaxOpen \in Nat

Kind == {"agent", "transport"}

\* What becomes of one load: dlopen fails, dlsym fails, the getter gives no
\* definition, or all three work.
LoadOutcome == {"no_library", "no_symbol", "no_definition", "defined"}

VARIABLES
  opened,    \* [LibPath -> dlopen's reference count]
  registry,  \* [Kind -> [registered names -> library the definition lives in]]
  handles,   \* [Kind -> [recorded names -> library the handle is of]]
  reported,  \* the loads that reported success: <<kind, name, path>>
  collided   \* has a definition been loaded under a name that was taken?

libVars == <<opened, registry, handles, reported, collided>>

Nothing == [n \in {} |-> n]

LibInit ==
  /\ opened = [p \in LibPath |-> 0]
  /\ registry = [k \in Kind |-> Nothing]
  /\ handles = [k \in Kind |-> Nothing]
  /\ reported = {}
  /\ collided = FALSE

\* Slip: operator[] instead of emplace; the new value replaces the old one.
InsertOrAssign(map, name, path) ==
  [n \in DOMAIN map \cup {name} |-> IF n = name THEN path ELSE map[n]]

\* unordered_map::emplace, and addAgentDefinition: a name that is taken keeps
\* its value.
Emplace(map, name, path) ==
  [n \in DOMAIN map \cup {name} |-> IF n \in DOMAIN map THEN map[n] ELSE path]

\* Slip: the library is closed again once its definition is registered.
LoadAndClose(k, name, path) ==
  \E outcome \in LoadOutcome :
    IF outcome = "defined"
      THEN /\ registry' = [registry EXCEPT ![k] = Emplace(@, name, path)]
           /\ handles' = [handles EXCEPT ![k] = Emplace(@, name, path)]
           /\ reported' = reported \cup {<<k, name, path>>}
           /\ collided' = (collided \/ name \in DOMAIN registry[k])
           /\ UNCHANGED opened
      ELSE UNCHANGED libVars

\* Slip: the handle of a repeated name replaces the one recorded before.
LoadReplacingHandle(k, name, path) ==
  \E outcome \in LoadOutcome :
    IF outcome = "defined"
      THEN /\ opened[path] < MaxOpen
           /\ opened' = [opened EXCEPT ![path] = @ + 1]
           /\ registry' = [registry EXCEPT ![k] = Emplace(@, name, path)]
           /\ handles' = [handles EXCEPT ![k] = InsertOrAssign(@, name, path)]
           /\ reported' = reported \cup {<<k, name, path>>}
           /\ collided' = (collided \/ name \in DOMAIN registry[k])
      ELSE UNCHANGED libVars

\* loadAgentLib and loadTransportLib. A failed load closes what it opened.
\* Whether the name was free is not asked, and success is reported anyway.
Load(k, name, path) ==
  \E outcome \in LoadOutcome :
    IF outcome = "defined"
      THEN /\ opened[path] < MaxOpen
           /\ opened' = [opened EXCEPT ![path] = @ + 1]
           /\ registry' = [registry EXCEPT ![k] = Emplace(@, name, path)]
           /\ handles' = [handles EXCEPT ![k] = Emplace(@, name, path)]
           /\ reported' = reported \cup {<<k, name, path>>}
           /\ collided' = (collided \/ name \in DOMAIN registry[k])
      ELSE UNCHANGED libVars

\* The handles of kind k recorded for a library.
HandlesOn(k, path) == {n \in DOMAIN handles[k] : handles[k][n] = path}

\* Slip: only the agent libraries are closed.
CloseAgentLibs ==
  /\ opened' = [p \in LibPath |-> opened[p] - Cardinality(HandlesOn("agent", p))]
  /\ handles' = [k \in Kind |-> Nothing]
  /\ UNCHANGED <<registry, reported, collided>>

\* ~LibLoaderImpl: one dlclose for every recorded handle.
CloseAll ==
  /\ opened' = [p \in LibPath |->
       opened[p] - Cardinality(HandlesOn("agent", p)) - Cardinality(HandlesOn("transport", p))]
  /\ handles' = [k \in Kind |-> Nothing]
  /\ UNCHANGED <<registry, reported, collided>>

-----------------------------------------------------------------------------
PathMap == UNION {[D -> LibPath] : D \in SUBSET LibName}

LibTypeOK ==
  /\ opened \in [LibPath -> Nat]
  /\ registry \in [Kind -> PathMap]
  /\ handles \in [Kind -> PathMap]
  /\ reported \subseteq Kind \X LibName \X LibPath
  /\ collided \in BOOLEAN

\* A load that reported success has registered the definition of the library
\* it was asked to load (ILibLoader.h).
SuccessMeansRegistered ==
  \A k \in Kind : \A n \in LibName : \A p \in LibPath :
    <<k, n, p>> \in reported => n \in DOMAIN registry[k] /\ registry[k][n] = p
=============================================================================
