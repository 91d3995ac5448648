---------------------------- MODULE Startup_proofs ----------------------------
(***************************************************************************)
(* No library is closed while code in it may still run, none is left open, *)
(* and a plan file loads as its policy says: proofs about the startup and  *)
(* the teardown of App for any names, files, configurations, number of     *)
(* loads and number of entries in a file.                                  *)
(***************************************************************************)
EXTENDS Startup, FiniteSetTheorems, WellFoundedInduction, TLAPS

-----------------------------------------------------------------------------
(* The decoders: what their loops have made of any number of entries.      *)

\* Induction up to n, with a set in place of a predicate.
LEMMA LeastMember ==
  ASSUME NEW T \in SUBSET Nat, T # {}
  PROVE  \E n \in T : \A m \in T : n <= m
<1>1. PICK n \in T : \A m \in T : ~ (<<m, n>> \in OpToRel(<, Nat))
  BY WFMin, NatLessThanWellFounded
<1>2. \A m \in Nat : <<m, n>> \in OpToRel(<, Nat) <=> m < n
  BY DEF OpToRel
<1>3. ASSUME NEW m \in T PROVE n <= m
  <2>1. m \in Nat /\ n \in Nat
    OBVIOUS
  <2>2. ~ (m < n)
    BY <1>1, <1>2, <2>1
  <2> QED
    BY <2>1, <2>2
<1> QED
  BY <1>3

LEMMA UpTo ==
  ASSUME NEW n \in Nat, NEW G, 0 \in G, \A i \in 1 .. n : i - 1 \in G => i \in G
  PROVE  \A i \in 0 .. n : i \in G
<1> DEFINE T == {i \in 0 .. n : i \notin G}
<1> SUFFICES ASSUME T # {} PROVE FALSE
  OBVIOUS
<1>1. T \in SUBSET Nat
  OBVIOUS
<1> HIDE DEF T
<1>2. PICK i \in T : \A m \in T : i <= m
  BY <1>1, LeastMember
<1>3. i \in 0 .. n /\ i \notin G /\ i # 0
  BY <1>2 DEF T
<1>4. i - 1 \in 0 .. n /\ i - 1 \notin T
  BY <1>2, <1>3
<1>5. i - 1 \in G
  BY <1>4 DEF T
<1> QED
  BY <1>3, <1>5

\* The loop over an array is well defined.
LEMMA LoopOverItems ==
  ASSUME NEW items, NEW n \in Nat, NEW policy
  PROVE  ListAfter(items, n, policy) =
           [i \in 0 .. n |-> IF i = 0 THEN Optional(NoEntries)
                             ELSE TakeItem(ListAfter(items, n, policy)[i - 1], items[i], policy)]
<1> DEFINE Loop(g, k) ==
      g = [i \in 0 .. k |-> IF i = 0 THEN Optional(NoEntries)
                            ELSE TakeItem(g[i - 1], items[i], policy)]
    G == {k \in Nat : \E g : Loop(g, k)}
<1>1. 0 \in G
  <2>1. Loop([i \in 0 .. 0 |-> Optional(NoEntries)], 0)
    OBVIOUS
  <2> QED
    BY <2>1
<1>2. ASSUME NEW k \in 1 .. n, k - 1 \in G
      PROVE  k \in G
  <2>1. PICK g : Loop(g, k - 1)
    BY <1>2
  <2> DEFINE h == [i \in 0 .. k |-> IF i = k THEN TakeItem(g[k - 1], items[k], policy) ELSE g[i]]
  <2>2. \A i \in 0 .. k - 1 : g[i] = IF i = 0 THEN Optional(NoEntries)
                                     ELSE TakeItem(g[i - 1], items[i], policy)
    BY <2>1
  <2>3. ASSUME NEW i \in 0 .. k
        PROVE  h[i] = IF i = 0 THEN Optional(NoEntries)
                      ELSE TakeItem(h[i - 1], items[i], policy)
    <3>1. CASE i = k
      BY <3>1
    <3>2. CASE i # k
      BY <2>2, <3>2
    <3> QED
      BY <3>1, <3>2
  <2>4. h = [i \in 0 .. k |-> h[i]]
    OBVIOUS
  <2> HIDE DEF h
  <2>5. Loop(h, k)
    BY <2>3, <2>4
  <2> QED
    BY <2>5
<1> HIDE DEF G
<1>3. n \in G
  BY <1>1, <1>2, UpTo
<1>4. \E g : Loop(g, n)
  BY <1>3 DEF G
<1>5. ListAfter(items, n, policy) = CHOOSE g : Loop(g, n)
  BY DEF ListAfter
<1> HIDE DEF Loop
<1>6. Loop(ListAfter(items, n, policy), n)
  BY <1>4, <1>5
<1> QED
  BY <1>6 DEF Loop

\* What the loop has made of the first i items: under a policy other than
\* BEST_EFFORT nothing if one of them is malformed, and otherwise the names of
\* the good ones, each with what the last good one of that name says.
GoodItems(items, i) == {j \in 1 .. i : items[j].has_value}

HoldsItems(list, items, i, policy) ==
  IF policy # "BEST_EFFORT" /\ GoodItems(items, i) # 1 .. i
    THEN ~ list.has_value
    ELSE /\ list.has_value
         /\ DOMAIN list.value = {items[j].value.name : j \in GoodItems(items, i)}
         /\ \A j \in GoodItems(items, i) :
              (\A k \in GoodItems(items, i) : k > j => items[k].value.name # items[j].value.name)
                => list.value[items[j].value.name] = items[j].value.data

LEMMA LoopHoldsItems ==
  ASSUME NEW items, NEW n \in Nat, NEW policy,
         \A i \in 1 .. n : items[i].has_value \in BOOLEAN
  PROVE  HoldsItems(DecodeEntries(items, n, policy), items, n, policy)
<1> DEFINE L == ListAfter(items, n, policy)
           G == {i \in 0 .. n : HoldsItems(L[i], items, i, policy)}
<1>0. \A i \in 0 .. n : L[i] = IF i = 0 THEN Optional(NoEntries)
                               ELSE TakeItem(L[i - 1], items[i], policy)
  BY LoopOverItems
<1> HIDE DEF L
<1>1. 0 \in G
  <2>1. L[0] = Optional(NoEntries)
    BY <1>0
  <2>2. GoodItems(items, 0) = {} /\ 1 .. 0 = {}
    BY DEF GoodItems
  <2>3. HoldsItems(L[0], items, 0, policy)
    BY <2>1, <2>2 DEF HoldsItems, Optional, NoEntries
  <2> QED
    BY <2>3
<1>2. ASSUME NEW i \in 1 .. n, i - 1 \in G
      PROVE  i \in G
  <2>1. L[i] = TakeItem(L[i - 1], items[i], policy)
    BY <1>0
  <2>2. HoldsItems(L[i - 1], items, i - 1, policy)
    BY <1>2
  <2>3. 1 .. i = (1 .. i - 1) \cup {i} /\ i \notin 1 .. i - 1
    OBVIOUS
  <2>4. GoodItems(items, i) =
          GoodItems(items, i - 1) \cup (IF items[i].has_value THEN {i} ELSE {})
    BY <2>3 DEF GoodItems
  <2>5. GoodItems(items, i - 1) \subseteq 1 .. i - 1
    BY DEF GoodItems
  <2>6. CASE policy # "BEST_EFFORT" /\ GoodItems(items, i - 1) # 1 .. i - 1
    <3>1. GoodItems(items, i) # 1 .. i
      BY <2>3, <2>4, <2>5, <2>6
    <3>2. ~ L[i - 1].has_value
      BY <2>2, <2>6 DEF HoldsItems
    <3>3. ~ L[i].has_value
      BY <2>1, <3>2 DEF TakeItem
    <3> QED
      BY <2>6, <3>1, <3>3 DEF HoldsItems
  <2>7. CASE ~ (policy # "BEST_EFFORT" /\ GoodItems(items, i - 1) # 1 .. i - 1)
    <3>1. /\ L[i - 1].has_value
          /\ DOMAIN L[i - 1].value = {items[j].value.name : j \in GoodItems(items, i - 1)}
          /\ \A j \in GoodItems(items, i - 1) :
               (\A k \in GoodItems(items, i - 1) :
                  k > j => items[k].value.name # items[j].value.name)
                 => L[i - 1].value[items[j].value.name] = items[j].value.data
      BY <2>2, <2>7 DEF HoldsItems
    <3>2. CASE ~ items[i].has_value
      <4>1. GoodItems(items, i) = GoodItems(items, i - 1)
        BY <2>4, <3>2
      <4>2. GoodItems(items, i) # 1 .. i
        BY <2>3, <2>5, <4>1
      <4>3. L[i] = OnMalformed(L[i - 1], policy)
        BY <2>1, <3>1, <3>2 DEF TakeItem
      <4>4. CASE policy = "BEST_EFFORT"
        BY <3>1, <4>1, <4>3, <4>4 DEF OnMalformed, HoldsItems
      <4>5. CASE policy # "BEST_EFFORT"
        BY <4>2, <4>3, <4>5 DEF OnMalformed, HoldsItems, Nullopt
      <4> QED
        BY <4>4, <4>5
    <3>3. CASE items[i].has_value
      <4> DEFINE m == items[i].value.name
                 old == L[i - 1].value
                 new == L[i].value
      <4>1. GoodItems(items, i) = GoodItems(items, i - 1) \cup {i}
        BY <2>4, <3>3
      <4>2. ~ (policy # "BEST_EFFORT" /\ GoodItems(items, i) # 1 .. i)
        BY <2>3, <2>7, <4>1
      <4>3. L[i] = Optional(Insert(old, m, items[i].value.data))
        BY <2>1, <3>1, <3>3 DEF TakeItem
      <4>4. L[i].has_value /\ new = Insert(old, m, items[i].value.data)
        BY <4>3 DEF Optional
      <4>5. /\ DOMAIN new = DOMAIN old \cup {m}
            /\ new[m] = items[i].value.data
            /\ \A x \in DOMAIN old : x # m => new[x] = old[x]
        BY <4>4 DEF Insert
      <4>6. DOMAIN new = {items[j].value.name : j \in GoodItems(items, i)}
        BY <3>1, <4>1, <4>5
      <4>7. ASSUME NEW j \in GoodItems(items, i),
                   \A k \in GoodItems(items, i) : k > j => items[k].value.name # items[j].value.name
            PROVE  new[items[j].value.name] = items[j].value.data
        <5>1. CASE j = i
          BY <4>5, <5>1
        <5>2. CASE j # i
          <6>1. j \in GoodItems(items, i - 1) /\ i > j
            BY <2>5, <4>1, <5>2
          <6>2. items[j].value.name # m /\ items[j].value.name \in DOMAIN old
            BY <3>1, <4>1, <4>7, <6>1
          <6>3. old[items[j].value.name] = items[j].value.data
            BY <3>1, <4>1, <4>7, <6>1
          <6> QED
            BY <4>5, <6>2, <6>3
        <5> QED
          BY <5>1, <5>2
      <4> QED
        BY <4>2, <4>4, <4>6, <4>7 DEF HoldsItems
    <3> QED
      BY <1>2, <3>2, <3>3
  <2> QED
    BY <2>6, <2>7
<1> HIDE DEF G
<1>3. n \in G
  BY <1>1, <1>2, UpTo
<1> QED
  BY <1>3 DEF G, L, DecodeEntries

\* The entries of a section numbered `good' are well formed and say what `says'
\* has, and `items' is what the loop sees of them.
Describes(items, section, good, says) ==
  /\ good \subseteq DOMAIN EntriesOf(section)
  /\ \A i \in DOMAIN EntriesOf(section) :
       /\ items[i].has_value \in BOOLEAN
       /\ items[i].has_value <=> i \in good
       /\ i \in good => /\ items[i].value.name = section.entries[i].name
                        /\ items[i].value.data = says[i]

\* What must become of the section: nothing if the policy is DISCARD and an
\* entry is malformed, and exactly the good entries if the policy is
\* BEST_EFFORT or all are good.
IsGood(section, good) ==
  section.shape # "not_array" /\ good = DOMAIN EntriesOf(section)

HoldsGood(map, section, good, says) ==
  /\ DOMAIN map = {section.entries[i].name : i \in good}
  /\ \A i \in good :
       (\A j \in good : j > i => section.entries[j].name # section.entries[i].name)
         => map[section.entries[i].name] = says[i]

LoadsAsItShould(list, section, good, says, policy) ==
  /\ policy = "BEST_EFFORT" => list.has_value
  /\ policy = "DISCARD" => (list.has_value <=> IsGood(section, good))
  /\ IsGood(section, good) => list.has_value
  /\ policy = "BEST_EFFORT" \/ IsGood(section, good) =>
       HoldsGood(list.value, section, good, says)

LEMMA SectionDecoded ==
  ASSUME NEW section, IsSection(section), NEW policy, NEW items, NEW good, NEW says,
         Describes(items, section, good, says),
         NEW decoded,
         decoded = IF section.shape # "array" THEN Nullopt
                   ELSE DecodeEntries(items, Len(section.entries), policy)
  PROVE  LoadsAsItShould(ListOf(section, decoded, policy), section, good, says, policy)
<1> DEFINE n == Len(section.entries)
           list == ListOf(section, decoded, policy)
           all == IsGood(section, good)
           holds == HoldsGood(list.value, section, good, says)
<1> SUFFICES /\ policy = "BEST_EFFORT" => list.has_value
             /\ policy = "DISCARD" => (list.has_value <=> all)
             /\ all => list.has_value
             /\ policy = "BEST_EFFORT" \/ all => holds
  BY DEF LoadsAsItShould
<1> USE DEF IsGood, HoldsGood
<1>1. /\ section.shape \in {"absent", "not_array", "array"}
      /\ n \in Nat
      /\ DOMAIN section.entries = 1 .. n
  BY DEF IsSection, SectionShape
<1>2. CASE section.shape # "array"
  <2>1. good = {} /\ DOMAIN EntriesOf(section) = {}
    BY <1>2 DEF EntriesOf, Describes
  <2>2. CASE section.shape # "absent" /\ policy = "DISCARD"
    <3>1. ~ list.has_value
      BY <1>2, <2>2 DEF ListOf, Nullopt
    <3> QED
      BY <1>1, <1>2, <2>2, <3>1
  <2>3. CASE ~ (section.shape # "absent" /\ policy = "DISCARD")
    <3>1. list = Optional(NoEntries)
      BY <1>2, <2>3 DEF ListOf, Nullopt
    <3>2. list.has_value /\ holds
      BY <2>1, <3>1 DEF Optional, NoEntries
    <3> QED
      BY <1>1, <1>2, <2>1, <2>3, <3>2
  <2> QED
    BY <2>2, <2>3
<1>3. CASE section.shape = "array"
  <2>1. DOMAIN EntriesOf(section) = 1 .. n
    BY <1>1, <1>3 DEF EntriesOf
  <2>2. good = GoodItems(items, n)
    BY <2>1 DEF GoodItems, Describes
  <2>3. HoldsItems(decoded, items, n, policy)
    BY <1>1, <1>3, <2>1, LoopHoldsItems DEF Describes
  <2> HIDE DEF n
  <2>4. CASE policy # "BEST_EFFORT" /\ good # 1 .. n
    <3>1. ~ decoded.has_value
      BY <2>2, <2>3, <2>4 DEF HoldsItems
    <3>2. policy = "DISCARD" => ~ list.has_value
      BY <1>3, <3>1 DEF ListOf
    <3> QED
      BY <2>1, <2>4, <3>2
  <2>5. CASE ~ (policy # "BEST_EFFORT" /\ good # 1 .. n)
    <3>1. /\ decoded.has_value
          /\ DOMAIN decoded.value = {items[i].value.name : i \in good}
          /\ \A i \in good :
               (\A j \in good : j > i => items[j].value.name # items[i].value.name)
                 => decoded.value[items[i].value.name] = items[i].value.data
      BY <2>2, <2>3, <2>5 DEF HoldsItems
    <3>2. list = decoded
      BY <1>3, <3>1 DEF ListOf
    <3>3. holds
      BY <2>1, <3>1, <3>2 DEF Describes
    <3> QED
      BY <1>3, <2>1, <2>5, <3>1, <3>2, <3>3
  <2> QED
    BY <2>4, <2>5
<1> QED
  BY <1>1, <1>2, <1>3

LEMMA EndpointsDecoded ==
  ASSUME NEW doc, IsPlanDocument(doc), NEW policy
  PROVE  LET list == EndpointsOf(doc, policy)
             section == doc.endpoint_list IN
           /\ policy = "BEST_EFFORT" => list.has_value
           /\ policy = "DISCARD" => (list.has_value <=> AllGood(section, EndpointFormOK))
           /\ AllGood(section, EndpointFormOK) => list.has_value
           /\ policy = "BEST_EFFORT" \/ AllGood(section, EndpointFormOK) =>
                HoldsGoodEntries(list.value, section, EndpointFormOK, EndpointData)
<1> DEFINE section == doc.endpoint_list
           good == GoodEntries(section, EndpointFormOK)
           items == [i \in DOMAIN section.entries |-> EndpointItem(section.entries[i])]
           says == [i \in DOMAIN section.entries |-> EndpointData(section.entries[i])]
           decoded == jsonToEndpointList(section, policy)
<1>1. IsSection(section) /\ DOMAIN EntriesOf(section) \subseteq DOMAIN section.entries
  BY DEF IsPlanDocument, EntriesOf
<1>2. Describes(items, section, good, says)
  BY <1>1 DEF EndpointItem, Optional, Nullopt, Describes, GoodEntries
<1>3. decoded = IF section.shape # "array" THEN Nullopt
                ELSE DecodeEntries(items, Len(section.entries), policy)
  BY DEF jsonToEndpointList
<1>4. EndpointsOf(doc, policy) = ListOf(section, decoded, policy)
  BY DEF EndpointsOf
<1>5. LoadsAsItShould(EndpointsOf(doc, policy), section, good, says, policy)
  <2> HIDE DEF section, items, decoded, says, good
  <2> QED
    BY <1>1, <1>2, <1>3, <1>4, SectionDecoded
<1>6. \A i \in good : says[i] = EndpointData(section.entries[i])
  BY <1>1 DEF GoodEntries
<1> QED
  BY <1>5, <1>6 DEF LoadsAsItShould, IsGood, HoldsGood, AllGood, HoldsGoodEntries

LEMMA AgentsDecoded ==
  ASSUME NEW doc, IsPlanDocument(doc), NEW policy
  PROVE  LET list == AgentsOf(doc, policy)
             section == doc.agent_list IN
           /\ policy = "BEST_EFFORT" => list.has_value
           /\ policy = "DISCARD" => (list.has_value <=> AllGood(section, AgentFormOK))
           /\ AllGood(section, AgentFormOK) => list.has_value
           /\ policy = "BEST_EFFORT" \/ AllGood(section, AgentFormOK) =>
                HoldsGoodEntries(list.value, section, AgentFormOK, AgentData)
<1> DEFINE section == doc.agent_list
           good == GoodEntries(section, AgentFormOK)
           items == [i \in DOMAIN section.entries |-> AgentItem(section.entries[i])]
           says == [i \in DOMAIN section.entries |-> AgentData(section.entries[i])]
           decoded == jsonToAgentList(section, policy)
<1>1. IsSection(section) /\ DOMAIN EntriesOf(section) \subseteq DOMAIN section.entries
  BY DEF IsPlanDocument, EntriesOf
<1>2. Describes(items, section, good, says)
  BY <1>1 DEF AgentItem, Optional, Nullopt, Describes, GoodEntries
<1>3. decoded = IF section.shape # "array" THEN Nullopt
                ELSE DecodeEntries(items, Len(section.entries), policy)
  BY DEF jsonToAgentList
<1>4. AgentsOf(doc, policy) = ListOf(section, decoded, policy)
  BY DEF AgentsOf
<1>5. LoadsAsItShould(AgentsOf(doc, policy), section, good, says, policy)
  <2> HIDE DEF section, items, decoded, says, good
  <2> QED
    BY <1>1, <1>2, <1>3, <1>4, SectionDecoded
<1>6. \A i \in good : says[i] = AgentData(section.entries[i])
  BY <1>1 DEF GoodEntries
<1> QED
  BY <1>5, <1>6 DEF LoadsAsItShould, IsGood, HoldsGood, AllGood, HoldsGoodEntries

\* The loop over a library list is well defined.
LEMMA LoopOverLibs ==
  ASSUME NEW entries, Len(entries) \in Nat
  PROVE  LibsAfter(entries) =
           [i \in 0 .. Len(entries) |->
              IF i = 0 THEN Optional(NoEntries)
              ELSE AddLib(LibsAfter(entries)[i - 1], entries[i])]
<1> DEFINE n == Len(entries)
    Loop(g, k) ==
      g = [i \in 0 .. k |-> IF i = 0 THEN Optional(NoEntries) ELSE AddLib(g[i - 1], entries[i])]
    G == {k \in Nat : \E g : Loop(g, k)}
<1>1. 0 \in G
  <2>1. Loop([i \in 0 .. 0 |-> Optional(NoEntries)], 0)
    OBVIOUS
  <2> QED
    BY <2>1
<1>2. ASSUME NEW k \in 1 .. n, k - 1 \in G
      PROVE  k \in G
  <2>1. PICK g : Loop(g, k - 1)
    BY <1>2
  <2> DEFINE h == [i \in 0 .. k |-> IF i = k THEN AddLib(g[k - 1], entries[k]) ELSE g[i]]
  <2>2. \A i \in 0 .. k - 1 : g[i] = IF i = 0 THEN Optional(NoEntries)
                                     ELSE AddLib(g[i - 1], entries[i])
    BY <2>1
  <2>3. ASSUME NEW i \in 0 .. k
        PROVE  h[i] = IF i = 0 THEN Optional(NoEntries) ELSE AddLib(h[i - 1], entries[i])
    <3>1. CASE i = k
      BY <3>1
    <3>2. CASE i # k
      BY <2>2, <3>2
    <3> QED
      BY <3>1, <3>2
  <2>4. h = [i \in 0 .. k |-> h[i]]
    OBVIOUS
  <2> HIDE DEF h
  <2>5. Loop(h, k)
    BY <2>3, <2>4
  <2> QED
    BY <2>5
<1>. n \in Nat
  OBVIOUS
<1> HIDE DEF G, n
<1>3. n \in G
  BY <1>1, <1>2, UpTo
<1>4. \E g : Loop(g, n)
  BY <1>3 DEF G
<1>5. LibsAfter(entries) = CHOOSE g : Loop(g, n)
  BY DEF LibsAfter, n
<1> HIDE DEF Loop
<1>6. Loop(LibsAfter(entries), n)
  BY <1>4, <1>5
<1> QED
  BY <1>6 DEF Loop, n

\* The first i entries are complete and repeat no name.
NoneRefused(entries, i) ==
  /\ \A j \in 1 .. i : entries[j].form = "complete"
  /\ \A j \in 1 .. i : \A k \in 1 .. i : j # k => entries[j].name # entries[k].name

HoldsLibs(list, entries, i) ==
  /\ list.has_value <=> NoneRefused(entries, i)
  /\ list.has_value =>
       /\ DOMAIN list.value = {entries[j].name : j \in 1 .. i}
       /\ \A j \in 1 .. i :
            list.value[entries[j].name] = [name |-> entries[j].name, data |-> entries[j].data]

LEMMA LoopHoldsLibs ==
  ASSUME NEW entries, Len(entries) \in Nat
  PROVE  HoldsLibs(LibsAfter(entries)[Len(entries)], entries, Len(entries))
<1> DEFINE n == Len(entries)
           L == LibsAfter(entries)
           G == {i \in 0 .. n : HoldsLibs(L[i], entries, i)}
<1>0. \A i \in 0 .. n : L[i] = IF i = 0 THEN Optional(NoEntries) ELSE AddLib(L[i - 1], entries[i])
  BY LoopOverLibs
<1> HIDE DEF L
<1>1. 0 \in G
  <2>1. L[0] = Optional(NoEntries) /\ 1 .. 0 = {}
    BY <1>0
  <2>2. HoldsLibs(L[0], entries, 0)
    BY <2>1 DEF HoldsLibs, NoneRefused, Optional, NoEntries
  <2> QED
    BY <2>2
<1>2. ASSUME NEW i \in 1 .. n, i - 1 \in G
      PROVE  i \in G
  <2> DEFINE e == entries[i]
             old == L[i - 1]
             new == L[i]
  <2>1. new = AddLib(old, e) /\ HoldsLibs(old, entries, i - 1)
    BY <1>0, <1>2
  <2>2. 1 .. i = (1 .. i - 1) \cup {i} /\ i \notin 1 .. i - 1
    OBVIOUS
  <2>3. NoneRefused(entries, i) <=>
          /\ NoneRefused(entries, i - 1)
          /\ e.form = "complete"
          /\ \A j \in 1 .. i - 1 : entries[j].name # e.name
    BY <2>2 DEF NoneRefused
  <2>4. CASE ~ old.has_value \/ e.form # "complete" \/ e.name \in DOMAIN old.value
    <3>1. ~ new.has_value
      BY <2>1, <2>4 DEF AddLib, Nullopt
    <3>2. ~ NoneRefused(entries, i)
      BY <2>1, <2>3, <2>4 DEF HoldsLibs
    <3> QED
      BY <1>2, <3>1, <3>2 DEF HoldsLibs
  <2>5. CASE ~ (~ old.has_value \/ e.form # "complete" \/ e.name \in DOMAIN old.value)
    <3> DEFINE lib == [name |-> e.name, data |-> e.data]
    <3>1. new = Optional(Insert(old.value, e.name, lib))
      BY <2>1, <2>5 DEF AddLib
    <3>2. /\ new.has_value
          /\ DOMAIN new.value = DOMAIN old.value \cup {e.name}
          /\ new.value[e.name] = lib
          /\ \A x \in DOMAIN old.value : x # e.name => new.value[x] = old.value[x]
      BY <3>1 DEF Optional, Insert
    <3>3. /\ DOMAIN old.value = {entries[j].name : j \in 1 .. i - 1}
          /\ \A j \in 1 .. i - 1 :
               old.value[entries[j].name] = [name |-> entries[j].name, data |-> entries[j].data]
      BY <2>1, <2>5 DEF HoldsLibs
    <3>4. NoneRefused(entries, i)
      BY <2>1, <2>3, <2>5, <3>3 DEF HoldsLibs
    <3>5. DOMAIN new.value = {entries[j].name : j \in 1 .. i}
      BY <2>2, <3>2, <3>3
    <3>6. ASSUME NEW j \in 1 .. i
          PROVE  new.value[entries[j].name] = [name |-> entries[j].name, data |-> entries[j].data]
      BY <2>2, <2>5, <3>2, <3>3
    <3> QED
      BY <1>2, <3>2, <3>4, <3>5, <3>6 DEF HoldsLibs
  <2> QED
    BY <2>4, <2>5
<1>. n \in Nat
  OBVIOUS
<1> HIDE DEF G, n
<1>3. n \in G
  BY <1>1, <1>2, UpTo
<1> QED
  BY <1>3 DEF G, L, n

LEMMA LibListDecoded ==
  ASSUME NEW section, IsLibSection(section), LibsOf(section).has_value
  PROVE  IsLibList(LibsOf(section).value)
<1>1. CASE section.shape = "absent"
  BY <1>1 DEF LibsOf, Optional, NoEntries, IsLibList
<1>2. CASE section.shape # "absent"
  <2> DEFINE list == LibsAfter(section.entries)[Len(section.entries)]
             n == Len(section.entries)
  <2>1. LibsOf(section) = list
    BY <1>2 DEF LibsOf, jsonToLibList, Nullopt
  <2>2. HoldsLibs(list, section.entries, n)
    BY LoopHoldsLibs DEF IsLibSection, IsSection
  <2>3. \A i \in 1 .. n : section.entries[i].name \in LibName /\ section.entries[i].data \in LibPath
    BY DEF IsLibSection, IsSection
  <2> HIDE DEF list, n
  <2>4. /\ DOMAIN list.value = {section.entries[j].name : j \in 1 .. n}
        /\ \A j \in 1 .. n : list.value[section.entries[j].name].data = section.entries[j].data
    <3>1. list.has_value
      BY <2>1
    <3>2. /\ DOMAIN list.value = {section.entries[j].name : j \in 1 .. n}
          /\ \A j \in 1 .. n : list.value[section.entries[j].name] =
               [name |-> section.entries[j].name, data |-> section.entries[j].data]
      BY <2>2, <3>1 DEF HoldsLibs
    <3>3. ASSUME NEW j \in 1 .. n
          PROVE  list.value[section.entries[j].name].data = section.entries[j].data
      <4>1. list.value[section.entries[j].name] =
              [name |-> section.entries[j].name, data |-> section.entries[j].data]
        BY <3>2
      <4> QED
        BY <4>1
    <3> QED
      BY <3>2, <3>3
  <2> QED
    BY <2>1, <2>3, <2>4 DEF IsLibList
<1> QED
  BY <1>1, <1>2

\* What a plan file decodes to, whatever UserPlan::policy held before.
PlanHolds(plan, doc) ==
  /\ HoldsGoodEntries(plan.endpoint_list, doc.endpoint_list, EndpointFormOK, EndpointData)
  /\ HoldsGoodEntries(plan.agent_list, doc.agent_list, AgentFormOK, AgentData)

LEMMA PlanDecoded ==
  ASSUME NEW doc, IsPlanDocument(doc), NEW unset
  PROVE  LET plan == jsonToUserPlan(doc, unset) IN
           /\ doc.policy = "discard" => (plan.has_value <=> DocumentIsGood(doc))
           /\ doc.policy = "best_effort" => plan.has_value /\ PlanHolds(plan.value, doc)
           /\ doc.policy # "unknown" /\ DocumentIsGood(doc) =>
                plan.has_value /\ PlanHolds(plan.value, doc)
<1> DEFINE policy == PolicyOf(doc, unset)
           plan == jsonToUserPlan(doc, unset)
           endpoints == EndpointsOf(doc, policy.value)
           all_agents == AgentsOf(doc, policy.value)
<1>1. /\ doc.policy = "discard" => policy = Optional("DISCARD")
      /\ doc.policy = "best_effort" => policy = Optional("BEST_EFFORT")
      /\ doc.policy # "unknown" => policy.has_value
  BY DEF IsPlanDocument, PolicyText, PolicyOf, Optional
<1>2. plan = IF policy.has_value /\ endpoints.has_value /\ all_agents.has_value
               THEN Optional([policy |-> policy.value,
                              endpoint_list |-> endpoints.value,
                              agent_list |-> all_agents.value])
               ELSE Nullopt
  BY DEF jsonToUserPlan
<1> HIDE DEF policy, plan
<1>3. DocumentIsGood(doc) <=>
        AllGood(doc.endpoint_list, EndpointFormOK) /\ AllGood(doc.agent_list, AgentFormOK)
  BY DEF DocumentIsGood
<1>4. CASE policy.has_value /\ endpoints.has_value /\ all_agents.has_value
  <2>1. /\ plan.has_value
        /\ plan.value.endpoint_list = endpoints.value
        /\ plan.value.agent_list = all_agents.value
    BY <1>2, <1>4 DEF Optional
  <2>2. doc.policy = "discard" => DocumentIsGood(doc)
    BY <1>1, <1>4, EndpointsDecoded, AgentsDecoded DEF Optional, DocumentIsGood
  <2>3. doc.policy = "best_effort" => PlanHolds(plan.value, doc)
    BY <1>1, <2>1, EndpointsDecoded, AgentsDecoded DEF Optional, PlanHolds
  <2>4. DocumentIsGood(doc) => PlanHolds(plan.value, doc)
    BY <2>1, EndpointsDecoded, AgentsDecoded DEF PlanHolds, DocumentIsGood
  <2> QED
    BY <2>1, <2>2, <2>3, <2>4 DEF plan
<1>5. CASE ~ (policy.has_value /\ endpoints.has_value /\ all_agents.has_value)
  <2>1. ~ plan.has_value
    BY <1>2, <1>5 DEF Nullopt
  <2>2. doc.policy # "unknown" => ~ DocumentIsGood(doc)
    BY <1>1, <1>5, EndpointsDecoded, AgentsDecoded DEF DocumentIsGood
  <2>3. doc.policy # "best_effort"
    BY <1>1, <1>5, EndpointsDecoded, AgentsDecoded DEF Optional
  <2> QED
    BY <2>1, <2>2, <2>3 DEF plan
<1> QED
  BY <1>4, <1>5

\* What a configuration decodes to.
LEMMA ConfigDecoded ==
  ASSUME NEW doc \in ConfigDocuments, NEW unset, jsonToAppConfig(doc, unset).has_value
  PROVE  /\ IsLibList(jsonToAppConfig(doc, unset).value.agent_lib_list)
         /\ IsLibList(jsonToAppConfig(doc, unset).value.transport_lib_list)
         /\ jsonToAppConfig(doc, unset).value.apply_user_plan_on_startup = FlagOf(doc, unset)
<1> DEFINE cfg == jsonToAppConfig(doc, unset)
           libs == LibsOf(doc.agent_lib_list)
           transports == LibsOf(doc.transport_lib_list)
<1>1. libs.has_value /\ transports.has_value
  BY DEF jsonToAppConfig, Nullopt
<1>2. cfg = Optional([agent_lib_list |-> libs.value,
                      transport_lib_list |-> transports.value,
                      apply_user_plan_on_startup |-> FlagOf(doc, unset)])
  BY <1>1 DEF jsonToAppConfig
<1>3. /\ cfg.value.agent_lib_list = libs.value
      /\ cfg.value.transport_lib_list = transports.value
      /\ cfg.value.apply_user_plan_on_startup = FlagOf(doc, unset)
  BY <1>2 DEF Optional
<1>4. IsLibList(libs.value) /\ IsLibList(transports.value)
  BY <1>1, LibListDecoded, StartupAssumption
<1> QED
  BY <1>3, <1>4

-----------------------------------------------------------------------------
(* The invariant.                                                          *)

\* What the loops have before them is well formed.
ListsOK ==
  /\ IsLibList(todo)
  /\ IsLibList(extra)
  /\ stage = "agent_libs" => IsLibList(config.transport_lib_list)

MapsOK ==
  /\ opened \in [LibPath -> Int]
  /\ registry \in [Kind -> PathMap]
  /\ handles \in [Kind -> PathMap]
  /\ reported \subseteq Kind \X LibName \X LibPath
  /\ collided \in BOOLEAN

\* The recorded handles of a library.
HandleCount(p) ==
  Cardinality(HandlesOn("agent", p)) + Cardinality(HandlesOn("transport", p))

\* Each recorded handle is an opening of its library, and without a repeated
\* name there are no other openings.
HandlesCounted ==
  /\ \A k \in Kind : \A p \in LibPath : IsFiniteSet(HandlesOn(k, p))
  /\ \A p \in LibPath : opened[p] >= HandleCount(p)
  /\ ~ collided => \A p \in LibPath : opened[p] = HandleCount(p)

\* The two maps agree until the loader closes the handles and forgets them.
HandlesRecorded ==
  IF stage = "loader_destroyed"
    THEN handles = [k \in Kind |-> Nothing]
    ELSE registry = handles

ObjectsOK ==
  /\ objects \subseteq LibPath
  /\ objects # {} => stage = "running"
  /\ ObjectsHaveCode

PlaceOK ==
  /\ stage \in {"parsing", "exited", "extra_file", "plan", "applying", "running",
                "manager_destroyed", "loader_destroyed"} \cup DOMAIN KindOf
  /\ config_file \in ConfigDocuments \cup {None}
  /\ plan_file \in PlanDocuments \cup {None}
  /\ plan_applied \in BOOLEAN

LoaderInv ==
  PlaceOK /\ ListsOK /\ MapsOK /\ HandlesCounted /\ HandlesRecorded /\ ObjectsOK

-----------------------------------------------------------------------------
(* One load and the closing of everything.                                 *)

LEMMA PathMapValues ==
  ASSUME NEW f \in PathMap
  PROVE  /\ DOMAIN f \subseteq LibName
         /\ \A n \in DOMAIN f : f[n] \in LibPath
BY DEF PathMap

\* emplace keeps the map a map from names to files.
LEMMA EmplaceType ==
  ASSUME NEW f \in PathMap, NEW n \in LibName, NEW p \in LibPath
  PROVE  Emplace(f, n, p) \in PathMap
<1>1. DOMAIN f \cup {n} \in SUBSET LibName
  BY PathMapValues
<1>2. Emplace(f, n, p) \in [DOMAIN f \cup {n} -> LibPath]
  BY PathMapValues DEF Emplace
<1> QED
  BY <1>1, <1>2 DEF PathMap

\* A load that defines nothing new leaves the handles of every library as they
\* were; one under a free name adds one handle to its own library.
LEMMA LoadCounts ==
  ASSUME MapsOK, HandlesCounted, registry = handles,
         NEW k \in Kind, NEW n \in LibName, NEW path \in LibPath,
         opened' = [opened EXCEPT ![path] = @ + 1],
         handles' = [handles EXCEPT ![k] = Emplace(@, n, path)],
         collided' = (collided \/ n \in DOMAIN registry[k])
  PROVE  HandlesCounted'
<1> DEFINE Free == n \notin DOMAIN handles[k]
<1>1. ASSUME NEW j \in Kind, NEW p \in LibPath
      PROVE  HandlesOn(j, p)' = IF j = k /\ p = path /\ Free
                                  THEN HandlesOn(j, p) \cup {n} ELSE HandlesOn(j, p)
  <2>1. CASE j # k
    BY <2>1 DEF HandlesOn, MapsOK
  <2>2. CASE j = k
    <3>1. handles'[j] = Emplace(handles[j], n, path)
      BY <2>2 DEF MapsOK
    <3>2. CASE Free
      BY <2>2, <3>1, <3>2 DEF HandlesOn, Emplace
    <3>3. CASE ~ Free
      BY <2>2, <3>1, <3>3 DEF HandlesOn, Emplace
    <3> QED
      BY <3>2, <3>3
  <2> QED
    BY <2>1, <2>2
<1>2. ASSUME NEW j \in Kind, NEW p \in LibPath
      PROVE  /\ IsFiniteSet(HandlesOn(j, p)')
             /\ Cardinality(HandlesOn(j, p)') =
                  Cardinality(HandlesOn(j, p)) + (IF j = k /\ p = path /\ Free THEN 1 ELSE 0)
             /\ Cardinality(HandlesOn(j, p)) \in Nat
  <2>1. IsFiniteSet(HandlesOn(j, p)) /\ Cardinality(HandlesOn(j, p)) \in Nat
    BY FS_CardinalityType DEF HandlesCounted
  <2>2. CASE j = k /\ p = path /\ Free
    <3>1. n \notin HandlesOn(j, p)
      BY <2>2 DEF HandlesOn
    <3> QED
      BY <1>1, <2>1, <2>2, <3>1, FS_AddElement
  <2>3. CASE ~ (j = k /\ p = path /\ Free)
    BY <1>1, <2>1, <2>3
  <2> QED
    BY <2>2, <2>3
<1>3. ASSUME NEW p \in LibPath
      PROVE  HandleCount(p)' = HandleCount(p) + (IF p = path /\ Free THEN 1 ELSE 0)
  <2>1. k = "agent" \/ k = "transport"
    BY DEF Kind
  <2>2. "agent" \in Kind /\ "transport" \in Kind
    BY DEF Kind
  <2> QED
    BY <1>2, <2>1, <2>2 DEF HandleCount
<1>4. ASSUME NEW p \in LibPath
      PROVE  /\ HandleCount(p) \in Nat
             /\ opened[p] \in Int
             /\ opened'[p] = opened[p] + (IF p = path THEN 1 ELSE 0)
  BY <1>2 DEF MapsOK, Kind, HandleCount
<1>5. \A p \in LibPath : opened'[p] >= HandleCount(p)'
  BY <1>3, <1>4 DEF HandlesCounted
<1>6. ASSUME ~ collided' PROVE \A p \in LibPath : opened'[p] = HandleCount(p)'
  BY <1>3, <1>4, <1>6 DEF HandlesCounted
<1> QED
  BY <1>2, <1>5, <1>6 DEF HandlesCounted

LEMMA LoadKeepsMaps ==
  ASSUME MapsOK, HandlesCounted, registry = handles,
         NEW k \in Kind, NEW n \in LibName, NEW path \in LibPath,
         Load(k, n, path)
  PROVE  /\ MapsOK'
         /\ HandlesCounted'
         /\ registry' = handles'
         /\ \A p \in LibPath : opened'[p] >= opened[p]
<1>1. CASE UNCHANGED libVars
  <2>1. /\ UNCHANGED <<opened, registry, handles, reported, collided>>
        /\ \A p \in LibPath : opened[p] \in Int
    BY <1>1 DEF libVars, MapsOK
  <2> QED
    BY <2>1 DEF MapsOK, HandlesCounted, HandleCount, HandlesOn
<1>2. CASE /\ opened' = [opened EXCEPT ![path] = @ + 1]
           /\ registry' = [registry EXCEPT ![k] = Emplace(@, n, path)]
           /\ handles' = [handles EXCEPT ![k] = Emplace(@, n, path)]
           /\ reported' = reported \cup {<<k, n, path>>}
           /\ collided' = (collided \/ n \in DOMAIN registry[k])
  <2>1. HandlesCounted'
    BY <1>2, LoadCounts
  <2>2. Emplace(registry[k], n, path) \in PathMap
    BY EmplaceType DEF MapsOK
  <2>3. MapsOK'
    BY <1>2, <2>2 DEF MapsOK
  <2> QED
    BY <1>2, <2>1, <2>3 DEF MapsOK
<1> QED
  BY <1>1, <1>2 DEF Load

\* The destructor gives back what the handles stand for, and no more.
LEMMA CloseAllCounts ==
  ASSUME MapsOK, HandlesCounted, CloseAll
  PROVE  /\ MapsOK'
         /\ HandlesCounted'
         /\ handles' = [k \in Kind |-> Nothing]
<1>1. /\ handles' = [k \in Kind |-> Nothing]
      /\ opened' = [p \in LibPath |-> opened[p] - Cardinality(HandlesOn("agent", p))
                                                - Cardinality(HandlesOn("transport", p))]
      /\ UNCHANGED <<registry, reported, collided>>
  BY DEF CloseAll
<1>2. Nothing \in PathMap
  <2>1. Nothing \in [{} -> LibPath] /\ {} \in SUBSET LibName
    BY DEF Nothing
  <2> QED
    BY <2>1 DEF PathMap
<1>3. "agent" \in Kind /\ "transport" \in Kind
  BY DEF Kind
<1>4. ASSUME NEW k \in Kind, NEW p \in LibPath
      PROVE  Cardinality(HandlesOn(k, p)) \in Nat
  BY FS_CardinalityType DEF HandlesCounted
<1>5. ASSUME NEW p \in LibPath
      PROVE  /\ opened[p] \in Int
             /\ opened'[p] = opened[p] - HandleCount(p)
             /\ HandleCount(p) \in Nat
  BY <1>1, <1>3, <1>4 DEF MapsOK, HandleCount
<1>6. MapsOK'
  <2>1. \A p \in LibPath : opened[p] - Cardinality(HandlesOn("agent", p))
                                     - Cardinality(HandlesOn("transport", p)) \in Int
    BY <1>3, <1>4, <1>5
  <2>2. opened' \in [LibPath -> Int]
    BY <1>1, <2>1
  <2>3. handles' \in [Kind -> PathMap]
    <3>1. [k \in Kind |-> Nothing] \in [Kind -> PathMap]
      BY <1>2
    <3> QED
      BY <1>1, <3>1
  <2> QED
    BY <1>1, <2>2, <2>3 DEF MapsOK
<1>7. ASSUME NEW k \in Kind, NEW p \in LibPath PROVE HandlesOn(k, p)' = {}
  BY <1>1 DEF HandlesOn, Nothing
<1>8. ASSUME NEW p \in LibPath PROVE HandleCount(p)' = 0
  BY <1>3, <1>7, FS_EmptySet DEF HandleCount
<1>9. HandlesCounted'
  <2>1. \A k \in Kind : \A p \in LibPath : IsFiniteSet(HandlesOn(k, p)')
    BY <1>7, FS_EmptySet
  <2>2. \A p \in LibPath : opened'[p] >= HandleCount(p)'
    BY <1>5, <1>8 DEF HandlesCounted
  <2>3. ~ collided => \A p \in LibPath : opened'[p] = HandleCount(p)'
    BY <1>5, <1>8 DEF HandlesCounted
  <2> QED
    BY <1>1, <2>1, <2>2, <2>3 DEF HandlesCounted
<1> QED
  BY <1>1, <1>6, <1>9

\* A library with a recorded handle is open.
LEMMA RecordedIsOpen ==
  ASSUME MapsOK, HandlesCounted, NEW k \in Kind, NEW n \in DOMAIN handles[k]
  PROVE  handles[k][n] \in LibPath /\ opened[handles[k][n]] > 0
<1> DEFINE p == handles[k][n]
<1>1. p \in LibPath
  BY PathMapValues DEF MapsOK
<1>2. n \in HandlesOn(k, p)
  BY DEF HandlesOn
<1>3. \A j \in Kind : IsFiniteSet(HandlesOn(j, p)) /\ Cardinality(HandlesOn(j, p)) \in Nat
  BY <1>1, FS_CardinalityType DEF HandlesCounted
<1>4. Cardinality(HandlesOn(k, p)) > 0
  BY <1>2, <1>3, FS_EmptySet
<1>5. HandleCount(p) > 0
  BY <1>3, <1>4 DEF HandleCount, Kind
<1> QED
  BY <1>1, <1>5, <1>3 DEF HandlesCounted, MapsOK, HandleCount, Kind

-----------------------------------------------------------------------------
(* The invariant holds.                                                    *)

LEMMA EmptyIsLibList == IsLibList(NoEntries)
BY DEF IsLibList, NoEntries

LEMMA LoaderInvInit == StartupInit => LoaderInv
<1> SUFFICES ASSUME StartupInit PROVE LoaderInv
  OBVIOUS
<1>1. PlaceOK /\ ListsOK
  BY EmptyIsLibList DEF StartupInit, PlaceOK, ListsOK
<1>2. Nothing \in PathMap
  <2>1. Nothing \in [{} -> LibPath] /\ {} \in SUBSET LibName
    BY DEF Nothing
  <2> QED
    BY <2>1 DEF PathMap
<1>3. MapsOK
  <2>1. [k \in Kind |-> Nothing] \in [Kind -> PathMap]
    BY <1>2
  <2>2. [p \in LibPath |-> 0] \in [LibPath -> Int]
    OBVIOUS
  <2> QED
    BY <2>1, <2>2 DEF StartupInit, LibInit, MapsOK
<1>4. \A k \in Kind : \A p \in LibPath : HandlesOn(k, p) = {}
  BY DEF StartupInit, LibInit, HandlesOn, Nothing
<1>5. HandlesCounted
  BY <1>4, FS_EmptySet DEF HandlesCounted, HandleCount, StartupInit, LibInit, Kind
<1>6. HandlesRecorded /\ ObjectsOK
  BY DEF StartupInit, LibInit, HandlesRecorded, ObjectsOK, ObjectsHaveCode
<1> QED
  BY <1>1, <1>3, <1>5, <1>6 DEF LoaderInv

\* A step that leaves the loader alone.
LEMMA LoaderUntouched ==
  ASSUME LoaderInv, UNCHANGED libVars, stage' # "loader_destroyed" \/ stage' = stage
  PROVE  MapsOK' /\ HandlesCounted' /\ (stage # "loader_destroyed" => HandlesRecorded')
BY DEF LoaderInv, libVars, MapsOK, HandlesCounted, HandleCount, HandlesOn, HandlesRecorded

\* A step that leaves the loader and the objects alone.
LEMMA ObjectsUntouched ==
  ASSUME LoaderInv, UNCHANGED <<libVars, objects>>, stage' = "running" \/ stage # "running"
  PROVE  ObjectsOK'
BY DEF LoaderInv, libVars, ObjectsOK, ObjectsHaveCode

LEMMA LoadLibraryStep ==
  ASSUME LoaderInv, NEW n \in LibName, LoadLibrary(n)
  PROVE  LoaderInv'
<1> USE DEF LoaderInv
<1>1. /\ stage \in DOMAIN KindOf
      /\ n \in DOMAIN todo
      /\ Load(KindOf[stage], n, todo[n].data)
      /\ todo' = [m \in DOMAIN todo \ {n} |-> todo[m]]
      /\ UNCHANGED <<stage, config_file, config, extra, plan_file, current_plan, plan_applied,
                     objects>>
  BY DEF LoadLibrary
<1>2. KindOf[stage] \in Kind /\ todo[n].data \in LibPath
  BY <1>1 DEF KindOf, Kind, ListsOK, IsLibList
<1>3. stage # "loader_destroyed" /\ stage # "running"
  BY <1>1 DEF KindOf
<1>4. /\ MapsOK' /\ HandlesCounted' /\ registry' = handles'
      /\ \A p \in LibPath : opened'[p] >= opened[p]
  BY <1>1, <1>2, <1>3, LoadKeepsMaps DEF HandlesRecorded
<1>5. IsLibList(todo')
  BY <1>1 DEF ListsOK, IsLibList
<1>6. PlaceOK' /\ ListsOK'
  BY <1>1, <1>5 DEF PlaceOK, ListsOK, IsLibList
<1>7. ObjectsOK'
  BY <1>1, <1>3 DEF ObjectsOK, ObjectsHaveCode
<1> QED
  BY <1>1, <1>3, <1>4, <1>6, <1>7 DEF HandlesRecorded

LEMMA ParseStep ==
  ASSUME LoaderInv, GiveUp \/ \E doc \in ConfigDocuments : parseArgs(doc)
  PROVE  LoaderInv'
<1> USE DEF LoaderInv
<1>1. /\ stage = "parsing" /\ stage' \in {"exited", "agent_libs"}
      /\ UNCHANGED <<libVars, objects, extra, plan_file, plan_applied>>
  BY DEF GiveUp, parseArgs
<1>2. MapsOK' /\ HandlesCounted' /\ HandlesRecorded' /\ ObjectsOK'
  BY <1>1, LoaderUntouched, ObjectsUntouched
<1>3. /\ config_file' \in ConfigDocuments \cup {None}
      /\ IsLibList(todo')
      /\ stage' = "agent_libs" => IsLibList(config'.transport_lib_list)
  <2>1. CASE GiveUp
    BY <2>1 DEF GiveUp, PlaceOK, ListsOK
  <2>2. ASSUME NEW doc \in ConfigDocuments, parseArgs(doc)
        PROVE  <1>3!1 /\ <1>3!2 /\ <1>3!3
    <3>1. PICK unset \in BOOLEAN :
            LET decoded == jsonToAppConfig(doc, unset) IN
              IF ~ decoded.has_value
                THEN stage' = "exited" /\ UNCHANGED <<config_file, config, todo>>
                ELSE /\ stage' = "agent_libs"
                     /\ config_file' = doc
                     /\ config' = decoded.value
                     /\ todo' = decoded.value.agent_lib_list
      BY <2>2 DEF parseArgs
    <3>2. CASE ~ jsonToAppConfig(doc, unset).has_value
      BY <3>1, <3>2 DEF PlaceOK, ListsOK
    <3>3. CASE jsonToAppConfig(doc, unset).has_value
      BY <3>1, <3>3, ConfigDecoded
    <3> QED
      BY <3>2, <3>3
  <2> QED
    BY <2>1, <2>2
<1>4. PlaceOK' /\ ListsOK'
  BY <1>1, <1>3 DEF PlaceOK, ListsOK, KindOf, IsLibList
<1> QED
  BY <1>2, <1>4

LEMMA NextListStep ==
  ASSUME LoaderInv, NextList
  PROVE  LoaderInv'
<1> USE DEF LoaderInv
<1>1. /\ stage \in {"agent_libs", "transport_libs", "extra_agent_libs", "extra_transport_libs"}
      /\ stage' \in {"transport_libs", "extra_file", "plan", "extra_transport_libs"}
      /\ UNCHANGED <<libVars, config_file, config, extra, plan_file, plan_applied, objects>>
  BY DEF NextList, EnterStage
<1>2. MapsOK' /\ HandlesCounted' /\ HandlesRecorded' /\ ObjectsOK'
  BY <1>1, LoaderUntouched, ObjectsUntouched
<1>3. IsLibList(todo')
  BY EmptyIsLibList DEF NextList, EnterStage, ListsOK
<1>4. PlaceOK' /\ ListsOK'
  BY <1>1, <1>3 DEF PlaceOK, ListsOK, KindOf, IsLibList
<1> QED
  BY <1>2, <1>4

LEMMA ExtraListStep ==
  ASSUME LoaderInv, ExtraListMissing \/ \E doc \in ConfigDocuments : ReadExtraList(doc)
  PROVE  LoaderInv'
<1> USE DEF LoaderInv
<1>1. /\ stage = "extra_file" /\ stage' \in {"running", "extra_agent_libs"}
      /\ UNCHANGED <<libVars, config_file, plan_file, plan_applied, objects>>
  BY DEF ExtraListMissing, ReadExtraList, ConfigApplied
<1>2. MapsOK' /\ HandlesCounted' /\ HandlesRecorded' /\ ObjectsOK'
  BY <1>1, LoaderUntouched, ObjectsUntouched
<1>3. IsLibList(todo') /\ IsLibList(extra')
  <2>1. CASE ExtraListMissing
    BY <2>1, EmptyIsLibList DEF ExtraListMissing, ConfigApplied, ListsOK
  <2>2. ASSUME NEW doc \in ConfigDocuments, ReadExtraList(doc)
        PROVE  IsLibList(todo') /\ IsLibList(extra')
    <3>1. PICK unset \in BOOLEAN :
            LET decoded == jsonToAppConfig(doc, unset) IN
              IF ~ decoded.has_value
                THEN ConfigApplied /\ UNCHANGED todo
                ELSE /\ stage' = "extra_agent_libs"
                     /\ extra' = decoded.value.transport_lib_list
                     /\ todo' = decoded.value.agent_lib_list
                     /\ UNCHANGED config
      BY <2>2 DEF ReadExtraList
    <3>2. CASE ~ jsonToAppConfig(doc, unset).has_value
      BY <3>1, <3>2, EmptyIsLibList DEF ConfigApplied, ListsOK
    <3>3. CASE jsonToAppConfig(doc, unset).has_value
      BY <3>1, <3>3, ConfigDecoded
    <3> QED
      BY <3>2, <3>3
  <2> QED
    BY <2>1, <2>2
<1>4. PlaceOK' /\ ListsOK'
  BY <1>1, <1>3 DEF PlaceOK, ListsOK, KindOf, IsLibList
<1> QED
  BY <1>2, <1>4

LEMMA PlanFileStep ==
  ASSUME LoaderInv, SkipPlan \/ \E doc \in PlanDocuments : LoadPlan(doc)
  PROVE  LoaderInv'
<1> USE DEF LoaderInv
<1>1. /\ stage = "plan" /\ stage' \in {"running", "applying"}
      /\ UNCHANGED <<libVars, config_file, todo, plan_applied, objects>>
      /\ plan_file' \in PlanDocuments \cup {None}
      /\ extra' = extra \/ extra' = NoEntries
  BY DEF SkipPlan, LoadPlan, ConfigApplied, PlaceOK
<1>2. MapsOK' /\ HandlesCounted' /\ HandlesRecorded' /\ ObjectsOK'
  BY <1>1, LoaderUntouched, ObjectsUntouched
<1>3. PlaceOK' /\ ListsOK'
  BY <1>1, EmptyIsLibList DEF PlaceOK, ListsOK, KindOf, IsLibList
<1> QED
  BY <1>2, <1>3

\* Agents and transports are made of registered definitions, whose libraries
\* are open.
LEMMA ApplyPlanStep ==
  ASSUME LoaderInv, ApplyPlan
  PROVE  LoaderInv'
<1> USE DEF LoaderInv
<1>1. /\ stage = "applying" /\ stage' = "running"
      /\ UNCHANGED <<libVars, config_file, todo, plan_file>>
      /\ plan_applied' = TRUE
      /\ extra' = NoEntries
      /\ objects' \subseteq RegisteredLibraries
  BY DEF ApplyPlan, ConfigApplied
<1>2. MapsOK' /\ HandlesCounted' /\ HandlesRecorded'
  BY <1>1, LoaderUntouched
<1>3. registry = handles
  BY <1>1 DEF HandlesRecorded
<1>4. ASSUME NEW p \in objects' PROVE p \in LibPath /\ opened[p] > 0
  <2>1. PICK k \in Kind : \E n \in DOMAIN registry[k] : p = registry[k][n]
    BY <1>1, <1>4 DEF RegisteredLibraries
  <2> QED
    BY <1>3, <2>1, RecordedIsOpen
<1>5. ObjectsOK'
  BY <1>1, <1>4 DEF ObjectsOK, ObjectsHaveCode, libVars
<1>6. PlaceOK' /\ ListsOK'
  BY <1>1, EmptyIsLibList DEF PlaceOK, ListsOK, KindOf, IsLibList
<1> QED
  BY <1>2, <1>5, <1>6

LEMMA TeardownStep ==
  ASSUME LoaderInv, DestroyManager \/ DestroyLoader
  PROVE  LoaderInv'
<1> USE DEF LoaderInv
<1>1. UNCHANGED <<config_file, config, extra, todo, plan_file, plan_applied>>
  BY DEF DestroyManager, DestroyLoader
<1>2. CASE DestroyManager
  <2>1. stage = "running" /\ stage' = "manager_destroyed" /\ objects' = {} /\ UNCHANGED libVars
    BY <1>2 DEF DestroyManager
  <2>2. MapsOK' /\ HandlesCounted' /\ HandlesRecorded'
    BY <2>1, LoaderUntouched
  <2>3. ObjectsOK' /\ PlaceOK' /\ ListsOK'
    BY <1>1, <2>1 DEF ObjectsOK, ObjectsHaveCode, PlaceOK, ListsOK, IsLibList
  <2> QED
    BY <2>2, <2>3
<1>3. CASE DestroyLoader
  <2>1. /\ stage = "manager_destroyed" /\ stage' = "loader_destroyed"
        /\ objects' = objects /\ CloseAll
    BY <1>3 DEF DestroyLoader
  <2>2. MapsOK' /\ HandlesCounted' /\ HandlesRecorded'
    BY <2>1, CloseAllCounts DEF HandlesRecorded
  <2>3. ObjectsOK' /\ PlaceOK' /\ ListsOK'
    BY <1>1, <2>1 DEF ObjectsOK, ObjectsHaveCode, PlaceOK, ListsOK, IsLibList
  <2> QED
    BY <2>2, <2>3
<1> QED
  BY <1>2, <1>3

LEMMA LoaderInvStep == LoaderInv /\ [StartupNext]_allVars => LoaderInv'
<1> SUFFICES ASSUME LoaderInv, [StartupNext]_allVars PROVE LoaderInv'
  OBVIOUS
<1>1. CASE UNCHANGED allVars
  <2>1. UNCHANGED libVars /\ UNCHANGED objects /\ UNCHANGED stage
    BY <1>1 DEF allVars, libVars
  <2>2. MapsOK' /\ HandlesCounted' /\ HandlesRecorded' /\ ObjectsOK'
    BY <1>1, <2>1, LoaderUntouched
       DEF LoaderInv, HandlesRecorded, libVars, ObjectsOK, ObjectsHaveCode
  <2>3. PlaceOK' /\ ListsOK'
    BY <1>1 DEF allVars, LoaderInv, PlaceOK, ListsOK, IsLibList
  <2> QED
    BY <2>2, <2>3 DEF LoaderInv
<1> QED
  BY <1>1, LoadLibraryStep, ParseStep, NextListStep, ExtraListStep, PlanFileStep,
     ApplyPlanStep, TeardownStep DEF StartupNext

LEMMA LoaderInvariant == StartupSpec => []LoaderInv
BY LoaderInvInit, LoaderInvStep, PTL DEF StartupSpec

-----------------------------------------------------------------------------
(* The theorems.                                                           *)

\* An open count is never negative, and nothing stays open.
LEMMA CountsOfOpenings ==
  ASSUME LoaderInv
  PROVE  /\ opened \in [LibPath -> Nat]
         /\ NothingStaysOpen
<1> USE DEF LoaderInv
<1>1. ASSUME NEW k \in Kind, NEW p \in LibPath
      PROVE  Cardinality(HandlesOn(k, p)) \in Nat
  BY FS_CardinalityType DEF HandlesCounted
<1>2. ASSUME NEW p \in LibPath PROVE opened[p] >= 0 /\ opened[p] \in Int
  BY <1>1 DEF HandlesCounted, HandleCount, MapsOK, Kind
<1>3. opened \in [LibPath -> Nat]
  BY <1>2 DEF MapsOK
<1>4. ASSUME stage = "loader_destroyed", ~ collided, NEW p \in LibPath
      PROVE  opened[p] = 0
  <2>1. \A k \in Kind : HandlesOn(k, p) = {}
    BY <1>4 DEF HandlesRecorded, HandlesOn, Nothing
  <2>2. HandleCount(p) = 0
    BY <2>1, FS_EmptySet DEF HandleCount, Kind
  <2> QED
    BY <1>4, <2>2 DEF HandlesCounted
<1> QED
  BY <1>2, <1>3, <1>4 DEF NothingStaysOpen

\* Every variable keeps its shape, for any documents and number of loads: no
\* library is closed more often than it was opened (LibLoader.cpp).
THEOREM StartupTypeCorrect == StartupSpec => []TypeOK
<1>1. LoaderInv => TypeOK
  BY CountsOfOpenings
     DEF LoaderInv, TypeOK, LibTypeOK, PlaceOK, ListsOK, MapsOK, ObjectsOK, IsLibList
<1> QED
  BY <1>1, LoaderInvariant, PTL

\* Both registries refer to open libraries, and to those whose handles are
\* recorded, as long as the loader lives (LibLoader.cpp, AgentRegistry.cpp).
THEOREM DefinitionsBacked == StartupSpec => []DefinitionsAreBacked
<1>1. LoaderInv => DefinitionsAreBacked
  BY RecordedIsOpen DEF LoaderInv, HandlesRecorded, DefinitionsAreBacked
<1> QED
  BY <1>1, LoaderInvariant, PTL

\* No agent or transport outlives the code it runs (order of App's members).
THEOREM CodeOutlivesObjects == StartupSpec => []ObjectsHaveCode
<1>1. LoaderInv => ObjectsHaveCode
  BY DEF LoaderInv, ObjectsOK
<1> QED
  BY <1>1, LoaderInvariant, PTL

\* ~LibLoader closes all that was opened, unless a load under a name that was
\* taken lost a handle.
THEOREM AllIsClosed == StartupSpec => []NothingStaysOpen
<1>1. LoaderInv => NothingStaysOpen
  BY CountsOfOpenings
<1> QED
  BY <1>1, LoaderInvariant, PTL

-----------------------------------------------------------------------------
(* The startup plan.                                                       *)

\* Until the plan file is read there is no plan, and afterwards the plan is
\* what the file says.
PlanInv ==
  /\ stage \in {"parsing", "extra_file", "plan"} \cup DOMAIN KindOf =>
       plan_file = None /\ ~ current_plan.has_value
  /\ DiscardLoadsAllOrNothing
  /\ BestEffortLoadsTheGood
  /\ GoodFilesLoadFaithfully

LEMMA PlanInvInit == StartupInit => PlanInv
BY DEF StartupInit, PlanInv, DiscardLoadsAllOrNothing, BestEffortLoadsTheGood,
       GoodFilesLoadFaithfully, Nullopt

\* The file is read once, into a service that has no plan yet.
LEMMA LoadPlanStep ==
  ASSUME PlanInv, NEW doc \in PlanDocuments, LoadPlan(doc)
  PROVE  PlanInv'
<1>1. PICK unset \in {"DISCARD", "BEST_EFFORT", "INDETERMINATE"} :
        LET decoded == jsonToUserPlan(doc, unset) IN
          IF ~ decoded.has_value
            THEN ConfigApplied /\ UNCHANGED current_plan
            ELSE /\ current_plan' = decoded
                 /\ IF config.apply_user_plan_on_startup
                      THEN stage' = "applying" /\ UNCHANGED <<config, extra>>
                      ELSE ConfigApplied
  BY DEF LoadPlan
<1>2. /\ plan_file' = doc
      /\ ~ current_plan.has_value
      /\ stage' \in {"applying", "running"}
  BY DEF LoadPlan, PlanInv, ConfigApplied
<1> DEFINE decoded == jsonToUserPlan(doc, unset)
<1>3. /\ decoded.has_value => current_plan' = decoded
      /\ ~ decoded.has_value => ~ current_plan'.has_value
  BY <1>1, <1>2
<1>4. /\ doc.policy = "discard" => (decoded.has_value <=> DocumentIsGood(doc))
      /\ doc.policy = "best_effort" => decoded.has_value /\ PlanHolds(decoded.value, doc)
      /\ doc.policy # "unknown" /\ DocumentIsGood(doc) =>
           decoded.has_value /\ PlanHolds(decoded.value, doc)
  BY StartupAssumption, PlanDecoded
<1> HIDE DEF decoded
<1>5. PlanHoldsGoodEntries' <=> PlanHolds(current_plan'.value, doc)
  BY <1>2 DEF PlanHoldsGoodEntries, PlanHolds
<1>6. /\ DiscardLoadsAllOrNothing'
      /\ BestEffortLoadsTheGood'
      /\ GoodFilesLoadFaithfully'
  BY <1>2, <1>3, <1>4, <1>5
     DEF DiscardLoadsAllOrNothing, BestEffortLoadsTheGood, GoodFilesLoadFaithfully
<1> QED
  BY <1>2, <1>6 DEF PlanInv, KindOf

LEMMA PlanInvStep == PlanInv /\ [StartupNext]_allVars => PlanInv'
<1> SUFFICES ASSUME PlanInv, [StartupNext]_allVars, ~ \E doc \in PlanDocuments : LoadPlan(doc)
             PROVE  PlanInv'
  BY LoadPlanStep
<1>1. UNCHANGED <<plan_file, current_plan>>
  BY DEF StartupNext, allVars, GiveUp, parseArgs, LoadLibrary, NextList, EnterStage,
         ReadExtraList, ExtraListMissing, SkipPlan, ApplyPlan, DestroyManager, DestroyLoader
<1>2. stage' \in {"parsing", "extra_file", "plan"} \cup DOMAIN KindOf =>
        stage \in {"parsing", "extra_file", "plan"} \cup DOMAIN KindOf
  BY DEF StartupNext, allVars, GiveUp, parseArgs, LoadLibrary, NextList, EnterStage,
         ReadExtraList, ExtraListMissing, SkipPlan, ApplyPlan, DestroyManager, DestroyLoader,
         ConfigApplied, KindOf
<1>3. /\ DiscardLoadsAllOrNothing'
      /\ BestEffortLoadsTheGood'
      /\ GoodFilesLoadFaithfully'
  BY <1>1 DEF PlanInv, DiscardLoadsAllOrNothing, BestEffortLoadsTheGood,
              GoodFilesLoadFaithfully, PlanHoldsGoodEntries
<1> QED
  BY <1>1, <1>2, <1>3 DEF PlanInv

LEMMA PlanInvariant == StartupSpec => []PlanInv
BY PlanInvInit, PlanInvStep, PTL DEF StartupSpec

\* A file under "discard" with any number of entries loads if and only if none
\* is malformed (JsonUtils.cpp, jsonToUserPlan).
THEOREM DiscardFilesAllOrNothing == StartupSpec => []DiscardLoadsAllOrNothing
<1>1. PlanInv => DiscardLoadsAllOrNothing
  BY DEF PlanInv
<1> QED
  BY <1>1, PlanInvariant, PTL

\* A file under "best_effort" with any number of entries loads with exactly the
\* good ones (JsonUtils.cpp, jsonToEndpointList and jsonToAgentList).
THEOREM BestEffortFilesLoad == StartupSpec => []BestEffortLoadsTheGood
<1>1. PlanInv => BestEffortLoadsTheGood
  BY DEF PlanInv
<1> QED
  BY <1>1, PlanInvariant, PTL

\* A good file loads as it stands whatever the uninitialized UserPlan::policy
\* held (JsonUtils.cpp, jsonToUserPlan).
THEOREM GoodFilesLoad == StartupSpec => []GoodFilesLoadFaithfully
<1>1. PlanInv => GoodFilesLoadFaithfully
  BY DEF PlanInv
<1> QED
  BY <1>1, PlanInvariant, PTL

-----------------------------------------------------------------------------
(* Where the two findings about the startup end.                           *)

\* Every load that reported success has left its name registered, and as long
\* as no name was repeated the name refers to the library it was asked to load:
\* a repeated name is the only way to break what ILibLoader.h says.
OnlyRepeatedNamesMislead ==
  /\ \A k \in Kind : \A n \in LibName : \A p \in LibPath :
       <<k, n, p>> \in reported => n \in DOMAIN registry[k]
  /\ ~ collided => SuccessMeansRegistered

LEMMA LoadsReported ==
  ASSUME LoaderInv, OnlyRepeatedNamesMislead, NEW m \in LibName, LoadLibrary(m)
  PROVE  OnlyRepeatedNamesMislead'
<1> DEFINE j == KindOf[stage]
           q == todo[m].data
<1>1. stage \in DOMAIN KindOf /\ m \in DOMAIN todo /\ Load(j, m, q)
  BY DEF LoadLibrary
<1>2. j \in Kind /\ q \in LibPath
  BY <1>1 DEF KindOf, Kind, LoaderInv, ListsOK, IsLibList
<1>3. registry \in [Kind -> PathMap]
  BY DEF LoaderInv, MapsOK
<1> HIDE DEF j, q
<1>4. CASE UNCHANGED libVars
  BY <1>4 DEF libVars, OnlyRepeatedNamesMislead, SuccessMeansRegistered
<1>5. CASE /\ registry' = [registry EXCEPT ![j] = Emplace(@, m, q)]
           /\ reported' = reported \cup {<<j, m, q>>}
           /\ collided' = (collided \/ m \in DOMAIN registry[j])
  <2>1. \A k \in Kind :
          DOMAIN registry'[k] = DOMAIN registry[k] \cup (IF k = j THEN {m} ELSE {})
    BY <1>2, <1>3, <1>5 DEF Emplace
  <2>2. \A k \in Kind : \A n \in DOMAIN registry[k] : registry'[k][n] = registry[k][n]
    BY <1>2, <1>3, <1>5 DEF Emplace
  <2>3. m \notin DOMAIN registry[j] => registry'[j][m] = q
    BY <1>2, <1>3, <1>5 DEF Emplace
  <2>4. ASSUME NEW k \in Kind, NEW n \in LibName, NEW p \in LibPath, <<k, n, p>> \in reported'
        PROVE  /\ n \in DOMAIN registry'[k]
               /\ ~ collided' => registry'[k][n] = p
    <3>0. ~ collided' => ~ collided /\ m \notin DOMAIN registry[j]
      BY <1>5
    <3>1. CASE <<k, n, p>> \in reported
      <4>1. n \in DOMAIN registry[k]
        BY <3>1 DEF OnlyRepeatedNamesMislead
      <4>2. ~ collided => registry[k][n] = p
        BY <3>1 DEF OnlyRepeatedNamesMislead, SuccessMeansRegistered
      <4> QED
        BY <2>1, <2>2, <3>0, <4>1, <4>2
    <3>2. CASE k = j /\ n = m /\ p = q
      BY <2>1, <2>3, <3>0, <3>2
    <3> QED
      BY <1>5, <2>4, <3>1, <3>2
  <2> QED
    BY <2>4 DEF OnlyRepeatedNamesMislead, SuccessMeansRegistered
<1> QED
  BY <1>1, <1>4, <1>5 DEF Load

LEMMA ReportsStand ==
  LoaderInv /\ OnlyRepeatedNamesMislead /\ [StartupNext]_allVars => OnlyRepeatedNamesMislead'
<1> SUFFICES ASSUME LoaderInv, OnlyRepeatedNamesMislead, [StartupNext]_allVars,
                    ~ \E n \in LibName : LoadLibrary(n)
             PROVE  OnlyRepeatedNamesMislead'
  BY LoadsReported
<1>1. UNCHANGED <<registry, reported, collided>>
  BY DEF StartupNext, allVars, libVars, GiveUp, parseArgs, NextList, EnterStage, ReadExtraList,
         ExtraListMissing, SkipPlan, LoadPlan, ApplyPlan, DestroyManager, DestroyLoader, CloseAll
<1> QED
  BY <1>1 DEF OnlyRepeatedNamesMislead, SuccessMeansRegistered

\* A load that reports success registers its definition unless the name was
\* taken (LibLoader.cpp, AgentRegistry.cpp).
THEOREM RepeatedNamesAlone == StartupSpec => []OnlyRepeatedNamesMislead
<1>1. StartupInit => OnlyRepeatedNamesMislead
  BY DEF StartupInit, LibInit, OnlyRepeatedNamesMislead, SuccessMeansRegistered
<1> QED
  BY <1>1, ReportsStand, LoaderInvariant, PTL DEF StartupSpec

\* Once the configuration has been applied, a stated flag has decided alone:
\* the plan that was loaded, if any, was applied if and only if the flag is
\* true. And no plan is ever applied without having been loaded.
StatedFlagDecides ==
  /\ plan_applied => current_plan.has_value
  /\ /\ stage \in {"running", "manager_destroyed", "loader_destroyed"}
     /\ config_file.apply_user_plan_on_startup # "absent"
     => (plan_applied <=>
           current_plan.has_value /\ config_file.apply_user_plan_on_startup = "true")

Applying == DOMAIN KindOf \cup {"extra_file", "plan"}

\* The flag travels from the file to the decision.
FlagInv ==
  /\ stage \in Applying /\ config_file.apply_user_plan_on_startup # "absent" =>
       (config.apply_user_plan_on_startup <=> config_file.apply_user_plan_on_startup = "true")
  /\ stage \in Applying \cup {"parsing"} => ~ current_plan.has_value
  /\ stage \in Applying \cup {"parsing", "applying"} => ~ plan_applied
  /\ stage = "applying" => current_plan.has_value
  /\ stage = "applying" /\ config_file.apply_user_plan_on_startup # "absent" =>
       config_file.apply_user_plan_on_startup = "true"
  /\ StatedFlagDecides

LEMMA FlagParsed ==
  ASSUME FlagInv, NEW doc \in ConfigDocuments, parseArgs(doc)
  PROVE  FlagInv'
<1>1. PICK unset \in BOOLEAN :
        LET decoded == jsonToAppConfig(doc, unset) IN
          IF ~ decoded.has_value
            THEN stage' = "exited" /\ UNCHANGED <<config_file, config, todo>>
            ELSE /\ stage' = "agent_libs"
                 /\ config_file' = doc
                 /\ config' = decoded.value
                 /\ todo' = decoded.value.agent_lib_list
  BY DEF parseArgs
<1>2. UNCHANGED <<current_plan, plan_applied>> /\ ~ current_plan.has_value /\ ~ plan_applied
  BY DEF parseArgs, FlagInv
<1>3. CASE ~ jsonToAppConfig(doc, unset).has_value
  <2>1. stage' = "exited"
    BY <1>1, <1>3
  <2> QED
    BY <1>2, <2>1 DEF FlagInv, StatedFlagDecides, Applying, KindOf
<1>4. CASE jsonToAppConfig(doc, unset).has_value
  <2>1. /\ stage' = "agent_libs"
        /\ config_file' = doc
        /\ config'.apply_user_plan_on_startup = FlagOf(doc, unset)
    BY <1>1, <1>4, ConfigDecoded
  <2> QED
    BY <1>2, <2>1 DEF FlagInv, StatedFlagDecides, Applying, KindOf, FlagOf
<1> QED
  BY <1>3, <1>4

LEMMA FlagConsulted ==
  ASSUME FlagInv, NEW doc \in PlanDocuments, LoadPlan(doc)
  PROVE  FlagInv'
<1>1. PICK unset \in {"DISCARD", "BEST_EFFORT", "INDETERMINATE"} :
        LET decoded == jsonToUserPlan(doc, unset) IN
          IF ~ decoded.has_value
            THEN ConfigApplied /\ UNCHANGED current_plan
            ELSE /\ current_plan' = decoded
                 /\ IF config.apply_user_plan_on_startup
                      THEN stage' = "applying" /\ UNCHANGED <<config, extra>>
                      ELSE ConfigApplied
  BY DEF LoadPlan
<1>2. /\ ~ current_plan.has_value /\ ~ plan_applied
      /\ UNCHANGED <<config_file, plan_applied>>
      /\ config_file.apply_user_plan_on_startup # "absent" =>
           (config.apply_user_plan_on_startup <=> config_file.apply_user_plan_on_startup = "true")
  BY DEF LoadPlan, FlagInv, Applying
<1> DEFINE decoded == jsonToUserPlan(doc, unset)
<1>3. CASE ~ decoded.has_value
  <2>1. stage' = "running" /\ UNCHANGED current_plan
    BY <1>1, <1>3 DEF ConfigApplied
  <2> QED
    BY <1>2, <2>1 DEF FlagInv, StatedFlagDecides, Applying, KindOf
<1>4. CASE decoded.has_value
  <2>1. /\ current_plan'.has_value
        /\ stage' = IF config.apply_user_plan_on_startup THEN "applying" ELSE "running"
    BY <1>1, <1>4 DEF ConfigApplied
  <2> QED
    BY <1>2, <2>1 DEF FlagInv, StatedFlagDecides, Applying, KindOf
<1> QED
  BY <1>3, <1>4

LEMMA FlagInvStep == FlagInv /\ [StartupNext]_allVars => FlagInv'
<1> SUFFICES ASSUME FlagInv, [StartupNext]_allVars PROVE FlagInv'
  OBVIOUS
<1> USE DEF FlagInv, StatedFlagDecides, Applying, KindOf
<1>1. CASE UNCHANGED allVars
  BY <1>1 DEF allVars
<1>2. CASE GiveUp
  BY <1>2 DEF GiveUp
<1>3. ASSUME NEW n \in LibName, LoadLibrary(n) PROVE FlagInv'
  BY <1>3 DEF LoadLibrary
<1>4. CASE NextList
  BY <1>4 DEF NextList, EnterStage
<1>5. ASSUME NEW doc \in ConfigDocuments, ReadExtraList(doc) PROVE FlagInv'
  <2>1. /\ stage = "extra_file"
        /\ UNCHANGED <<config_file, current_plan, plan_applied>>
        /\ \/ stage' = "running"
           \/ stage' = "extra_agent_libs" /\ UNCHANGED config
    BY <1>5 DEF ReadExtraList, ConfigApplied
  <2> QED
    BY <2>1
<1>6. CASE ExtraListMissing \/ SkipPlan
  BY <1>6 DEF ExtraListMissing, SkipPlan, ConfigApplied
<1>7. CASE ApplyPlan
  BY <1>7 DEF ApplyPlan, ConfigApplied
<1>8. CASE DestroyManager \/ DestroyLoader
  BY <1>8 DEF DestroyManager, DestroyLoader
<1> QED
  BY <1>1, <1>2, <1>3, <1>4, <1>5, <1>6, <1>7, <1>8, FlagParsed, FlagConsulted DEF StartupNext

\* A configuration that states the flag is followed (AppConfigurator.cpp): only
\* its absence lets the startup plan be applied unasked.
THEOREM StatedFlagIsFollowed == StartupSpec => []StatedFlagDecides
<1>1. StartupInit => FlagInv
  BY DEF StartupInit, FlagInv, StatedFlagDecides, Applying, KindOf, Nullopt
<1>2. FlagInv => StatedFlagDecides
  BY DEF FlagInv
<1> QED
  BY <1>1, <1>2, FlagInvStep, PTL DEF StartupSpec

-----------------------------------------------------------------------------
(* What the decoders compute, apart from any behaviour.                    *)

\* A library list decodes if and only if it is an array without a malformed
\* entry and without a repeated name, however long it is, and then holds
\* exactly its entries (JsonUtils.cpp, jsonToLibList).
THEOREM LibListAllOrNothing ==
  ASSUME NEW section, IsSection(section)
  PROVE  LET list == jsonToLibList(section) IN
           /\ list.has_value <=>
                section.shape = "array" /\ NoneRefused(section.entries, Len(section.entries))
           /\ list.has_value => HoldsLibs(list, section.entries, Len(section.entries))
<1>1. Len(section.entries) \in Nat
  BY DEF IsSection
<1>2. HoldsLibs(LibsAfter(section.entries)[Len(section.entries)], section.entries,
                Len(section.entries))
  BY <1>1, LoopHoldsLibs
<1>3. CASE section.shape # "array"
  BY <1>3 DEF jsonToLibList, Nullopt
<1>4. CASE section.shape = "array"
  BY <1>2, <1>4 DEF jsonToLibList, HoldsLibs
<1> QED
  BY <1>3, <1>4
=============================================================================
