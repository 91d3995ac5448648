------------------------------ MODULE MCManager ------------------------------
EXTENDS Manager, TLC

Symmetry ==
  Permutations(HandleId) \cup Permutations(AgentName) \cup Permutations(EndpointName)
=============================================================================
