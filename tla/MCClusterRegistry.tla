-------------------------- MODULE MCClusterRegistry --------------------------
(* Instances of ClusterRegistry for TLC: the .cfg files give the constants.  *)
EXTENDS ClusterRegistry, TLC

\* What a row says, and which request asks, is all the same to the registry.
Interchangeable == Permutations(Configs) \cup Permutations(Requests)
==============================================================================
