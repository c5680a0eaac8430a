------------------------------ MODULE MCAIConfig ------------------------------
(* Instances of AIConfig for TLC: the .cfg files give the constants.        *)
EXTENDS AIConfig, TLC

Interchangeable == Permutations(Handlers) \cup Permutations(Providers)
===============================================================================
