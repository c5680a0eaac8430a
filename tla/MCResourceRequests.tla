-------------------------- MODULE MCResourceRequests --------------------------
(* Instances of ResourceRequests for TLC: the .cfg files give the constants. *)
EXTENDS ResourceRequests

\* Two groups serve ingresses, the second in a version that has no client.
FoundLists ==
    <<[group |-> "extensions", version |-> "v1beta1", names |-> {"ingresses"}],
      [group |-> "networking.k8s.io", version |-> "v2", names |-> {"ingresses"}],
      [group |-> "example.com", version |-> "v1", names |-> {"ingresses"}]>>
===============================================================================
