--------------------------- MODULE MCNodeOperations ---------------------------
(* Instances of NodeOperations for TLC: the .cfg files give the constants.  *)
EXTENDS NodeOperations

CONSTANTS l1, t1

\* A client or a controller has set a label and a taint, and cordoned the node.
ForeignNodes == {[labels |-> {l1}, taints |-> {t1}, unschedulable |-> TRUE]}
===============================================================================
