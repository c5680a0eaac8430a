-------------------------- MODULE ManagerLifecycle --------------------------
(***************************************************************************)
(* What the registry promises of the entry of each cluster, without the    *)
(* goroutines: an entry is claimed for a row of the table, completed,      *)
(* closed, and only then forgotten.  It is never replaced in place, and    *)
(* its row never changes.  A restart of the process forgets everything.    *)
(***************************************************************************)
CONSTANTS Clusters, Rows, Nil

VARIABLES phase, row

vars == <<phase, row>>

Init ==
    /\ phase = [c \in Clusters |-> "absent"]
    /\ row = [c \in Clusters |-> Nil]

Claim(c, r) ==
    /\ phase[c] = "absent"
    /\ phase' = [phase EXCEPT ![c] = "building"]
    /\ row' = [row EXCEPT ![c] = r]

Complete(c) ==
    /\ phase[c] = "building"
    /\ phase' = [phase EXCEPT ![c] = "ready"]
    /\ UNCHANGED row

Close(c) ==
    /\ phase[c] = "ready"
    /\ phase' = [phase EXCEPT ![c] = "closing"]
    /\ UNCHANGED row

Forget(c) ==
    /\ phase[c] = "closing"
    /\ phase' = [phase EXCEPT ![c] = "absent"]
    /\ row' = [row EXCEPT ![c] = Nil]

Restart == Init'

Next ==
    \/ \E c \in Clusters, r \in Rows : Claim(c, r)
    \/ \E c \in Clusters : Complete(c) \/ Close(c) \/ Forget(c)
    \/ Restart

Spec == Init /\ [][Next]_vars

ClosingEnds == \A c \in Clusters : phase[c] = "closing" ~> phase[c] = "absent"

==============================================================================
