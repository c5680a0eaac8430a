---------------------------- MODULE NodeOperations ----------------------------
(***************************************************************************)
(* The handlers that change a node of a cluster:                           *)
(*   controllers/kubernetes/node/node.go    labels, taints, cordon, update, *)
(*   pkg/kubernetes/resources/node/node.go  the calls they make, the drain. *)
(*                                                                         *)
(* Each reads the node, changes its copy and writes it back.  The API      *)
(* server, which is external, refuses a write whose resourceVersion is not  *)
(* the one of the object.  The kubelet, the scheduler and other clients     *)
(* change the node and its pods meanwhile.  One node is modelled; the       *)
(* values of labels are left out.                                          *)
(***************************************************************************)
EXTENDS Naturals

CONSTANTS
    Handlers,    \* goroutines serving an HTTP request
    Labels,      \* label keys
    Refused,     \* those that validateLabel refuses, such as keys with a prefix
    Taints,      \* a key, a value and an effect
    Pods,        \* names of pods
    DaemonPods,  \* those that a DaemonSet owns
    MaxRevision, \* bound: writes to the node
    Foreign,     \* bound: the nodes that clients and controllers write themselves
    Nil

ASSUME NodeAssumption ==
    /\ Refused \subseteq Labels
    /\ DaemonPods \subseteq Pods
    /\ MaxRevision \in Nat

Contents == [labels : SUBSET Labels, taints : SUBSET Taints, unschedulable : BOOLEAN]

ASSUME ContentsAssumption ==
    /\ Foreign \subseteq Contents
    /\ Nil \notin Contents \cup Nat

VARIABLES
    node,      \* the node in the API server, Nil when there is none
    revision,  \* resourceVersion of the last write to it
    pods,      \* the pods bound to it that are not being deleted
    pc,        \* where each handler is
    request,   \* what it was asked to do
    body,      \* the node it will write, under the revision it read
    left,      \* the pods its drain has listed and not yet treated
    staying    \* the pods its unforced drain found and that have been there ever since

handlerVars == <<pc, request, body, left>>
vars == <<node, revision, pods, handlerVars, staying>>

Revisions == 0..MaxRevision

\* Unconditional: an update whose body has no resourceVersion.
Requests ==
         [op : {"addLabel", "deleteLabel"}, label : Labels]
    \cup [op : {"addLabels", "deleteLabels"}, labels : SUBSET Labels]
    \cup [op : {"setTaint", "deleteTaint"}, taint : Taints]
    \cup [op : {"cordon", "unCordon", "get", "delete"}]
    \cup [op : {"drain"}, force : BOOLEAN, ignoreDaemonSets : BOOLEAN]
    \cup [op : {"update"}, node : Foreign, base : Contents \cup {Nil},
          revision : Revisions \cup {Nil}]

ASSUME RequestAssumption == Nil \notin Requests

NoBody == [node |-> Nil, revision |-> Nil]

Bodies == [node : Contents \cup {Nil}, revision : Revisions \cup {Nil}]

Ended == {"idle", "ok", "failed"}

Locations == Ended \cup {"get", "update", "delete", "list", "evict"}

TypeOK ==
    /\ node \in Contents \cup {Nil}
    /\ revision \in Revisions
    /\ pods \subseteq Pods
    /\ pc \in [Handlers -> Locations]
    /\ request \in [Handlers -> Requests \cup {Nil}]
    /\ \A p \in Handlers : request[p] = Nil <=> pc[p] \in Ended
    /\ body \in [Handlers -> Bodies]
    /\ left \in [Handlers -> SUBSET Pods]
    /\ staying \in [Handlers -> SUBSET Pods]

NewNode == [labels |-> {}, taints |-> {}, unschedulable |-> FALSE]

Init ==
    /\ node = NewNode
    /\ revision = 0
    /\ pods \in SUBSET Pods
    /\ pc = [p \in Handlers |-> "idle"]
    /\ request = [p \in Handlers |-> Nil]
    /\ body = [p \in Handlers |-> NoBody]
    /\ left = [p \in Handlers |-> {}]
    /\ staying = [p \in Handlers |-> {}]

------------------------------------------------------------------------------
(* What each handler makes of the node it read: {} when it gives up        *)

validateLabel(l) == l \notin Refused

AddLabel(n, l) == IF validateLabel(l) THEN {[n EXCEPT !.labels = @ \cup {l}]} ELSE {}

AddLabels(n, ls) == {[n EXCEPT !.labels = @ \cup ls]}

DeleteLabel(n, l) == IF l \in n.labels THEN {[n EXCEPT !.labels = @ \ {l}]} ELSE {}

\* One missing label, and none is deleted.
DeleteLabels(n, ls) == IF ls \subseteq n.labels THEN {[n EXCEPT !.labels = @ \ ls]} ELSE {}

\* The API server refuses a taint that is there already.
SetTaint(n, t) == IF t \in n.taints THEN {} ELSE {[n EXCEPT !.taints = @ \cup {t}]}

\* A taint that is not among those of the node is no error.
DeleteTaint(n, t) == IF n.taints = {} THEN {} ELSE {[n EXCEPT !.taints = @ \ {t}]}

Cordon(n) == IF n.unschedulable THEN {} ELSE {[n EXCEPT !.unschedulable = TRUE]}

UnCordon(n) == IF n.unschedulable THEN {[n EXCEPT !.unschedulable = FALSE]} ELSE {}

Modified(r, n) ==
    CASE r.op = "addLabel"     -> AddLabel(n, r.label)
      [] r.op = "addLabels"    -> AddLabels(n, r.labels)
      [] r.op = "deleteLabel"  -> DeleteLabel(n, r.label)
      [] r.op = "deleteLabels" -> DeleteLabels(n, r.labels)
      [] r.op = "setTaint"     -> SetTaint(n, r.taint)
      [] r.op = "deleteTaint"  -> DeleteTaint(n, r.taint)
      [] r.op = "cordon"       -> Cordon(n)
      [] r.op = "unCordon"     -> UnCordon(n)
      [] r.op = "drain"        -> {[n EXCEPT !.unschedulable = TRUE]}
      [] OTHER                 -> {}

------------------------------------------------------------------------------
Goes(p, location) == pc' = [pc EXCEPT ![p] = location]

\* Mutant: the request is still there when it has been answered.
Remembers(p, location) ==
    /\ Goes(p, location)
    /\ body' = [body EXCEPT ![p] = NoBody]
    /\ left' = [left EXCEPT ![p] = {}]
    /\ UNCHANGED request

Answers(p, location) ==
    /\ Goes(p, location)
    /\ request' = [request EXCEPT ![p] = Nil]
    /\ body' = [body EXCEPT ![p] = NoBody]
    /\ left' = [left EXCEPT ![p] = {}]

\* The API server stores a node; one that changes nothing keeps its revision.
Stores(n) ==
    /\ node' = n
    /\ revision' = IF n = node THEN revision ELSE revision + 1

Writable == revision < MaxRevision

\* The request comes in.  The body of an update is the node that its client read
\* now, changed in some way, with the resourceVersion or without.
Ask(p, r) ==
    /\ pc[p] \in Ended
    /\ r.op = "update" =>
           \/ r.revision = Nil /\ r.base = Nil
           \/ r.revision = revision /\ r.base = node /\ node # Nil
    /\ request' = [request EXCEPT ![p] = r]
    /\ body' = [body EXCEPT ![p] =
           IF r.op = "update" THEN [node |-> r.node, revision |-> r.revision] ELSE NoBody]
    /\ Goes(p, IF r.op \in {"update", "delete"} THEN r.op ELSE "get")
    /\ staying' = [staying EXCEPT ![p] = {}]
    /\ UNCHANGED <<node, revision, pods, left>>

\* Mutant: the node to write is built anew, without the resourceVersion.
ForgetsRevision(p) ==
    /\ pc[p] = "get"
    /\ node # Nil
    /\ \E n \in Modified(request[p], node) :
           body' = [body EXCEPT ![p] = [node |-> n, revision |-> Nil]]
    /\ Goes(p, "update")
    /\ UNCHANGED <<node, revision, pods, request, left, staying>>

\* No node, no client for the cluster, or no answer: an error.
GetNodeByName(p) ==
    /\ pc[p] = "get"
    /\ \/ Answers(p, "failed")
       \/ /\ node # Nil
          /\ request[p].op = "get"
          /\ Answers(p, "ok")
       \/ /\ node # Nil
          /\ \E n \in Modified(request[p], node) :
                 body' = [body EXCEPT ![p] = [node |-> n, revision |-> revision]]
          /\ Goes(p, "update")
          /\ UNCHANGED <<request, left>>
    /\ UNCHANGED <<node, revision, pods, staying>>

\* The node is stored if its revision is the current one, or if it has none.
Conflict(b) == node = Nil \/ b.revision \notin {revision, Nil}

UpdateNode(p) ==
    /\ pc[p] = "update"
    /\ \/ /\ Answers(p, "failed")
          /\ UNCHANGED <<node, revision>>
       \/ /\ ~Conflict(body[p])
          /\ body[p].node # node => Writable
          /\ Stores(body[p].node)
          /\ \/ Answers(p, "failed")   \* the answer was lost
             \/ /\ request[p].op # "drain"
                /\ Answers(p, "ok")
             \/ /\ request[p].op = "drain"
                /\ Goes(p, "list")
                /\ body' = [body EXCEPT ![p] = NoBody]
                /\ UNCHANGED <<request, left>>
    /\ UNCHANGED <<pods, staying>>

DeleteNode(p) ==
    /\ pc[p] = "delete"
    /\ \/ /\ Answers(p, "failed")
          /\ UNCHANGED <<node, revision>>
       \/ /\ node # Nil
          /\ Writable
          /\ \E answer \in {"ok", "failed"} : Answers(p, answer)
          /\ Stores(Nil)
    /\ UNCHANGED <<pods, staying>>

------------------------------------------------------------------------------
(* The pods of a drained node                                              *)

Skipped(r) == IF r.ignoreDaemonSets THEN DaemonPods ELSE {}

\* The pods that are being deleted already are skipped, and those of DaemonSets
\* on request.
ListPods(p) ==
    /\ pc[p] = "list"
    /\ \/ /\ Answers(p, "failed")
          /\ UNCHANGED staying
       \/ /\ left' = [left EXCEPT ![p] = pods \ Skipped(request[p])]
          /\ staying' = [staying EXCEPT ![p] = IF request[p].force THEN {} ELSE pods]
          /\ Goes(p, "evict")
          /\ UNCHANGED <<request, body>>
    /\ UNCHANGED <<node, revision, pods>>

\* The pod q is being deleted.
Leaves(q) ==
    /\ pods' = pods \ {q}
    /\ staying' = [p \in Handlers |-> staying[p] \ {q}]

\* Mutant: a pod that could not be deleted is left behind whether forced or not.
GoesOn(p) ==
    /\ pc[p] = "evict"
    /\ \E q \in left[p] :
           left' = [left EXCEPT ![p] = @ \ {q}]
    /\ UNCHANGED <<node, revision, pods, pc, request, body, staying>>

\* Mutant: the pods are listed again after each deletion.
ListsAgain(p) ==
    /\ pc[p] = "evict"
    /\ \E q \in left[p] :
           /\ Leaves(q)
           /\ left' = [left EXCEPT ![p] = pods \ Skipped(request[p])]
    /\ UNCHANGED <<node, revision, pc, request, body>>

\* A pod has gone by itself, or cannot be deleted: the drain stops, or goes on if
\* it is forced.
DeletePod(p) ==
    /\ pc[p] = "evict"
    /\ \E q \in left[p] :
        \/ /\ Leaves(q)
           /\ left' = [left EXCEPT ![p] = @ \ {q}]
           /\ UNCHANGED <<pc, request, body>>
        \/ /\ request[p].force
           /\ left' = [left EXCEPT ![p] = @ \ {q}]
           /\ UNCHANGED <<pods, staying, pc, request, body>>
        \/ /\ ~request[p].force
           /\ Answers(p, "failed")
           /\ staying' = [staying EXCEPT ![p] = {}]
           /\ UNCHANGED pods
    /\ UNCHANGED <<node, revision>>

Drained(p) ==
    /\ pc[p] = "evict"
    /\ left[p] = {}
    /\ Answers(p, "ok")
    /\ UNCHANGED <<node, revision, pods, staying>>

------------------------------------------------------------------------------
(* Everybody else                                                          *)

\* A controller or another client writes the node; a kubelet registers it again.
WriteOutside ==
    /\ Writable
    /\ \E n \in Foreign \cup {NewNode, Nil} :
           /\ n # node
           /\ node = Nil => n = NewNode
           /\ Stores(n)
    /\ UNCHANGED <<pods, handlerVars, staying>>

\* The scheduler, or a DaemonSet, decides on what it saw before: binding a pod
\* asks neither whether the node is cordoned by now, nor whether it is still there.
Bind(q) ==
    /\ q \notin pods
    /\ pods' = pods \cup {q}
    /\ UNCHANGED <<node, revision, handlerVars, staying>>

\* A pod ends, or is deleted by somebody else.
Terminate(q) ==
    /\ q \in pods
    /\ Leaves(q)
    /\ UNCHANGED <<node, revision, handlerVars>>

------------------------------------------------------------------------------
HandlerStep(p) ==
    \/ GetNodeByName(p)
    \/ UpdateNode(p)
    \/ DeleteNode(p)
    \/ ListPods(p)
    \/ DeletePod(p)
    \/ Drained(p)

Next ==
    \/ \E p \in Handlers : HandlerStep(p) \/ \E r \in Requests : Ask(p, r)
    \/ WriteOutside
    \/ \E q \in Pods : Bind(q) \/ Terminate(q)

Spec == Init /\ [][Next]_vars

\* Goroutines run and the API server answers.
FairSpec == Spec /\ \A p \in Handlers : WF_vars(HandlerStep(p))

------------------------------------------------------------------------------
(* Properties                                                              *)

\* What a request makes of the node, had it the node for itself.  An update with
\* a resourceVersion replaces the node its client read, and no other.
Results(r, n) ==
    CASE n = Nil         -> {}
      [] r.op = "get"    -> {n}
      [] r.op = "delete" -> {Nil}
      [] r.op = "update" -> IF r.base \in {n, Nil} THEN {r.node} ELSE {}
      [] OTHER           -> Modified(r, n)

Phase(location) ==
    CASE location \in Ended                        -> location
      [] location \in {"get", "update", "delete"} -> "asked"
      [] location \in {"list", "evict"}            -> "applied"

Atomic == INSTANCE AtomicObject WITH
    object <- node, asked <- request, phase <- [p \in Handlers |-> Phase(pc[p])]

\* Every request takes effect at once, on the node as it is then, at most once,
\* and is answered "ok" only if it did: no label, taint or cordon that a handler
\* writes undoes a change made since it read (node.go:183-714).
NodeContract == Atomic!Contract

\* When a drain that was not forced has been answered "ok", the pods it found on
\* the node, after its cordon, have gone, whatever pods came, went and came back
\* meanwhile: those of DaemonSets alone may have stayed.  A pod bound after the list
\* is nobody's: the drain promises nothing of it (resources/node/node.go:223-274).
DrainedIsEmpty ==
    \A p \in Handlers : pc[p] = "ok" => staying[p] \subseteq DaemonPods

\* Every request is answered.  A drain ends even if DaemonSets put pods back as
\* fast as it deletes them: it treats those it listed (resources/node/node.go:246-271).
RequestsEnd == \A p \in Handlers : pc[p] \notin Ended ~> pc[p] \in Ended

================================================================================
