------------------------- MODULE NodeOperationsProofs -------------------------
(***************************************************************************)
(* Proofs about NodeOperations.  A handler whose write is accepted has read *)
(* the node as it is now: its copy carries the current revision, and every  *)
(* change of the node made a new one (Fresh).  From there follows the       *)
(* refinement of AtomicObject.  The pods that a drain found and that have   *)
(* stayed are those it has left to delete (Emptying), which is what it      *)
(* promises in the end.  What a handler has left to do (Work) only       *)
(* becomes less.                                                            *)
(***************************************************************************)
EXTENDS NodeOperations, FiniteSetTheorems, TLAPS

Modifying == {"addLabel", "deleteLabel", "addLabels", "deleteLabels", "setTaint",
              "deleteTaint", "cordon", "unCordon", "drain"}

\* What brought each handler where it is.
Served ==
    \A p \in Handlers :
        /\ pc[p] = "get" => request[p].op \in Modifying \cup {"get"}
        /\ pc[p] = "update" =>
               /\ request[p].op \in Modifying \cup {"update"}
               /\ body[p].node \in Contents
        /\ pc[p] = "delete" => request[p].op = "delete"
        /\ pc[p] \in {"list", "evict"} => request[p].op = "drain"

\* A body under the current revision is what the request makes of the node.
Current(p) ==
    /\ body[p].revision # Nil =>
           /\ body[p].revision <= revision
           /\ body[p].revision = revision /\ node # Nil =>
                  body[p].node \in Results(request[p], node)
    /\ body[p].revision = Nil =>
           \A n \in Contents : body[p].node \in Results(request[p], n)

Fresh == \A p \in Handlers : pc[p] = "update" => Current(p)

\* The pods that a drain found and that have stayed are still to be deleted, but for
\* those of DaemonSets; a forced drain, or one that gave up, promises nothing.
Emptying ==
    \A p \in Handlers :
        /\ pc[p] \notin {"evict", "ok"} => staying[p] = {}
        /\ pc[p] = "evict" /\ request[p].force => staying[p] = {}
        /\ pc[p] = "evict" => staying[p] \subseteq left[p] \cup DaemonPods
        /\ pc[p] = "ok" => staying[p] \subseteq DaemonPods

------------------------------------------------------------------------------
LEMMA ModifiedType ==
    ASSUME NEW r \in Requests, NEW n \in Contents
    PROVE  Modified(r, n) \subseteq Contents
<1>1. \A ls \in SUBSET Labels : AddLabels(n, ls) \subseteq Contents
                             /\ DeleteLabels(n, ls) \subseteq Contents
  BY DEF AddLabels, DeleteLabels, Contents
<1>2. \A l \in Labels : AddLabel(n, l) \subseteq Contents /\ DeleteLabel(n, l) \subseteq Contents
  BY DEF AddLabel, DeleteLabel, Contents
<1>3. \A t \in Taints : SetTaint(n, t) \subseteq Contents /\ DeleteTaint(n, t) \subseteq Contents
  BY DEF SetTaint, DeleteTaint, Contents
<1>4. Cordon(n) \subseteq Contents /\ UnCordon(n) \subseteq Contents
  BY DEF Cordon, UnCordon, Contents
<1>5. {[n EXCEPT !.unschedulable = TRUE]} \subseteq Contents
  BY DEF Contents
<1>6. CASE r \in [op : {"addLabel", "deleteLabel"}, label : Labels]
  BY <1>2, <1>6 DEF Modified
<1>7. CASE r \in [op : {"addLabels", "deleteLabels"}, labels : SUBSET Labels]
  BY <1>1, <1>7 DEF Modified
<1>8. CASE r \in [op : {"setTaint", "deleteTaint"}, taint : Taints]
  BY <1>3, <1>8 DEF Modified
<1>9. CASE r \in [op : {"cordon", "unCordon", "get", "delete"}]
  BY <1>4, <1>9 DEF Modified
<1>10. CASE r \in [op : {"drain"}, force : BOOLEAN, ignoreDaemonSets : BOOLEAN]
  BY <1>5, <1>10 DEF Modified
<1>11. CASE r \in [op : {"update"}, node : Foreign, base : Contents \cup {Nil},
                   revision : Revisions \cup {Nil}]
  BY <1>11 DEF Modified
<1>12. QED
  BY <1>6, <1>7, <1>8, <1>9, <1>10, <1>11 DEF Requests

IInv == TypeOK /\ Served /\ Fresh /\ Emptying

\* The write of a handler, or nothing: a new revision for a new node.
Renewed == revision' = IF node' = node THEN revision ELSE revision + 1

LEMMA StoresRenews ==
    ASSUME NEW n, Stores(n)
    PROVE  Renewed
BY DEF Stores, Renewed

\* Other handlers' copies stay true, or go stale with an old revision.
LEMMA CurrentKept ==
    ASSUME TypeOK, TypeOK', Renewed,
           NEW q \in Handlers, Current(q), body'[q] = body[q], request'[q] = request[q]
    PROVE  Current(q)'
<1>1. revision \in Nat /\ revision' \in Nat
  BY NodeAssumption DEF TypeOK, Revisions
<1>2. body[q].revision \in Nat \cup {Nil}
  BY NodeAssumption DEF TypeOK, Bodies, Revisions
<1>3. CASE node' = node
  BY <1>3 DEF Renewed, Current
<1>4. CASE node' # node
  <2>1. revision' = revision + 1
    BY <1>4 DEF Renewed
  <2>2. body[q].revision # Nil => body[q].revision < revision'
    BY <1>1, <1>2, <2>1 DEF Current
  <2>3. QED
    BY <1>1, <1>2, <2>1, <2>2 DEF Current
<1>5. QED
  BY <1>3, <1>4

LEMMA StoresType ==
    ASSUME TypeOK, NEW n \in Contents \cup {Nil}, Stores(n), n # node => Writable
    PROVE  /\ node' \in Contents \cup {Nil}
           /\ revision' \in Revisions
BY NodeAssumption DEF TypeOK, Stores, Writable, Revisions

LEMMA AnswersType ==
    ASSUME TypeOK, NEW p \in Handlers, NEW location \in {"ok", "failed"}, Answers(p, location)
    PROVE  /\ pc' \in [Handlers -> Locations]
           /\ request' \in [Handlers -> Requests \cup {Nil}]
           /\ \A q \in Handlers : request'[q] = Nil <=> pc'[q] \in Ended
           /\ body' \in [Handlers -> Bodies]
           /\ left' \in [Handlers -> SUBSET Pods]
           /\ pc'[p] = location
           /\ \A q \in Handlers \ {p} :
                  /\ pc'[q] = pc[q]
                  /\ request'[q] = request[q]
                  /\ body'[q] = body[q]
                  /\ left'[q] = left[q]
BY DEF TypeOK, Answers, Goes, NoBody, Bodies, Locations, Ended

LEMMA InitInv == Init => IInv
<1>1. Init => TypeOK
  BY NodeAssumption DEF Init, TypeOK, NewNode, Contents, NoBody, Bodies, Revisions, Locations, Ended
<1>2. Init => Served /\ Fresh /\ Emptying
  BY DEF Init, Served, Fresh, Emptying
<1>3. QED
  BY <1>1, <1>2 DEF IInv

LEMMA AskInv ==
    ASSUME IInv, NEW p \in Handlers, NEW r \in Requests, Ask(p, r)
    PROVE  IInv'
<1> USE DEF IInv
<1>1. r.op = "update" => r.node \in Contents /\ r.base \in Contents \cup {Nil}
                         /\ r.revision \in Revisions \cup {Nil}
  BY ContentsAssumption DEF Requests
<1>2. r.op \in Modifying \cup {"get", "delete", "update"}
  BY DEF Requests, Modifying
<1>3. TypeOK'
  <2>1. body' \in [Handlers -> Bodies]
    BY <1>1 DEF Ask, TypeOK, Bodies, NoBody
  <2>2. request' \in [Handlers -> Requests \cup {Nil}] /\ pc' \in [Handlers -> Locations]
    BY DEF Ask, TypeOK, Goes, Locations
  <2>3. \A q \in Handlers : request'[q] = Nil <=> pc'[q] \in Ended
    BY RequestAssumption DEF Ask, TypeOK, Goes, Ended
  <2>4. QED
    BY <2>1, <2>2, <2>3 DEF Ask, TypeOK
<1>4. \A q \in Handlers \ {p} : pc'[q] = pc[q] /\ request'[q] = request[q] /\ body'[q] = body[q]
                               /\ left'[q] = left[q]
  BY DEF Ask, Goes, TypeOK
<1>5. pc'[p] = (IF r.op \in {"update", "delete"} THEN r.op ELSE "get") /\ request'[p] = r
  BY DEF Ask, Goes, TypeOK
<1>6. r.op = "update" => body'[p] = [node |-> r.node, revision |-> r.revision]
  BY DEF Ask, TypeOK
<1>7. Served'
  BY <1>1, <1>2, <1>4, <1>5, <1>6 DEF Served
<1>8. Fresh'
  <2> SUFFICES ASSUME NEW q \in Handlers, pc'[q] = "update"
               PROVE  Current(q)'
    BY DEF Fresh
  <2>1. CASE q # p
    <3>1. Renewed /\ Current(q)
      BY <2>1, <1>4 DEF Ask, Renewed, Fresh
    <3>2. QED
      BY <2>1, <3>1, <1>3, <1>4, CurrentKept
  <2>2. CASE q = p
    <3>1. r.op = "update"
      BY <2>2, <1>5
    <3>2. node' = node /\ revision' = revision /\ revision \in Nat /\ Nil \notin Nat
      BY NodeAssumption, ContentsAssumption DEF Ask, TypeOK, Revisions
    <3>3. \A n \in Contents : r.base \in {n, Nil} => Results(r, n) = {r.node}
      BY <3>1, ContentsAssumption DEF Results
    <3>4. \/ r.revision = Nil /\ r.base = Nil
          \/ r.revision = revision /\ r.base = node /\ node # Nil
      BY <3>1 DEF Ask
    <3>5. QED
      BY <2>2, <1>5, <1>6, <3>1, <3>2, <3>3, <3>4 DEF Current, TypeOK
  <2>3. QED
    BY <2>1, <2>2
<1>9. Emptying'
  BY <1>4, <1>5 DEF Ask, Emptying, TypeOK
<1>10. QED
  BY <1>3, <1>7, <1>8, <1>9

\* A step of a handler leaves the others where they are.
Alone(p) ==
    \A q \in Handlers \ {p} : pc'[q] = pc[q] /\ request'[q] = request[q] /\ body'[q] = body[q]
                           /\ left'[q] = left[q]

LEMMA OthersFresh ==
    ASSUME IInv, TypeOK', Renewed, NEW p \in Handlers, Alone(p),
           pc'[p] = "update" => Current(p)'
    PROVE  Fresh'
<1> SUFFICES ASSUME NEW q \in Handlers, pc'[q] = "update"
             PROVE  Current(q)'
  BY DEF Fresh
<1>1. CASE q = p
  BY <1>1
<1>2. CASE q # p
  <2>1. Current(q) /\ body'[q] = body[q] /\ request'[q] = request[q]
    BY <1>2 DEF Alone, Fresh, IInv
  <2>2. QED
    BY <2>1, CurrentKept DEF IInv
<1>3. QED
  BY <1>1, <1>2

\* A request that ends: everybody else is where he was.
LEMMA AnsweredInv ==
    ASSUME IInv, NEW p \in Handlers, NEW location \in {"ok", "failed"}, Answers(p, location),
           Renewed, node' \in Contents \cup {Nil}, revision' \in Revisions,
           pods' \subseteq Pods, staying' \in [Handlers -> SUBSET Pods],
           \A q \in Handlers : staying'[q] \subseteq staying[q],
           location = "failed" => staying'[p] = {},
           location = "ok" => staying'[p] \subseteq DaemonPods
    PROVE  IInv'
<1> USE DEF IInv
<1>1. TypeOK'
  BY AnswersType DEF TypeOK
<1>2. Alone(p) /\ pc'[p] = location
  BY AnswersType DEF Alone
<1>3. Served'
  BY <1>2 DEF Served, Alone
<1>4. Fresh'
  BY <1>1, <1>2, OthersFresh
<1>5. Emptying'
  <2> SUFFICES ASSUME NEW q \in Handlers
               PROVE  /\ pc'[q] \notin {"evict", "ok"} => staying'[q] = {}
                      /\ pc'[q] = "evict" /\ request'[q].force => staying'[q] = {}
                      /\ pc'[q] = "evict" => staying'[q] \subseteq left'[q] \cup DaemonPods
                      /\ pc'[q] = "ok" => staying'[q] \subseteq DaemonPods
    BY DEF Emptying
  <2>1. CASE q = p
    BY <2>1, <1>2
  <2>2. CASE q # p
    BY <2>2, <1>2 DEF Alone, Emptying
  <2>3. QED
    BY <2>1, <2>2
<1>6. QED
  BY <1>1, <1>3, <1>4, <1>5

LEMMA GetNodeInv ==
    ASSUME IInv, NEW p \in Handlers, GetNodeByName(p)
    PROVE  IInv'
<1> USE DEF IInv
<1>1. UNCHANGED <<node, revision, pods, staying>> /\ Renewed /\ staying[p] = {}
  BY DEF GetNodeByName, Renewed, Emptying
<1>2. ASSUME NEW location \in {"ok", "failed"}, Answers(p, location)
      PROVE  IInv'
  BY <1>1, <1>2, AnsweredInv DEF TypeOK
<1>3. ASSUME node # Nil, NEW n \in Modified(request[p], node),
             body' = [body EXCEPT ![p] = [node |-> n, revision |-> revision]],
             Goes(p, "update"), UNCHANGED <<request, left>>
      PROVE  IInv'
  <2>1. request[p] \in Requests /\ pc[p] = "get" /\ node \in Contents
    BY <1>3 DEF GetNodeByName, TypeOK, Ended
  <2>2. n \in Contents
    BY <1>3, <2>1, ModifiedType
  <2>3. request[p].op \in Modifying
    BY <1>3, <2>1 DEF Served, Modified
  <2>4. TypeOK'
    BY <1>1, <1>3, <2>1, <2>2 DEF TypeOK, Goes, Locations, Ended, Bodies
  <2>5. Alone(p) /\ pc'[p] = "update" /\ body'[p] = [node |-> n, revision |-> revision]
        /\ request'[p] = request[p]
    BY <1>3 DEF Alone, Goes, TypeOK
  <2>6. Served'
    BY <2>2, <2>3, <2>5 DEF Served, Alone
  <2>7. Results(request[p], node) = Modified(request[p], node)
    BY <1>3, <2>3 DEF Results, Modifying
  <2>8. Current(p)'
    <3>1. revision \in Nat /\ Nil \notin Nat
      BY NodeAssumption, ContentsAssumption DEF TypeOK, Revisions
    <3>2. n \in Results(request[p], node)' /\ revision' = revision
      BY <1>1, <1>3, <2>5, <2>7
    <3>3. QED
      BY <1>1, <1>3, <2>5, <3>1, <3>2, <2>7 DEF Current
  <2>9. Fresh'
    BY <1>1, <2>4, <2>5, <2>8, OthersFresh
  <2>10. Emptying'
    BY <1>1, <1>3, <2>5 DEF Emptying, Alone
  <2>11. QED
    BY <2>4, <2>6, <2>9, <2>10
<1>4. QED
  BY <1>2, <1>3 DEF GetNodeByName

LEMMA UpdateNodeInv ==
    ASSUME IInv, NEW p \in Handlers, UpdateNode(p)
    PROVE  IInv'
<1> USE DEF IInv
<1>1. /\ pc[p] = "update" /\ UNCHANGED <<pods, staying>> /\ staying[p] = {}
      /\ body[p].node \in Contents
  BY DEF UpdateNode, Served, Emptying
<1>2. CASE Answers(p, "failed") /\ UNCHANGED <<node, revision>>
  BY <1>1, <1>2, AnsweredInv DEF Renewed, TypeOK
<1>3. ASSUME Stores(body[p].node), body[p].node # node => Writable
      PROVE  Renewed /\ node' \in Contents \cup {Nil} /\ revision' \in Revisions
  BY <1>1, <1>3, StoresRenews, StoresType
<1>4. ASSUME NEW location \in {"ok", "failed"}, Answers(p, location),
             Stores(body[p].node), body[p].node # node => Writable
      PROVE  IInv'
  BY <1>1, <1>3, <1>4, AnsweredInv DEF TypeOK
<1>5. ASSUME request[p].op = "drain", Goes(p, "list"),
             body' = [body EXCEPT ![p] = NoBody], UNCHANGED <<request, left>>,
             Stores(body[p].node), body[p].node # node => Writable
      PROVE  IInv'
  <2>1. Renewed /\ node' \in Contents \cup {Nil} /\ revision' \in Revisions
    BY <1>3, <1>5
  <2>2. TypeOK'
    BY <1>1, <1>5, <2>1 DEF TypeOK, Goes, NoBody, Bodies, Locations, Ended
  <2>3. Alone(p) /\ pc'[p] = "list" /\ request'[p] = request[p]
    BY <1>5 DEF Alone, Goes, TypeOK
  <2>4. Served'
    BY <1>5, <2>3 DEF Served, Alone
  <2>5. Fresh'
    BY <2>1, <2>2, <2>3, OthersFresh
  <2>6. Emptying'
    BY <1>1, <2>3 DEF Emptying, Alone
  <2>7. QED
    BY <2>2, <2>4, <2>5, <2>6
<1>6. QED
  BY <1>2, <1>4, <1>5 DEF UpdateNode

LEMMA DeleteNodeInv ==
    ASSUME IInv, NEW p \in Handlers, DeleteNode(p)
    PROVE  IInv'
<1> USE DEF IInv
<1>1. pc[p] = "delete" /\ UNCHANGED <<pods, staying>> /\ staying[p] = {}
  BY DEF DeleteNode, Emptying
<1>2. CASE Answers(p, "failed") /\ UNCHANGED <<node, revision>>
  BY <1>1, <1>2, AnsweredInv DEF Renewed, TypeOK
<1>3. ASSUME NEW location \in {"ok", "failed"}, Answers(p, location), Stores(Nil), Writable
      PROVE  IInv'
  <2>1. Renewed /\ node' \in Contents \cup {Nil} /\ revision' \in Revisions
    BY <1>3, StoresRenews, StoresType
  <2>2. QED
    BY <1>1, <1>3, <2>1, AnsweredInv DEF TypeOK
<1>4. QED
  BY <1>2, <1>3 DEF DeleteNode

LEMMA ListPodsInv ==
    ASSUME IInv, NEW p \in Handlers, ListPods(p)
    PROVE  IInv'
<1> USE DEF IInv
<1>1. pc[p] = "list" /\ UNCHANGED <<node, revision, pods>> /\ Renewed /\ staying[p] = {}
  BY DEF ListPods, Renewed, Emptying
<1>2. CASE Answers(p, "failed") /\ UNCHANGED staying
  BY <1>1, <1>2, AnsweredInv DEF TypeOK
<1>3. ASSUME left' = [left EXCEPT ![p] = pods \ Skipped(request[p])], Goes(p, "evict"),
             staying' = [staying EXCEPT ![p] = IF request[p].force THEN {} ELSE pods],
             UNCHANGED <<request, body>>
      PROVE  IInv'
  <2>1. Alone(p) /\ pc'[p] = "evict" /\ request'[p] = request[p]
        /\ left'[p] = pods \ Skipped(request[p])
    BY <1>3 DEF Alone, Goes, TypeOK
  <2>2. /\ staying'[p] = IF request[p].force THEN {} ELSE pods
        /\ \A q \in Handlers \ {p} : staying'[q] = staying[q]
    BY <1>3 DEF TypeOK
  <2>3. TypeOK'
    BY <1>1, <1>3, <2>1 DEF TypeOK, Goes, Locations, Ended
  <2>4. Served'
    BY <1>1, <2>1 DEF Served, Alone
  <2>5. Fresh'
    BY <1>1, <2>1, <2>3, OthersFresh
  <2>6. pods \subseteq left'[p] \cup DaemonPods
    BY <2>1 DEF Skipped
  <2>7. Emptying'
    BY <2>1, <2>2, <2>6 DEF Emptying, Alone
  <2>8. QED
    BY <2>3, <2>4, <2>5, <2>7
<1>4. QED
  BY <1>2, <1>3 DEF ListPods

\* A pod that leaves is no pod that has stayed.
LEMMA LeavesStaying ==
    ASSUME TypeOK, NEW q, Leaves(q)
    PROVE  /\ pods' \subseteq Pods
           /\ staying' \in [Handlers -> SUBSET Pods]
           /\ \A p \in Handlers : staying'[p] = staying[p] \ {q}
BY DEF TypeOK, Leaves

LEMMA DeletePodInv ==
    ASSUME IInv, NEW p \in Handlers, DeletePod(p)
    PROVE  IInv'
<1> USE DEF IInv
<1>1. pc[p] = "evict" /\ UNCHANGED <<node, revision>> /\ Renewed
  BY DEF DeletePod, Renewed
<1>2. CASE Answers(p, "failed") /\ staying' = [staying EXCEPT ![p] = {}] /\ UNCHANGED pods
  BY <1>1, <1>2, AnsweredInv DEF TypeOK
<1>3. ASSUME NEW q \in left[p], left' = [left EXCEPT ![p] = left[p] \ {q}],
             UNCHANGED <<pc, request, body>>, pods' \subseteq Pods,
             staying' \in [Handlers -> SUBSET Pods],
             \A h \in Handlers : staying'[h] \subseteq staying[h],
             q \notin staying'[p] \/ request[p].force
      PROVE  IInv'
  <2>1. Alone(p) /\ left'[p] = left[p] \ {q}
    BY <1>3 DEF Alone, TypeOK
  <2>2. TypeOK'
    BY <1>1, <1>3 DEF TypeOK
  <2>3. Served'
    BY <1>3 DEF Served
  <2>4. Fresh'
    BY <1>1, <1>3, <2>1, <2>2, OthersFresh
  <2>5. Emptying'
    <3> SUFFICES ASSUME NEW h \in Handlers
                 PROVE  /\ pc'[h] \notin {"evict", "ok"} => staying'[h] = {}
                        /\ pc'[h] = "evict" /\ request'[h].force => staying'[h] = {}
                        /\ pc'[h] = "evict" => staying'[h] \subseteq left'[h] \cup DaemonPods
                        /\ pc'[h] = "ok" => staying'[h] \subseteq DaemonPods
      BY DEF Emptying
    <3>1. CASE h = p
      BY <1>1, <1>3, <2>1, <3>1 DEF Emptying
    <3>2. CASE h # p
      BY <1>3, <2>1, <3>2 DEF Emptying, Alone
    <3>3. QED
      BY <3>1, <3>2
  <2>6. QED
    BY <2>2, <2>3, <2>4, <2>5
<1>4. ASSUME NEW q \in left[p], Leaves(q), left' = [left EXCEPT ![p] = left[p] \ {q}],
             UNCHANGED <<pc, request, body>>
      PROVE  IInv'
  BY <1>3, <1>4, LeavesStaying
<1>5. ASSUME NEW q \in left[p], request[p].force, left' = [left EXCEPT ![p] = left[p] \ {q}],
             UNCHANGED <<pods, staying, pc, request, body>>
      PROVE  IInv'
  BY <1>3, <1>5 DEF TypeOK
<1>6. PICK q \in left[p] :
          \/ /\ Leaves(q)
             /\ left' = [left EXCEPT ![p] = left[p] \ {q}]
             /\ UNCHANGED <<pc, request, body>>
          \/ /\ request[p].force
             /\ left' = [left EXCEPT ![p] = left[p] \ {q}]
             /\ UNCHANGED <<pods, staying, pc, request, body>>
          \/ /\ ~request[p].force
             /\ Answers(p, "failed")
             /\ staying' = [staying EXCEPT ![p] = {}]
             /\ UNCHANGED pods
  BY Zenon DEF DeletePod
<1>7. QED
  BY <1>2, <1>4, <1>5, <1>6

LEMMA DrainedInv ==
    ASSUME IInv, NEW p \in Handlers, Drained(p)
    PROVE  IInv'
<1>1. pc[p] = "evict" /\ left[p] = {} /\ Answers(p, "ok") /\ Renewed
      /\ UNCHANGED <<node, revision, pods, staying>>
  BY DEF Drained, Renewed
<1>2. staying[p] \subseteq DaemonPods
  BY <1>1 DEF IInv, Emptying
<1>3. QED
  BY <1>1, <1>2, AnsweredInv DEF IInv, TypeOK

\* Everybody else, or nobody: the handlers stay where they are.
LEMMA OutsideInv ==
    ASSUME IInv, Renewed, UNCHANGED handlerVars,
           node' \in Contents \cup {Nil}, revision' \in Revisions, pods' \subseteq Pods,
           staying' \in [Handlers -> SUBSET Pods],
           \A q \in Handlers : staying'[q] \subseteq staying[q]
    PROVE  IInv'
<1> USE DEF IInv
<1>1. UNCHANGED <<pc, request, body, left>>
  BY DEF handlerVars
<1>2. TypeOK'
  BY <1>1 DEF TypeOK
<1>3. Served'
  BY <1>1 DEF Served
<1>4. Fresh'
  <2> SUFFICES ASSUME NEW q \in Handlers, pc'[q] = "update"
               PROVE  Current(q)'
    BY DEF Fresh
  <2>1. Current(q)
    BY <1>1 DEF Fresh
  <2>2. QED
    BY <1>1, <1>2, <2>1, CurrentKept
<1>5. Emptying'
  BY <1>1 DEF Emptying
<1>6. QED
  BY <1>2, <1>3, <1>4, <1>5

LEMMA WriteOutsideInv == ASSUME IInv, WriteOutside PROVE IInv'
<1>1. PICK n \in Contents \cup {Nil} : Stores(n)
  BY ContentsAssumption DEF WriteOutside, NewNode, Contents
<1>2. Writable /\ UNCHANGED <<pods, handlerVars, staying>>
  BY DEF WriteOutside
<1>3. Renewed /\ node' \in Contents \cup {Nil} /\ revision' \in Revisions
  BY <1>1, <1>2, StoresRenews, StoresType DEF IInv
<1>4. QED
  BY <1>2, <1>3, OutsideInv DEF IInv, TypeOK

LEMMA BindInv == ASSUME IInv, NEW q \in Pods, Bind(q) PROVE IInv'
BY OutsideInv DEF Bind, IInv, TypeOK, Renewed

LEMMA TerminateInv == ASSUME IInv, NEW q \in Pods, Terminate(q) PROVE IInv'
<1>1. UNCHANGED <<node, revision, handlerVars>> /\ Leaves(q)
  BY DEF Terminate
<1>2. QED
  BY <1>1, LeavesStaying, OutsideInv DEF IInv, TypeOK, Renewed

LEMMA StutterInv == ASSUME IInv, UNCHANGED vars PROVE IInv'
BY OutsideInv DEF vars, IInv, TypeOK, Renewed

THEOREM Invariance == Spec => []IInv
<1>1. ASSUME IInv, [Next]_vars
      PROVE  IInv'
  <2>1. CASE UNCHANGED vars
    BY <1>1, <2>1, StutterInv
  <2>2. ASSUME NEW p \in Handlers, HandlerStep(p)
        PROVE  IInv'
    BY <1>1, <2>2, GetNodeInv, UpdateNodeInv, DeleteNodeInv, ListPodsInv, DeletePodInv,
       DrainedInv DEF HandlerStep
  <2>3. ASSUME NEW p \in Handlers, NEW r \in Requests, Ask(p, r)
        PROVE  IInv'
    BY <1>1, <2>3, AskInv
  <2>4. CASE WriteOutside
    BY <1>1, <2>4, WriteOutsideInv
  <2>5. ASSUME NEW q \in Pods, Bind(q) \/ Terminate(q)
        PROVE  IInv'
    BY <1>1, <2>5, BindInv, TerminateInv
  <2>6. QED
    BY <1>1, <2>1, <2>2, <2>3, <2>4, <2>5 DEF Next
<1>2. QED
  BY InitInv, <1>1, PTL DEF Spec

------------------------------------------------------------------------------
(* The theorems                                                            *)

\* The variables keep their types, and a handler has a request exactly until it
\* has answered (node.go:97-772).
THEOREM TypeCorrect == Spec => []TypeOK
<1>1. IInv => TypeOK
  BY DEF IInv
<1>2. QED
  BY Invariance, <1>1, PTL

\* A drain that succeeded has deleted, or seen go, every pod it found on the node but
\* those of DaemonSets, whatever other drains, clients, schedulers and kubelets do
\* meanwhile (resources/node/node.go:223-274).
THEOREM DrainEmpties == Spec => []DrainedIsEmpty
<1>1. IInv => DrainedIsEmpty
  BY DEF IInv, Emptying, DrainedIsEmpty
<1>2. QED
  BY Invariance, <1>1, PTL

------------------------------------------------------------------------------
(* How long a request takes                                                *)

\* The steps that a handler has still to make, at most.
Work(p) ==
    CASE pc[p] = "get"    -> Cardinality(Pods) + 4
      [] pc[p] = "update" -> Cardinality(Pods) + 3
      [] pc[p] = "list"   -> Cardinality(Pods) + 2
      [] pc[p] = "evict"  -> Cardinality(left[p]) + 1
      [] pc[p] = "delete" -> 1
      [] OTHER            -> 0

\* A handler comes nearer to its answer, or stays where it is.
Advances(p) ==
    \/ Work(p)' \in Nat /\ Work(p)' < Work(p)
    \/ pc'[p] = pc[p] /\ left'[p] = left[p]

LEMMA WorkType ==
    ASSUME IsFiniteSet(Pods), TypeOK, NEW p \in Handlers
    PROVE  /\ Cardinality(Pods) \in Nat
           /\ IsFiniteSet(left[p]) /\ Cardinality(left[p]) \in Nat
           /\ Work(p) \in Nat
           /\ pc[p] = "evict" => Work(p) = Cardinality(left[p]) + 1
           /\ pc[p] \in Ended => Work(p) = 0
<1>1. Cardinality(Pods) \in Nat
  BY FS_CardinalityType
<1>2. left[p] \subseteq Pods /\ pc[p] \in Locations
  BY DEF TypeOK
<1>3. IsFiniteSet(left[p])
  BY <1>2, FS_Subset
<1>4. Cardinality(left[p]) \in Nat
  BY <1>3, FS_CardinalityType
<1>5. QED
  BY <1>1, <1>2, <1>3, <1>4 DEF Work, Locations, Ended

\* An answer leaves nothing to do.
LEMMA AnswersAdvance ==
    ASSUME IsFiniteSet(Pods), IInv, IInv', NEW p \in Handlers,
           pc[p] \notin Ended, NEW l \in {"ok", "failed"}, Answers(p, l)
    PROVE  Advances(p)
<1>1. pc'[p] = l /\ l \in Ended
  BY DEF Answers, Goes, IInv, TypeOK, Ended
<1>2. Work(p)' = 0
  BY <1>1 DEF Work, Ended
<1>3. Work(p) \in Nat \ {0}
  <2>1. /\ Cardinality(Pods) \in Nat /\ Cardinality(left[p]) \in Nat
        /\ pc[p] \in Locations
    BY WorkType DEF IInv, TypeOK
  <2>2. QED
    BY <2>1 DEF Work, Locations, Ended
<1>4. QED
  BY <1>2, <1>3 DEF Advances

\* The list of pods to delete is one of pods that there are, and gets shorter.
LEMMA HandlerAdvances ==
    ASSUME IsFiniteSet(Pods), IInv, IInv', NEW p \in Handlers, HandlerStep(p)
    PROVE  Advances(p)
<1> USE DEF IInv
<1>0. /\ Cardinality(Pods) \in Nat /\ Cardinality(left[p]) \in Nat /\ IsFiniteSet(left[p])
      /\ pc[p] \notin Ended
  BY WorkType DEF HandlerStep, GetNodeByName, UpdateNode, DeleteNode, ListPods, DeletePod,
                  Drained, Ended
<1>1. ASSUME NEW l \in {"ok", "failed"}, Answers(p, l) PROVE Advances(p)
  BY <1>0, <1>1, AnswersAdvance
<1>2. ASSUME GetNodeByName(p), Goes(p, "update") PROVE Advances(p)
  <2>1. pc[p] = "get" /\ pc'[p] = "update"
    BY <1>2 DEF GetNodeByName, Goes, TypeOK
  <2>2. QED
    BY <1>0, <2>1 DEF Advances, Work
<1>3. ASSUME UpdateNode(p), Goes(p, "list") PROVE Advances(p)
  <2>1. pc[p] = "update" /\ pc'[p] = "list"
    BY <1>3 DEF UpdateNode, Goes, TypeOK
  <2>2. QED
    BY <1>0, <2>1 DEF Advances, Work
<1>4. ASSUME ListPods(p), Goes(p, "evict") PROVE Advances(p)
  <2>1. pc[p] = "list" /\ pc'[p] = "evict" /\ left'[p] \subseteq Pods
    BY <1>4 DEF ListPods, Goes, TypeOK
  <2>2. Cardinality(left'[p]) \in Nat /\ Cardinality(left'[p]) <= Cardinality(Pods)
    BY <2>1, FS_Subset, FS_CardinalityType
  <2>3. QED
    BY <1>0, <2>1, <2>2 DEF Advances, Work
<1>5. ASSUME DeletePod(p), NEW q \in left[p], left' = [left EXCEPT ![p] = @ \ {q}],
             UNCHANGED pc
      PROVE  Advances(p)
  <2>1. pc[p] = "evict" /\ pc'[p] = "evict" /\ left'[p] = left[p] \ {q}
    BY <1>5 DEF DeletePod, TypeOK
  <2>2. Cardinality(left'[p]) = Cardinality(left[p]) - 1 /\ Cardinality(left'[p]) \in Nat
    <3>1. Cardinality(left[p] \ {q}) = Cardinality(left[p]) - 1 /\ IsFiniteSet(left[p] \ {q})
      BY <1>0, <1>5, FS_RemoveElement
    <3>2. Cardinality(left[p] \ {q}) \in Nat
      BY <3>1, FS_CardinalityType
    <3>3. QED
      BY <2>1, <3>1, <3>2
  <2>3. QED
    BY <1>0, <2>1, <2>2 DEF Advances, Work
<1>6. CASE GetNodeByName(p)
  BY <1>1, <1>2, <1>6 DEF GetNodeByName
<1>7. CASE UpdateNode(p)
  BY <1>1, <1>3, <1>7 DEF UpdateNode
<1>8. CASE DeleteNode(p)
  BY <1>1, <1>8 DEF DeleteNode
<1>9. CASE ListPods(p)
  BY <1>1, <1>4, <1>9 DEF ListPods
<1>10. CASE DeletePod(p)
  BY <1>1, <1>5, <1>10 DEF DeletePod
<1>11. CASE Drained(p)
  BY <1>1, <1>11 DEF Drained
<1>12. QED
  BY <1>6, <1>7, <1>8, <1>9, <1>10, <1>11 DEF HandlerStep

\* The steps of one handler leave the others where they are.
LEMMA OthersStay ==
    ASSUME TypeOK, NEW p \in Handlers, NEW q \in Handlers \ {p},
           HandlerStep(q) \/ \E r \in Requests : Ask(q, r)
    PROVE  pc'[p] = pc[p] /\ left'[p] = left[p]
BY DEF HandlerStep, GetNodeByName, UpdateNode, DeleteNode, ListPods, DeletePod, Drained, Ask,
       Answers, Goes, TypeOK

\* With every step of its own a handler comes nearer to its answer, and no step of
\* anybody else, such as pods that DaemonSets put back, sets it back: a request takes
\* as many steps as there are pods, and four, at most (resources/node/node.go:246-271).
THEOREM RequestsAdvance ==
    ASSUME IsFiniteSet(Pods)
    PROVE  Spec => [][\A p \in Handlers : pc[p] \notin Ended => Advances(p)]_vars
<1> DEFINE Forward == \A p \in Handlers : pc[p] \notin Ended => Advances(p)
<1>1. IInv /\ IInv' /\ [Next]_vars => [Forward]_vars
  <2> SUFFICES ASSUME IInv, IInv', Next, NEW p \in Handlers, pc[p] \notin Ended
               PROVE  Advances(p)
    OBVIOUS
  <2>1. CASE HandlerStep(p)
    BY <2>1, HandlerAdvances
  <2>2. ASSUME NEW r \in Requests, Ask(p, r) PROVE FALSE
    BY <2>2 DEF Ask
  <2>3. ASSUME NEW q \in Handlers \ {p}, HandlerStep(q) \/ \E r \in Requests : Ask(q, r)
        PROVE  Advances(p)
    BY <2>3, OthersStay DEF IInv, Advances
  <2>4. CASE WriteOutside \/ \E q \in Pods : Bind(q) \/ Terminate(q)
    BY <2>4 DEF WriteOutside, Bind, Terminate, handlerVars, Advances
  <2>5. QED
    BY <2>1, <2>2, <2>3, <2>4 DEF Next
<1>2. QED
  BY <1>1, Invariance, PTL DEF Spec

------------------------------------------------------------------------------
(* The refinement                                                          *)

\* What the steps of a handler look like from outside.
LEMMA PhaseStep ==
    ASSUME TypeOK, NEW p \in Handlers, NEW l \in Locations, Goes(p, l)
    PROVE  [q \in Handlers |-> Phase(pc[q])]' =
               [[q \in Handlers |-> Phase(pc[q])] EXCEPT ![p] = Phase(l)]
BY DEF TypeOK, Goes

LEMMA PhaseValues ==
    /\ \A l \in Ended : Phase(l) = l
    /\ \A l \in {"get", "update", "delete"} : Phase(l) = "asked"
    /\ \A l \in {"list", "evict"} : Phase(l) = "applied"
BY DEF Phase, Ended

LEMMA EndsStep ==
    ASSUME TypeOK, NEW p \in Handlers, NEW l \in {"ok", "failed"}, Answers(p, l)
    PROVE  Atomic!Ends(p) /\ pc'[p] = l
<1>1. Goes(p, l) /\ l \in Locations /\ l \in Ended
  BY DEF Answers, Locations, Ended
<1>2. [q \in Handlers |-> Phase(pc[q])]' = [[q \in Handlers |-> Phase(pc[q])] EXCEPT ![p] = l]
  BY <1>1, PhaseStep, PhaseValues
<1>3. request' = [request EXCEPT ![p] = Nil] /\ pc'[p] = l
  BY DEF Answers, Goes, TypeOK
<1>4. QED
  BY <1>2, <1>3 DEF Atomic!Ends

LEMMA RefuseStep ==
    ASSUME TypeOK, NEW p \in Handlers, Phase(pc[p]) = "asked", Answers(p, "failed"),
           UNCHANGED node
    PROVE  Atomic!Refuse(p)
<1>1. Atomic!Ends(p) /\ pc'[p] = "failed"
  BY EndsStep
<1>2. Phase(pc'[p]) = "failed"
  BY <1>1, PhaseValues DEF Ended
<1>3. QED
  BY <1>1, <1>2 DEF Atomic!Refuse

LEMMA ConcludeStep ==
    ASSUME TypeOK, NEW p \in Handlers, NEW l \in {"ok", "failed"}, Answers(p, l),
           pc[p] \in {"list", "evict"}, UNCHANGED node
    PROVE  Atomic!Conclude(p)
BY EndsStep, PhaseValues DEF Atomic!Conclude

LEMMA EffectStep ==
    ASSUME TypeOK, NEW p \in Handlers, NEW l \in {"ok", "failed"}, Answers(p, l),
           Phase(pc[p]) = "asked", node' \in Results(request[p], node)
    PROVE  Atomic!TakeEffect(p)
BY EndsStep DEF Atomic!TakeEffect

\* Every request takes effect at once and at most once, on the node as it is then,
\* and "ok" says that it did: no write of a handler undoes a change it has not
\* seen (node.go:97-772).
THEOREM Refinement == Spec => NodeContract
<1>1. Init => Atomic!Start
  BY PhaseValues, NodeAssumption DEF Init, Atomic!Start, NewNode, Contents, Ended
<1>2. ASSUME IInv, [Next]_vars
      PROVE  [Atomic!Step]_(Atomic!contract)
  <2> USE DEF IInv
  <2>1. CASE UNCHANGED vars
    BY <2>1 DEF vars, handlerVars, Atomic!contract
  <2>2. ASSUME NEW p \in Handlers, NEW r \in Requests, Ask(p, r)
        PROVE  Atomic!Accept(p)
    <3>1. PICK l \in {"get", "update", "delete"} : Goes(p, l)
      BY <2>2 DEF Ask
    <3>2. l \in Locations /\ Phase(l) = "asked"
      BY PhaseValues DEF Locations
    <3>3. request' = [request EXCEPT ![p] = r] /\ request'[p] = r /\ Phase(pc[p]) \in Ended
          /\ node' = node
      BY <1>2, <2>2, PhaseValues DEF Ask, TypeOK
    <3>4. QED
      BY <1>2, <3>1, <3>2, <3>3, PhaseStep DEF Atomic!Accept, Atomic!Ended, Ended
  <2>3. ASSUME NEW p \in Handlers, GetNodeByName(p)
        PROVE  [Atomic!Step]_(Atomic!contract)
    <3>1. pc[p] = "get" /\ node' = node /\ Phase(pc[p]) = "asked" /\ Phase("update") = "asked"
      BY <2>3, PhaseValues DEF GetNodeByName
    <3>2. CASE Answers(p, "failed")
      BY <1>2, <3>1, <3>2, RefuseStep DEF Atomic!Step
    <3>3. CASE node # Nil /\ request[p].op = "get" /\ Answers(p, "ok")
      <4>1. node' \in Results(request[p], node)
        BY <3>1, <3>3 DEF Results
      <4>2. QED
        BY <1>2, <3>1, <3>3, <4>1, EffectStep DEF Atomic!Step
    <3>4. CASE Goes(p, "update") /\ UNCHANGED request
      <4>1. [q \in Handlers |-> Phase(pc[q])]' = [q \in Handlers |-> Phase(pc[q])]
        BY <1>2, <3>1, <3>4 DEF Goes, TypeOK
      <4>2. QED
        BY <3>1, <3>4, <4>1 DEF Atomic!contract
    <3>5. QED
      BY <2>3, <3>2, <3>3, <3>4 DEF GetNodeByName
  <2>4. ASSUME NEW p \in Handlers, UpdateNode(p)
        PROVE  Atomic!Step
    <3>1. pc[p] = "update" /\ Phase(pc[p]) = "asked" /\ Phase("list") = "applied"
      BY <2>4, PhaseValues DEF UpdateNode
    <3>2. CASE Answers(p, "failed") /\ UNCHANGED <<node, revision>>
      BY <1>2, <3>1, <3>2, RefuseStep DEF Atomic!Step
    <3>3. ASSUME ~Conflict(body[p])
          PROVE  body[p].node \in Results(request[p], node)
      <4>1. node \in Contents /\ node # Nil /\ Current(p) /\ body[p].revision \in {revision, Nil}
        BY <1>2, <3>1, <3>3 DEF Conflict, TypeOK, Fresh
      <4>2. QED
        BY <4>1 DEF Current
    <3>4. ASSUME NEW l \in {"ok", "failed"}, ~Conflict(body[p]), Answers(p, l),
                 Stores(body[p].node)
          PROVE  Atomic!Step
      <4>1. node' \in Results(request[p], node)
        BY <3>3, <3>4 DEF Stores
      <4>2. QED
        BY <1>2, <3>1, <3>4, <4>1, EffectStep DEF Atomic!Step
    <3>5. ASSUME ~Conflict(body[p]), Goes(p, "list"), UNCHANGED <<request, left>>,
                 Stores(body[p].node)
          PROVE  Atomic!Step
      <4>1. node' \in Results(request[p], node)
        BY <3>3, <3>5 DEF Stores
      <4>2. [q \in Handlers |-> Phase(pc[q])]' =
                [[q \in Handlers |-> Phase(pc[q])] EXCEPT ![p] = "applied"]
        BY <1>2, <3>1, <3>5, PhaseStep DEF Locations
      <4>3. Atomic!TakeEffect(p)
        BY <3>1, <3>5, <4>1, <4>2 DEF Atomic!TakeEffect
      <4>4. QED
        BY <4>3 DEF Atomic!Step
    <3>6. QED
      BY <2>4, <3>2, <3>4, <3>5 DEF UpdateNode
  <2>5. ASSUME NEW p \in Handlers, DeleteNode(p)
        PROVE  Atomic!Step
    <3>1. pc[p] = "delete" /\ Phase(pc[p]) = "asked" /\ request[p].op = "delete"
      BY <1>2, <2>5, PhaseValues DEF DeleteNode, Served
    <3>2. CASE Answers(p, "failed") /\ UNCHANGED <<node, revision>>
      BY <1>2, <3>1, <3>2, RefuseStep DEF Atomic!Step
    <3>3. ASSUME NEW l \in {"ok", "failed"}, node # Nil, Answers(p, l), Stores(Nil)
          PROVE  Atomic!Step
      <4>1. node' \in Results(request[p], node)
        BY <3>1, <3>3 DEF Stores, Results
      <4>2. QED
        BY <1>2, <3>1, <3>3, <4>1, EffectStep DEF Atomic!Step
    <3>4. QED
      BY <2>5, <3>2, <3>3 DEF DeleteNode
  <2>6. ASSUME NEW p \in Handlers, ListPods(p)
        PROVE  [Atomic!Step]_(Atomic!contract)
    <3>1. pc[p] = "list" /\ node' = node
      BY <2>6 DEF ListPods
    <3>2. CASE Answers(p, "failed")
      BY <1>2, <3>1, <3>2, ConcludeStep DEF Atomic!Step
    <3>3. CASE Goes(p, "evict") /\ UNCHANGED <<request, body>>
      <4>1. Phase("list") = "applied" /\ Phase("evict") = "applied"
        BY PhaseValues
      <4>2. [q \in Handlers |-> Phase(pc[q])]' = [q \in Handlers |-> Phase(pc[q])]
        BY <1>2, <3>1, <3>3, <4>1 DEF Goes, TypeOK
      <4>3. QED
        BY <3>1, <3>3, <4>2 DEF Atomic!contract
    <3>4. QED
      BY <2>6, <3>2, <3>3 DEF ListPods
  <2>7. ASSUME NEW p \in Handlers, DeletePod(p)
        PROVE  [Atomic!Step]_(Atomic!contract)
    <3>1. pc[p] = "evict" /\ node' = node
      BY <2>7 DEF DeletePod
    <3>2. CASE Answers(p, "failed")
      BY <1>2, <3>1, <3>2, ConcludeStep DEF Atomic!Step
    <3>3. CASE UNCHANGED <<pc, request>>
      BY <3>1, <3>3 DEF Atomic!contract
    <3>4. QED
      BY <2>7, <3>2, <3>3 DEF DeletePod
  <2>8. ASSUME NEW p \in Handlers, Drained(p)
        PROVE  Atomic!Step
    BY <1>2, <2>8, ConcludeStep DEF Drained, Atomic!Step
  <2>9. CASE WriteOutside
    <3>1. PICK n \in Contents \cup {Nil} : Stores(n)
      BY <2>9, ContentsAssumption DEF WriteOutside, NewNode, Contents
    <3>2. node' \in Contents \cup {Nil} /\ UNCHANGED <<pc, request>>
      BY <2>9, <3>1 DEF WriteOutside, Stores, handlerVars
    <3>3. QED
      BY <3>2 DEF Atomic!Outside, Atomic!Step
  <2>10. ASSUME NEW q \in Pods, Bind(q) \/ Terminate(q)
         PROVE  UNCHANGED Atomic!contract
    BY <2>10 DEF Bind, Terminate, handlerVars, Atomic!contract
  <2>11. ASSUME NEW p \in Handlers, HandlerStep(p)
         PROVE  [Atomic!Step]_(Atomic!contract)
    BY <2>3, <2>4, <2>5, <2>6, <2>7, <2>8, <2>11 DEF HandlerStep
  <2>12. ASSUME NEW p \in Handlers, NEW r \in Requests, Ask(p, r)
         PROVE  Atomic!Step
    BY <2>2, <2>12 DEF Atomic!Step
  <2>13. QED
    BY <1>2, <2>1, <2>9, <2>10, <2>11, <2>12 DEF Next
<1>3. QED
  BY Invariance, <1>1, <1>2, PTL DEF Spec, NodeContract, Atomic!Contract
===============================================================================
