SPECIFICATION FairSpec
CONSTANTS
  l1 = l1
  t1 = t1
  Handlers = {p1, p2}
  Labels = {l1, l2}
  Refused = {l2}
  Taints = {t1}
  Pods = {q1, q2}
  DaemonPods = {q2}
  MaxRevision = 2
  Foreign <- ForeignNodes
  Nil = nil
INVARIANTS TypeOK DrainedIsEmpty
PROPERTIES NodeContract RequestsEnd
