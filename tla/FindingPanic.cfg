SPECIFICATION Spec
CONSTANTS
  Ticker = ticker
  Nil = nil
  Clusters = {c1}
  Configs = {k1}
  Requests = {r1}
  Caches = {s1, s2, s3, s4}
  Env = {"softDelete"}
  BuildFailures = {}
INVARIANT CleanupsDoNotPanic
