SPECIFICATION Spec
CONSTANTS
  Ticker = ticker
  Nil = nil
  Clusters = {c1}
  Configs = {k1, k2}
  Requests = {r1, r2}
  Caches = {s1, s2, s3, s4, s5}
  Env = {"add", "update", "softDelete", "delete", "dbError", "kill"}
  BuildFailures = {"client", "discovery", "resource"}
SYMMETRY Interchangeable
INVARIANTS TypeOK OneBuilder RemovesWhatItClosed NoOrphanInformers FactoryBuiltOnce
PROPERTY FollowsLifecycle
