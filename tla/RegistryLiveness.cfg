SPECIFICATION FairSpec
CONSTANTS
  Ticker = ticker
  Nil = nil
  Clusters = {c1}
  Configs = {k1}
  Requests = {r1}
  Caches = {s1, s2, s3, s4}
  Env = {"update", "dbError"}
  BuildFailures = {"client", "discovery", "resource"}
PROPERTIES RemovedClustersLeave RequestsReturn ClosingEnds NormalClustersBecomeReady
