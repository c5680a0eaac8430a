SPECIFICATION Spec
CONSTANTS
  Clusters = {c1}
  Callers = {p1, p2}
  Cleaner = cleaner
  Managers = {m1, m2}
  Caches = {s1, s2, s3, s4}
  Factories = {f1, f2, f3}
  Nil = nil
  BuildFailures = {"client", "discovery", "resource"}
SYMMETRY Goroutines
VIEW Reachable
INVARIANTS TypeOK ClosesOnce LocksHaveHolders
PROPERTY ClosedBeforeReplaced
