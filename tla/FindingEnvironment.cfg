SPECIFICATION Spec
CONSTANTS
  Providers = {a, b}
  Handlers = {p1, p2}
  TempFiles = {f1, f2, f3, f4}
  Nil = nil
INVARIANT EnvironmentRestored
