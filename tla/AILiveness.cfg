SPECIFICATION FairSpec
CONSTANTS
  Providers = {a}
  Handlers = {p1, p2}
  TempFiles = {f1, f2, f3}
  Nil = nil
PROPERTY CallsEnd
