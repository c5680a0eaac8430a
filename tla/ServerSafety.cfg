SPECIFICATION FairSpec
CONSTANTS
  Handlers = {p1, p2}
  Names = {n1, n2}
  Passwords = {w1}
  Profiles = {f1, f2}
  Pairs = {k1, k2}
  Nil = nil
INVARIANTS TypeOK KeysMatch
PROPERTIES LoginKeepsRights RequestsEnd
