SPECIFICATION Spec
CONSTANTS
  Providers = {a, b}
  Handlers = {p1, p2}
  TempFiles = {f1, f2, f3}
  Nil = nil
SYMMETRY Interchangeable
INVARIANTS TypeOK DefaultListed
PROPERTIES WritersAlone FilesGoWithTheirUsers
