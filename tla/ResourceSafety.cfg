SPECIFICATION FairSpec
CONSTANTS
  Handlers = {p1, p2}
  Values = {v1}
  Lists <- FoundLists
  Predefined = {"ingresses"}
  Kind = "ingresses"
  MaxRevision = 2
  Nil = nil
INVARIANTS TypeOK
PROPERTIES ObjectContract OverwritesWhatItRead KindsStable RequestsEnd
