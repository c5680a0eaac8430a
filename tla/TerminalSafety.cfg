SPECIFICATION FairSpec
CONSTANTS
  dev = dev
  web = web
  app = app
  db = db
  one = one
  Containers <- TwoPods
  Shells <- SomeShells
  TTL = 1
  Capacity = 1
  Lengths = {1}
  Buffer = 1
  MaxTime = 2
  MaxMessages = 2
  Nil = nil
INVARIANTS TypeOK SizesInOrder InputWhole OwnShell
PROPERTIES SizesArrive SessionEnds
