SPECIFICATION Spec
CONSTANTS
  Proc = {p1, p2}
  Hash = {h1, h2}
  Nil = Nil
  Orphan = Orphan
  LockArg = {TRUE}
  MaxVersion <- NoChange
SYMMETRY Symmetry
PROPERTY FoundValueIsReturned
