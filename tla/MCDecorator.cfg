SPECIFICATION Spec
CONSTANTS
  Proc = {p1, p2}
  Hash = {h1, h2, h3}
  Nil = Nil
  Orphan = Orphan
  LockArg = {TRUE, FALSE}
  MaxVersion <- OneChange
SYMMETRY Symmetry
INVARIANT TypeOK
INVARIANT SingleFlight
INVARIANT StaleOnlyFromOverlap
PROPERTY LocksReleased
