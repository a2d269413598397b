SPECIFICATION FairSpec
CONSTANTS
  Proc = {p1}
  Hash = {h1, h2, h3}
  Nil = Nil
  Orphan = Orphan
  LockArg = {TRUE, FALSE}
  MaxVersion <- NoChange
PROPERTY CallsReturn
