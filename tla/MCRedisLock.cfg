SPECIFICATION FairSpec
CONSTANTS
  Proc = {p1, p2}
  Hash = {h1, h2}
  LockId = {i1, i2, i3}
  Nil = Nil
  Waiting = 1
  Second = 1
  MaxTokens = 2
  MaxLate = 1
INVARIANT TypeOK
INVARIANT HolderKeepsLock
INVARIANT NoLostWakeup
PROPERTY ImplementsLease
PROPERTY LockReturns
