SPECIFICATION Spec
CONSTANTS
  Client = {c1, c2}
  Key = {k1}
  Tag = {a}
  WriteId = {w1, w2}
  Rand = {r1, r2, r3, r4}
  MaxLate = 0
  All = All
  Nil = Nil
  None = None
SYMMETRY Symmetry
INVARIANT TypeOK
INVARIANT NoSupersededHit
INVARIANT IInv
PROPERTY ImplementsContract
PROPERTY NeverReachableAgain
