SPECIFICATION Spec
CONSTANTS
  Client = {c1}
  Key = {k1}
  Tag = {a, b}
  WriteId = {w1}
  Rand = {r1, r2, r3, r4}
  MaxLate = 1
  All = All
  Nil = Nil
  None = None
SYMMETRY Symmetry
INVARIANT NoSupersededHit
PROPERTY ImplementsContract
PROPERTY NeverReachableAgain
