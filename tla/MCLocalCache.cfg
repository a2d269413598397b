SPECIFICATION Spec
CONSTANTS
  Thread = {c1, c2}
  Key = {k1}
  a = a
  Tag = {a}
  TagSets = {{a}}
  Rank <- RankOfNames
  WriteId = {w1, w2}
  Rand = {r1, r2, r3, r4, r5}
  All = All
  Nil = Nil
  None = None
SYMMETRY Symmetry
INVARIANT TypeOK
PROPERTY ImplementsContract
PROPERTY NeverReachableAgain
