SPECIFICATION FairSpec
CONSTANTS
  Proc = {p1, p2}
  Hash = {h1, h2}
  Obj = {o1, o2, o3}
  Nil = Nil
INVARIANT TypeOK
INVARIANT ListedIsTaken
INVARIANT ExclusiveUntilMixup
INVARIANT IInv
PROPERTY ListedLocksGo
