SPECIFICATION Spec
CONSTANTS
  Thread = {p1, p2}
  AllTag = {a, All}
  here = here
  there = there
  Where = {here, there}
  Settings <- SomeSettings
  CallLifetime <- SomeLifetimes
  MaxService = 2
  Nil = Nil
SYMMETRY Symmetry
INVARIANT TypeOK
INVARIANT OneService
INVARIANT RebuildTakesEffect
INVARIANT StaleOnlyAfterSwitch
INVARIANT LifetimesAsDocumented
