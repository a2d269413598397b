SPECIFICATION Spec
CONSTANTS
  Thread = {p1}
  AllTag = {a, All}
  here = here
  there = there
  Where = {here}
  Settings <- NoExpiration
  CallLifetime <- SomeLifetimes
  MaxService = 1
  Nil = Nil
INVARIANT LifetimesAreAccepted
