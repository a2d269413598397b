SPECIFICATION Spec
CONSTANTS
  Proc = {p1, p2}
  Tag = {a}
  All = All
  Nil = Nil
  Old = Old
  Garbage = Garbage
  MaxVersion = 1
  KeyForm = {"true", "empty", "failing"}
  TagsForm = {"none", "list", "iterator", "generator", "failing", "lazy", "repeated"}
  ArgForm = {"list"}
SYMMETRY Symmetry
INVARIANT TypeOK
INVARIANT InvalidationReaches
INVARIANT CallLeavesEntry
INVARIANT LocksReleased
