SPECIFICATION Spec
CONSTANTS
  Proc = {p1}
  Tag = {a}
  All = All
  Nil = Nil
  Old = Old
  Garbage = Garbage
  MaxVersion = 1
  KeyForm = {"true"}
  TagsForm = {"list", "generator"}
  ArgForm = {"list", "iterator"}
INVARIANT AnyIterableWorks
