\* Two requests at a time on two resources, any of which may fail anywhere.
SPECIFICATION Spec
CONSTANTS
  None = None
  x = x
  y = y
  z = z
  good = good
  other = other
  bad = bad
  c1 = c1
  c2 = c2
  Client = {c1, c2}
  Name = {x, y}
  Declared = {x, y}
  Value = {good, bad}
  Meets <- MCMeets
  MaxRows = 2
  MaxLinks = 1
  MaxLinked = 1
SYMMETRY Symmetry
INVARIANTS
  TypeOK
  ContentKeptUnlessRaced
PROPERTIES
  ImplementsLog
  DependenciesReplaced
