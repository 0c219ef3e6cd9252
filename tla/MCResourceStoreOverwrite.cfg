\* Two uploads at a time to one resource.
SPECIFICATION Spec
CONSTANTS
  None = None
  x = x
  y = y
  z = z
  good = good
  other = other
  bad = bad
  c1 = c1
  c2 = c2
  Client = {c1, c2}
  Name = {x}
  Declared = {x}
  Value = {good, other, bad}
  Meets <- MCMeets
  MaxRows = 2
  MaxLinks = 0
  MaxLinked = 0
INVARIANTS
  ContentKept
