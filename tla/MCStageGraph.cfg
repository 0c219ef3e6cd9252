\* The algorithms over every registry of three stages and an external resource.
SPECIFICATION PictureSpec
CONSTANTS
  Name = {"a", "b", "c", "raw"}
  StageName = {"a", "b", "c"}
  MaxDeps = 2
INVARIANTS
  OrderIsTopological
  RangeIsReachable
  PictureIsSound
CHECK_DEADLOCK FALSE
