\* Runs end, also when a message is pushed twice: by themselves unless they are stuck, and by a cancel always.
SPECIFICATION FairSpec
CONSTANTS
  None = None
  ext = ext
  a = a
  b = b
  c = c
  r1 = r1
  r2 = r2
  w1 = w1
  w2 = w2
  Run <- Runs1
  Name <- JoinNames
  Stage <- JoinStages
  DependsOn <- Join
  DefaultOnFailure = "fallback"
  Request <- PolicyRuns
  Worker <- Workers1
  Preloads <- AnyOfExtA
  MayFail = {a, b}
  Edited = {}
  MaxVersion = 1
  MaxRepeats = 1
  Faults = {"lost", "outage", "repeat"}
PROPERTIES
  RunEndsUnlessStuck
  CancelEndsRun
