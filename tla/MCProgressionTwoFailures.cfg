\* Two failed stages under fallback.
SPECIFICATION FairSpec
CONSTANTS
  None = None
  ext = ext
  a = a
  b = b
  c = c
  r1 = r1
  r2 = r2
  w1 = w1
  w2 = w2
  Run <- Runs1
  Name <- JoinNames
  Stage <- JoinStages
  DependsOn <- Join
  DefaultOnFailure = "fallback"
  Request <- FallbackRun
  Worker <- Workers1
  Preloads <- AllExtAB
  MayFail = {a, b}
  Edited = {}
  MaxVersion = 2
  MaxRepeats = 0
  Faults = {}
PROPERTIES
  EveryRunTerminates
