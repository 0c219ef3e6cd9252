\* Two runs of the chain share resources and workers; nothing is lost.
SPECIFICATION Spec
CONSTANTS
  None = None
  ext = ext
  a = a
  b = b
  c = c
  r1 = r1
  r2 = r2
  w1 = w1
  w2 = w2
  Run <- Runs2
  Name <- ChainNames
  Stage <- ChainStages
  DependsOn <- Chain
  DefaultOnFailure = "fallback"
  Request <- PolicyRuns
  Worker <- Workers2
  Preloads <- AllExtA
  MayFail = {a}
  Edited = {}
  MaxVersion = 1
  MaxRepeats = 0
  Faults = {}
INVARIANTS
  InputsFollowTheRun
  NothingStranded
SYMMETRY Symmetry
