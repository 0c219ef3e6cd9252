\* One run of the chain from every request, resources changing under it, two workers.
SPECIFICATION Spec
CONSTANTS
  None = None
  ext = ext
  a = a
  b = b
  c = c
  r1 = r1
  r2 = r2
  w1 = w1
  w2 = w2
  Run <- Runs1
  Name <- ChainNames
  Stage <- ChainStages
  DependsOn <- Chain
  DefaultOnFailure = "fallback"
  Request <- PartialRuns
  Worker <- Workers2
  Preloads <- AllExtA
  MayFail = {a}
  Edited = {ext}
  MaxVersion = 2
  MaxRepeats = 0
  Faults = {"abort"}
INVARIANTS
  InputsFollowTheRun
PROPERTIES
  ImplementsLifecycle
SYMMETRY Symmetry
