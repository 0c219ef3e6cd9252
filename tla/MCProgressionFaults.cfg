\* One run of the join workflow: every fault, failures of both roots, both policies.
SPECIFICATION Spec
CONSTANTS
  None = None
  ext = ext
  a = a
  b = b
  c = c
  r1 = r1
  r2 = r2
  w1 = w1
  w2 = w2
  Run <- Runs1
  Name <- JoinNames
  Stage <- JoinStages
  DependsOn <- Join
  DefaultOnFailure = "fallback"
  Request <- FullRuns
  Worker <- Workers1
  Preloads <- AnyOfExtAB
  MayFail = {a, b}
  Edited = {}
  MaxVersion = 1
  MaxRepeats = 0
  Faults = {"abort", "outage", "lost"}
INVARIANTS
  TypeOK
  DispatchedOnce
  CompletedRunIsWhole
PROPERTIES
  ImplementsLifecycle
