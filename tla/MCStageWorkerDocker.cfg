\* One stage run in a container: what is left of the error its stage raised.
SPECIFICATION Spec
CONSTANTS
  None = None
  in = in
  out = out
  r1 = r1
  r2 = r2
  w1 = w1
  w2 = w2
  Worker = {w1}
  StageRun = {r1}
  Name = {in, out}
  Stage = {out}
  DependsOn <- OutDeps
  Retries <- OneRetry
  Message <- Messages
  Executor = "docker"
  Preloads <- WithIn
  Edited = {in}
  MaxVersion = 2
  MaxLate = 0
  Faults = {}
INVARIANT
  StageErrorIsKept
CHECK_DEADLOCK FALSE
