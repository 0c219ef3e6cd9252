\* One stage run, delivered once or twice, one retry, one call handled late, people editing the input.
SPECIFICATION FairSpec
CONSTANTS
  None = None
  in = in
  out = out
  r1 = r1
  r2 = r2
  w1 = w1
  w2 = w2
  Worker = {w1, w2}
  StageRun = {r1}
  Name = {in, out}
  Stage = {out}
  DependsOn <- OutDeps
  Retries <- OneRetry
  Message <- Messages
  Executor = "in_process"
  Preloads <- WithIn
  Edited = {in}
  MaxVersion = 2
  MaxLate = 1
  Faults = {"death", "refusal", "unloadable"}
INVARIANTS
  TypeOK
  CompletedIsSound
  PromotedIsSound
  AttemptsAccounted
  AttemptsShareInputs
  PromotedIsReported
PROPERTIES
  OutcomeIsFinal
  Served
CHECK_DEADLOCK FALSE
