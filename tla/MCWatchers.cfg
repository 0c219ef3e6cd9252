\* A schedule, its runs and one watcher: the CLI, the run page or the dashboard.
SPECIFICATION FairSpec
CONSTANTS
  None = None
  ext = ext
  a = a
  r1 = r1
  r2 = r2
  Run = {r1, r2}
  Name = {ext, a}
  Stage = {a}
  DependsOn <- OneStage
  DefaultOnFailure = "halt"
  Request <- Requests
  Watcher = {"cli", "run page", "dashboard"}
  Opened = r1
  MaxRuns <- CliTwoRuns
  MaxInFlight = 2
INVARIANTS
  TypeOK
  CliIsToldTheEnd
  PageIsTrue
  DashboardShowsRequest
PROPERTIES
  ShownForward
  CliStops
  PageStops
CHECK_DEADLOCK FALSE
