\* A schedule and a rule of either cadence, cancels, and a tick dropped anywhere.
SPECIFICATION FairSpec
CONSTANTS
  None = None
  a = a
  Name = {a}
  Ask <- Asks
  Cadence <- Cadences
  MaxTime = 2
  MaxSchedules = 1
  MaxRules = 1
  MaxDrops = 1
INVARIANTS
  TypeOK
  RunIdIsItsRun
  CancelStopsAllButOne
  NoneSkipped
  OneRunPerSchedule
  FiredOnceIfNoticed
PROPERTIES
  DueIsDispatched
  DueRuleFires
