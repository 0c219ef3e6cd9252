# stage-runner: a TLA+ model

Models, checks and proofs about how stage-runner runs workflows: scheduler,
runner, workflow_service, resource_store and the clients that wait for them
(all paths below are under `src/`).

## The system

A *workflow* is a DAG of stages (`lib/stages.py`, `lib/dag.py`). A *run*
executes the stages of a workflow, or a sub-range of them; each stage reads one
version of each of its dependencies from resource_store and uploads its output
as a new version of the resource of its own name.

| component | state | operations | talks to |
|---|---|---|---|
| workflow_service (`services/workflow_service`) | owns the Postgres tables `schedules`, `recurring_schedules`, `runs`, `stage_runs` | request a run (a schedule row), cancel a schedule, a rule or a run, register a rule; worker-facing reports start/complete/fail; statuses and lists | clients over HTTP, runner over HTTP, scheduler through the shared tables |
| scheduler (`services/scheduler`) | none of its own; creates `runs` and `stage_runs` rows and is the only writer of `runs.status` | one tick: recurring intake, intake, progression | Postgres, Redis (LPUSH), resource_store (GET) |
| Redis list | messages, one per dispatched stage run | LPUSH, BRPOP | scheduler, runner |
| runner (`services/runner`) | none but the message it is working on | pop, report start, resolve inputs, run the stage with retries, upload, record dependencies, promote, report | Redis, resource_store, workflow_service |
| resource_store (`services/resource_store`) | Postgres `resources`, `resource_versions`, dependencies; blobs in S3 | upload (validate, number, put blob, record), set dependencies, promote, get | its clients over HTTP |
| CLI (`cli/stagerunner.py`) | its loop's locals | request a run and poll it, rules, upload with or without promote | workflow_service, resource_store |
| web UI (`services/web`) | what its pages show | poll runs, stage runs and schedules; draw the graph; cancel; promote | workflow_service, resource_store |
| gateway, workflows, resource contracts, seed data | none that matters here | | |

What is hard in it:

* three processes read and write the same rows with autocommitted statements and
  no lock, no transaction and no constraint on `stage_runs`: what keeps a stage
  from running twice is only the `started` set the scheduler reads at each tick;
* every tick works from snapshots (`active_workflow_runs`, `pending_schedules`,
  `due_recurring_schedules`) that clients and workers change under it;
* a tick may be dropped anywhere (`main` catches everything), the scheduler may
  be restarted, BRPOP loses the message of a worker that dies, and a report is
  sent once;
* a worker stops waiting for an answer after 5 or 10 seconds, and the server may
  handle the call later: an attempt fails although its upload or promotion
  happens; a push to Redis may be repeated;
* failures of stages, retries, the fallback policy, pins, start_from and
  stop_after combine, and current versions of resources move meanwhile;
* clients see all this through several requests that are answered in any order.

## What makes each part correct

| part | properties |
|---|---|
| progression | no stage of a run is dispatched twice; a stage reads what its own run produced, pins or was given by the fallback; a run is completed only when its range is settled; terminal statuses and outcomes are final; the fallback is used only where it is allowed; a run ends, and a cancel ends any run |
| queue and worker loop | a message that is pushed once is in one place at most, and only while its row has no outcome; without losses no row is forgotten |
| execution of a stage run | only a valid version of its own is reported or promoted, linked to what it was computed from; attempts account for the versions left behind and share their inputs; the outcome is final and tells what was promoted; every message gets an outcome, or a worker dropped it |
| intake | `run_id` names the schedule's own run; one run per schedule and one firing per occurrence, up to dropped ticks; a cancel is effective after one more run at most; no cron occurrence is passed over; what is due is served |
| resource_store | version numbers without gaps or repetitions; a blob for each version; content never changes; the current version is one of the resource's own; dependencies are replaced as a whole |
| clients | the CLI exits with the end of its own run; a page never goes back and, unless a request of it has failed, ends with the run's last state; the dashboard misses no request it could show; polling stops |
| graph | the order is topological, and there is none exactly on a cycle; the range is what is reachable; a stage is drawn right after one it depends on |

## The modules

* `Workflow.tla`: a workflow graph and a request to run it. The algorithms of
  `lib/dag.py` appear as what they return (`ReachableFrom` is a least set, and
  `Acyclic` says every set of stages has one without dependencies in it);
  `Rejected` is the list of checks of `poller.py:133-166`.
* `Progression.tla` (over `Workflow`): `_progress`, the Redis list, the worker
  loop, the reports and run cancels of workflow_service, and the current
  version of each resource. Each action is one interaction with Postgres, Redis
  or resource_store; the scheduler's position between them is `pc`:
  `next` (loop head), `failure` and `mark_fallback` (lines 173-188), `external`
  (203-218), `dispatch` and `enqueue` (220-238), `fail`, `complete`. The locals
  of the loop are variables, reset when the loop body is left. A row of
  `stage_runs` is a position in a sequence; a message is the id of a row. An
  execution is one action with every effect it can have on versions. A push whose
  answer is lost may be sent again within `enqueue_stage_run` (`RepeatPush`, the
  fault `repeat`; `repeated` is history): the row's message is then in the list
  or with the workers twice.
* `RunLifecycle.tla` (over `Workflow`): what a run promises, with no scheduler,
  queue or worker. `Progression!ImplementsLifecycle` is the refinement; the
  mapping reads the progress of a stage off its row. A stage is dispatched or
  replaced only in a run whose request is not refused (`Rejected`).
* `StageWorker.tla`: the same execution from inside, `process_message` and
  `Runner.run_stage` for any number of workers. An action is one call of a worker
  or one answer; `work[w].at` is the call a worker is at. A call is answered
  (`...Answered`), refused (`CallRefused`), or its worker stops waiting
  (`CallTimesOut`) and the server handles it later or never (`late`,
  `HandleLate`). `Handle` is what the servers do with a call, in time or late.
  A message may have been pushed twice (`copies`); people upload and promote
  versions of the inputs meanwhile. `made` and `dropped`, and `by` and `read` of
  a version, are history.
* `Intake.tla`: `schedules`, `recurring_schedules`, the inserts into `runs`,
  the client calls that write them, and the two intake phases of the tick, one
  statement at a time. `pc` is `due` (between the clock and the SELECT),
  `recurring`, `advance`, `intake`, `mark`. `origin` and `dropped` are history.
  A cron expression fires at every multiple of its period.
* `Watchers.tla` (over `Workflow`; its runs move by `RunLifecycle`'s actions):
  one schedule, its intake reduced to select, create, mark and drop, and the
  clients that poll: the CLI's loop, with the two SELECTs of a schedule's status;
  the run page, whose loads overlap and are answered in any order; the
  dashboard's two lists. A load of the run page is three requests: the run, its
  stage runs, and the stages of the workflow, which `list_stages` answers only if
  the workflow can be imported and has no cycle (`Listable`). Any load may fail
  (`LoadFails`), as often as it likes; if the workflow is not `Listable` each
  does (`ListStagesFails`). `page.error` is then set for good, as
  `RunDetail.jsx` resets it nowhere: its line 63 shows the error from there on,
  while the interval goes on. What `page.shown` holds then is only what the page
  would show. `orphans`, `crossed`, and the marks `stale`,
  `overwritten`, `status_first` and `pending_first` are history: they say in
  which order things were read.
* `ResourceStore.tla`: concurrent handlers of resource_store, one SQL statement
  or S3 put at a time, each of which may be the last (`Abandon`). `call[c]` is
  where handler `c` is. `uploaded` and `overlap` are history. `VersionLog.tla`
  is what the tables promise, and `ImplementsLog` the refinement.
* `StageGraph.tla`: registration, and `topological_order` and `reachable_from`
  call by call, against the definitions of `Workflow` (`INSTANCE ... WITH`).
  `stack` holds the arguments of the calls of `visit` or `depends_on_start` in
  progress, so `in_progress` (`dag.py:31`) is its range; `visited`, `order` and
  `memo` are the functions' own. A step is a call (`VisitStage`,
  `VisitDependency`, `AskStage`, `AskDependency`), a return (`VisitReturns`,
  `DependsOnStart`, `DoesNotDependOnStart`), the exception (`RaiseCycle`) or the
  result (`OrderReturned`, `RangeReturned`). A loop is resumed by looking for the
  first element it has not passed (`First`): what it passed is visited, or has
  the answer false. A call that returns at once is passed over.
* `StagePicture.tla` (over `StageGraph`): the web UI's `stageDepths` and
  `graphLayout`, drawn from the sorted stages. A step is the depth of one stage
  (`DepthOf`) or one node put into its column (`PlaceExternal`, `PlaceStage`).
  `depthOf` recurses in the code. As every stage comes after those it depends on,
  each call for a dependency returns at once; `PictureInvariant` includes that
  its depth is there, so the guard against cycles (`dagLayout.js:16`) never shows.
* `MCProgression`, `MCIntake`, `MCResourceStore`, `MCStageWorker`, `MCWatchers`,
  `MCStageGraph`: the small instances.
* `ProgressionProofs`, `ProgressionOutcomes`, `StageWorkerProofs`,
  `StageWorkerOutcomes`, `IntakeProofs`, `ResourceStoreProofs`,
  `WatchersProofs`, `StageGraphProofs`: the proofs.

The intake and progression phases of one tick share only the table `runs`:
intake appends to it, and progression updates `status` of rows that are there.
`Progression` starts with its runs created, which is a tick that has not
reached them; `Intake` leaves the rest of the tick out, which is time between
two of its steps. `StageWorker` takes the messages as queued, and
`ResourceStore`'s handlers as answered at once; what concurrent uploads do to
each other is `ResourceStore`'s.

Each mutant the project checks a property with stands next to the definition it
changes, with a comment that says what the bug is.

## The runs

| run | question | instance |
|---|---|---|
| `one_run_faults` | does one run keep every safety property and live as `RunLifecycle` promises when ticks are dropped, resource_store does not answer and messages are lost? | join `a, b -> c` over an external resource, both roots may fail, all policies, any initial versions, one worker |
| `partial_runs` | are `start_from`, `stop_after`, pins and `promote` obeyed, also when resources move? | chain `a -> b` where `b` reads the external resource too, all requests, refused ones included, two workers, dropped ticks |
| `two_runs` | do two runs that share queue, workers and resources keep apart? nothing is lost, so is no row forgotten? | chain, `halt` and default policy, two workers |
| `run_ends` | does a run end, and does a cancel end it? | join, requests of the whole range with either policy or the default, both roots may fail, lost messages, an unavailable resource_store, one message pushed twice, the external resource and `a` with or without a version at the start |
| `worker` | is what a stage run reports, promotes and leaves behind right when calls are refused, time out and are handled late, workers die, and a message is delivered twice? | a stage with one input and one retry, two workers, one stage run: pinned to either version of the input and promoting, or unpinned and a test; two versions of the input, one late call |
| `intake` | are the tables right when a tick is dropped anywhere, and is everything served that is due? | one schedule, one rule (cron of period 1 or 2, or an interval of 2), clock to 2, one drop |
| `store` | are the tables right when two handlers race and fail anywhere? | two resources with contracts, values that meet them and not, uploads that begin while there are fewer than two rows, one dependency |
| `watchers` | is what clients are told true, does it go forward, and do they stop? | one schedule, a workflow of one stage that can be imported or not, two runs for the CLI (the first may be orphaned by a dropped tick) and one for the pages, two overlapping loads, any number of which fail |
| `dag` | do the graph algorithms compute what the scheduler's model takes them to? | every registry of up to three stages with up to two dependencies each, cycles, self-dependencies and an external resource included |
| `two_failures`, `store_overwrite`, `error_lost` | the three disagreements below | the least instance that shows each |

Why the bounds suffice for what they are for. Two roots and a join are the
least graph in which two stages of a run fail, finish in either order and are
waited for together; a chain is the least in which one stage waits for another
and a range is partial. Two runs and two workers are the least for rows,
messages and promotions of one to meet those of the other; the code has no
step in which three take part. `MaxVersion = 2` lets a resource change once
between any two reads. One retry has a first and a last attempt, and one late
call can be any call of either; two copies of a message are two workers with
one stage run. `MaxRepeats = 1` lets one stage of the join be executed twice,
before, while or after the others are. For the intake, a clock of 2 has two occurrences of the period 1
and an occurrence between any two steps; a second dropped tick repeats the
first. Two loads are the least that can be answered out of order. Three stages
have every shape a recursion can meet: a chain of two steps, a join, a fork, and
cycles of one, two and three. The safety properties are all proved, and do not
depend on any bound; some of them suppose that each message is pushed once (see
"What is proved").
`partial_runs`, `two_runs` and `store` use symmetry of workers, runs and
handlers, whose identity no definition looks at; no liveness is checked there.

`worker`, `watchers`, `error_lost` and `dag` do not check for deadlock: once
every message is done, every client has exited, or the graph is computed, the
modelled part has nothing left to do. All others do: clients and the polling
scheduler never stop for good.

### Fairness

`Progression!Fairness` is weak fairness of the scheduler and of each worker:
`main()` of the poller (`poller.py:266-271`) and of the worker
(`worker.py:115-143`) loop for ever whatever a turn raises. `AbortTick` and
`LoseMessage` are no part of it, and neither are the clients. A scheduler whose
every tick is dropped makes no progress, so `run_ends` has no dropped ticks; a
lost message strands its run, so `RunEndsUnlessStuck` asks for a run with no
stranded row and one failed stage at most, and `CancelEndsRun` asks for nothing.
`Intake!FairSpec` is weak fairness of the scheduler; the clock need not go on.
`StageWorker!Fairness` is weak fairness of a worker's own steps: its loop goes
on, HTTP calls are answered or time out, and the stage's function returns (one
that never returns keeps its worker for ever in the code as well, where nothing
times out). Faults and late handling are not fair: a late call may never happen.
`Watchers!FairSpec` is weak fairness of the CLI's loop (`stagerunner.py:100-104`)
and of the page's interval; nothing is asked of the runs, so `CliStops` and
`PageStops` say what follows once a run has ended. `LoadFails` is not fair, but
nothing bounds it: `PageStops` promises nothing if loads go on failing for ever,
nor of a workflow that is not `Listable`, whose page never stops (`PageIsTrue`).

## What is proved

For every workflow graph, any set of requests, runs, workers and faults
(`NamesAssumption`, `RequestAssumption`, `EnvironmentAssumption`: the constants
have their types, and `None` is none of the names):

* with every fault, pushes that are repeated included: `TypesHold`,
  `EachStageOnce` (a stage has one row), `TerminalStaysFinal` (a run keeps its
  end), and `MessagesCorrect` and `OutcomesAreFinal`, which say of each row that
  was pushed once that its message is in one place at most and that its outcome is
  never overwritten, whatever happens to the others;
* `NoneIsForgotten`, for `Faults \subseteq {"outage", "repeat"}`: only a dropped
  tick or a lost message strands a stage run (`EnqueueStays` and `NextStranded`
  follow the rows that wait between their INSERT and the list);
* where no message is pushed twice (`"repeat" \notin Faults`): `InvariantHolds`,
  `InputsAreTheRunsOwn`, `CompletedMeansWhole`, `FallbackIsAllowed` (a row is
  marked as replaced only if it failed and its run allows it), and
  `ProgressionRefines`: `Spec` implements `RunLifecycle!Spec`. These read
  outcomes, which the report of a second copy overwrites.

`Progression!Inv` is needed because none of these is inductive. That a stage is
dispatched once rests on `StartedInv` (the local `started` still equals the
table's stages of the run, although the table was read earlier), which rests on
only the scheduler inserting rows and on `SnapshotInv` (no run of the snapshot
is visited twice, and its status cannot change but by the tick itself).
`DoneInv` says that each version in `done` still stands for its stage although
workers go on reporting; `MessageInv` that the message of a row that was not
pushed twice is in one place, which is why a report finds that row still without
an outcome.
`ProgressionProofs` has types, messages and dispatch, and `ProgressionOutcomes`
the rest of the invariant and one lemma for each step of `RunLifecycle`.

For any number of workers, stage runs, retries, copies of a message, late calls
and versions people make (`WorkerAssumption`):

* `WorkerInvariant`, `TypesHold`, `OnlySoundIsPromoted`,
  `OnlySoundIsCompleted`. Whether a version is sound is decided at its upload
  and at the recording of its dependencies, and used two calls later by the
  promotion and the report, possibly after the worker has gone on. `JobInv` says
  at each place what the locals already guarantee about the version they name,
  of the workers and of the calls left in `late` alike; it survives other
  workers because a version is only ever appended, and its dependencies are
  only written by calls that hold its number, with the same inputs.
* `OnceHolds`, `InputsAreShared`, `OutcomesStay`, `ReportNamesPromoted`, for a
  message queued once. `OnceOf` says
  that one worker has the message, or none does and the list has it and nothing
  has been computed; that a report left in `late` is the only one, its worker
  having gone; and that everything computed for the stage run, in a worker, in
  `late` or in the store, has the same inputs. `ToldInv` adds that once a
  promotion was answered, its version is with the worker that is to report it, in
  the report left in `late`, or in the row.
* `AttemptsAccountForVersions`, for any number of copies. The sum over the workers
  that this needs is taken over finite sets: `Potential(r)` is the number of the
  stage run's versions, of its uploads left in `late`, of the attempts still ahead
  of each worker that has the message (a set of pairs of a worker and an attempt
  number), and of the attempts the copies in the list allow. No step makes it
  grow: an attempt that is begun turns a pair into an upload, and the upload into
  a version or into a late call. It starts as what all copies may use up (`Total`); a worker
  that ends with its a-th attempt gives up its other pairs, after which at most
  `Total - Allowed + a` is left (`Ended`), the bound of the property (`CountInv`).

For any requests, cadences, clock and number of dropped ticks
(`IntakeAssumption`): `TypesHold`, `IntakeInvariant`, `RunIdCorrect`,
`CancelWorks`, `NoOccurrenceLost` (for every period, by `CronIsNext`, which shows
that `NextRunAt` returns the first multiple after its argument),
`ScheduleRunsOnce` and `RuleFiresOnce`. `SelectedInv` and `ItemInv` tie the
tick's snapshot to the tables it was taken from, and `OnceInv` counts the runs
of a schedule against its mark and the dropped ticks.

For any number of handlers, resources, values and rows (`StoreAssumption`):
`TypesHold`, `StoreInvariant`, `NumbersInOrder`, `VersionsHaveBlobs`,
`CurrentBelongs`, `ContentStays`, `DependenciesAreOfOneCall` and
`StoreImplementsLog`. `NumberInv` says that the number an upload holds follows a
recorded one, which together with UNIQUE keeps the numbers without gaps.

For any workflow, any number of runs, of loads of the run page that overlap and
of ticks dropped (`WatchersAssumption`): `WatchersInvariant`, `TypesHold`,
`CliTellsTheEnd`, `PageTellsTheTruth`, `DashboardMissesNone` and
`NothingGoesBack`. `Ahead` orders statuses by how far a run has come, and every
move of `RunLifecycle` goes ahead (`Forward`). `LoadsInv` says that the loads in
flight lie in the order in which they read the run, each ahead of those before
it, and those that are not stale ahead of what the page shows; `ShowsTheRun`
what the page would show if no load of it had failed; `ScheduleInv` that a run
was created by a dropped tick, or is the one the schedule is marked or about to
be marked with, and that a cancel which crossed no tick found nothing selected,
after which nothing selects the schedule again.

For every registry, of any size and with any dependencies (`GraphAssumption`):
`GraphInvariant`, `OrderSorted` (`topological_order` raises exactly on a cycle
and otherwise sorts the stages) and `RangeReachable` (`reachable_from` returns
the set that `Workflow!ReachableFrom` defines, with which the scheduler's model
narrows a run). `Path` says that the calls in progress are a path of dependencies
without a repetition. So a dependency that is on the stack closes a cycle
(`ChainCycle`): that makes `RaiseCycle` right, and, a graph that was sorted having
no cycle (`SortedAcyclic`), it is why `depends_on_start`, which has no
`in_progress`, never calls itself for a stage it is already asking about.
`Sorted` says that what is visited lacks no dependency, so nothing visited earlier
depends on a stage that is appended. `Answers` says that a remembered true is
reachable and that a remembered false is false for all the stage's dependencies;
once every stage has an answer, those with true are closed, and the least closed
set is no larger. The argument is by steps, so no induction over the recursion is
needed; the first element of a loop and the first position of a cycle in the order
come from the well-foundedness of finite sets (`Least`).

`PictureInvariant` and `PictureSound` say of the picture that its edges only go
right and that no stage is further right than its dependencies require. They rest
on the order being sorted: `RightDepth` ties a depth to the depths of the
dependencies, of which one is the greatest (`Greatest`), and `Columns` each node
put to its depth. That no column stays empty (`NoGap`) is an argument about the
least column above a gap: what is in it is right after another, which would be in
the gap.

Only model-checked: liveness (`RunEndsUnlessStuck`, `CancelEndsRun`,
`DueIsDispatched`, `DueRuleFires`, `Served`, `CliStops`, `PageStops`), which is out of the
prover's reach.

## Where code and documentation disagree

Shown by a run:

* `two_failures`: `_progress` handles `failed[0]` only. With two failed
  stages under `fallback`, each tick resolves one of them, the other stays
  without a version, and the run stays `running` until it is cancelled
  (`lib/stages.py:43-45` says the run keeps going).
* `store_overwrite`: two uploads take one number and put one key; the loser of
  the INSERT may have replaced the winner's immutable value.
  `ContentKeptUnlessRaced` says it happens to no other version.
* `error_lost`: `execute_stage.py` prints its result line on stdout, as its
  docstring says `DockerStageExecutor` expects; when it exits with 1, the
  executor parses the container's stderr, and the stage's own error is lost.

Visible in the actions, without a run of their own:

* `_intake_recurring` reads its clock before Postgres compares `next_run_at`
  with its own; an occurrence between the two fires twice. `FiredOnceIfNoticed`
  excludes exactly that (`began >= t`);
* the tick uses `cancel_requested` of its first SELECT: a cancel during a tick
  does not stop what that tick still dispatches (`workflow_service/src/service.py:285-287`:
  "only stops anything from being dispatched after this");
* external dependencies are looked up again at each tick (`poller.py:203-213`),
  against the comment above them ("to its current version once"):
  `ResolveExternal` is enabled anew in each tick;
* a schedule or a rule cancelled after the tick selected it runs once more, while
  the CLI may have been told it is cancelled (`service.py:159-162`: "keeps a
  cancelled one from ever being dispatched"); `CancelStopsAllButOne` bounds it,
  and `CancelledHasNoOtherRun` says that the run of that one tick is then the only
  one, but for those of dropped ticks;
* a tick dropped between `create_workflow_run` and `mark_schedule_dispatched`
  makes a schedule run twice; `OneRunPerSchedule` counts it;
* two concurrent `update_dependencies` of one version may leave the union of
  their sets; `DependenciesReplaced` excludes overlapping calls;
* `promote` accepts a version that failed its contract, which
  `README.md:69-70` rules out ("never becomes current"): people may
  (`ConfirmPromote`), stage runs never do (`PromotedIsSound`);
* a stage run whose promotion is handled after its attempt was given up is
  reported failed, or with a later version, while the earlier one is current
  (`PromotedIsReported` excludes late promotions);
* a push that is repeated after a lost answer makes two workers execute one
  stage run, and `workflow_service` updates its row by id whatever the status: a
  second report replaces an outcome that other stages were given, and the row of a
  completed run goes back to `running` until the second copy is reported, or for
  good if that is lost. Whether the client of Redis repeats a push is its
  configuration's; `repeat` assumes that it may;
* a load of the run page that read the run earlier may be shown last, also after
  the polling has stopped (`page.overwritten`);
* one failed request leaves the run page with its error for good, while its
  interval goes on until the run has ended (`RunDetail.jsx:38,63`); if the workflow
  does not load or has a cycle, which is why the scheduler marked its run failed
  (`poller.py:133-138`), no load is ever shown and it polls for ever
  (`UnlistableIsNotShown`). The dashboard's load resets its error;
* `dagLayout.js:3-4` says that stages are dispatchable together exactly when they
  share a depth: that holds of rounds in lockstep, in which a stage runs in the
  round after the last of its dependencies (`PictureIsSound`), not of the
  scheduler, which waits for a stage's own dependencies only.

## What is not modelled

* The import of a workflow and of a contract file: a workflow loads or does not
  (a field of the request, a fault of the worker), and a contract is a set of
  values.
* Lookups that change nothing (single resources and versions, 404s, listing
  rules), argument parsing and `--no-wait` of the CLI, and forms, navigation and
  rendering of the web UI. `ScheduleDetail` polls as the run page does, over one
  request. The dashboard's limit of 50 runs is left out.
* A stage that never returns, the database connection of the scheduler after a
  restart of Postgres, and an empty string as `start_from` (see the hazards).
* The gateway (a configuration), the in-memory repositories of the unit tests
  (the models follow the Postgres ones, which run), the example workflows and
  contracts (the constants stand for any), the system tests and the database
  setup.

## Plan

What would come next: `System.tla`, intake and progression in one tick over one
table `runs`, with the executions of `StageWorker` in place of `Execute` and
`ExecuteFails`, shown to implement a schedule's life from its request to the end
of its run.
