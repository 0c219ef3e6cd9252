----------------------------- MODULE Progression -----------------------------
(***************************************************************************)
(* How a workflow run moves from "requested" to a terminal status: the     *)
(* progression phase of the scheduler's tick (services/scheduler), the     *)
(* runner's worker loop that executes the dispatched stages, the stage-run *)
(* reports and the cancel request that workflow_service writes into the    *)
(* same Postgres tables, and the current version of each resource, which   *)
(* the workers and outside clients move while the scheduler reads it.      *)
(*                                                                         *)
(* One action is one interaction with Postgres, Redis or resource_store,   *)
(* so every other process can act between any two lines of _progress that  *)
(* leave the process.  The columns are named as in the database.           *)
(***************************************************************************)
EXTENDS Workflow, Sequences, FiniteSets

CONSTANTS
  Worker,           \* runner processes popping the queue
  Preloads,         \* the sets of resources that may have a version at the start
  MayFail,          \* the stages whose execution may fail
  Edited,           \* the resources clients upload to or promote meanwhile
  MaxVersion,       \* bound: clients upload at most this version number
  MaxRepeats,       \* bound: at most this many messages are pushed twice
  Faults            \* the faults that may occur, out of FaultKind

FaultKind == {"abort", "outage", "lost", "repeat"}

ASSUME EnvironmentAssumption ==
  /\ Preloads \subseteq SUBSET Name
  /\ MayFail \subseteq Stage
  /\ Edited \subseteq Name
  /\ MaxVersion \in Nat
  /\ MaxRepeats \in Nat
  /\ Faults \subseteq FaultKind

VARIABLES
  request,          \* runs: the columns written once, by intake
  status,           \* runs.status
  cancel_requested, \* runs.cancel_requested, as the set of runs it is set for
  cancelling,       \* runs whose cancel passed its check and is not written yet
  stage_runs,       \* the stage_runs table; a row's id is its position
  queue,            \* the Redis list of stage-run ids, oldest first
  repeated,         \* history: ids of the stage runs that were pushed twice
  recorded,         \* number of versions resource_store has of each resource
  current,          \* current version of each resource, 0 when there is none
  pc,               \* where the scheduler is in its tick
  todo,             \* runs of the tick's snapshot not reached yet
  cancels,          \* runs whose cancel_requested was set in that snapshot
  run,              \* the run the loop body is at
  started,          \* local: stages that have a stage run
  done,             \* local: version that stands for each finished dependency
  failure,          \* local: id of failed[0]
  external,         \* local: external dependencies still to resolve
  dispatched,       \* local: dispatched_any
  wpc,              \* where each worker is
  job,              \* id of the stage run a worker has popped, 0 if none
  result            \* version the worker's stage produced, 0 if it failed

runVars   == <<request, status, cancel_requested, cancelling>>
storeVars == <<recorded, current>>
localVars == <<run, started, done, failure, external, dispatched>>
tickVars  == <<pc, todo, cancels, localVars>>
workVars  == <<wpc, job, result>>
vars == <<runVars, stage_runs, queue, repeated, storeVars, tickVars, workVars>>

StageStatus == {"requested", "running", "completed", "failed"}

StageRun ==
  [run : Run, stage : Stage, input_versions : Versions, status : StageStatus,
   output_version : Nat, used_fallback : BOOLEAN]

-----------------------------------------------------------------------------
(* Queries on stage_runs.                                                  *)

(* The ids of the existing rows.                                           *)
Rows == 1..Len(stage_runs)

(* Mutant of StageRunsOf: the query does not select by workflow_run_id.    *)
StageRunsOfAnyRun(r) == Rows

StageRunsOf(r) == {i \in Rows : stage_runs[i].run = r}
WithStatus(r, st) == {i \in StageRunsOf(r) : stage_runs[i].status = st}
StagesOf(I) == {stage_runs[i].stage : i \in I}

(* Mutant of OutputsOf: a stage without an output is in the dict, as NULL. *)
OutputsWithNull(r) ==
  LET completed == WithStatus(r, "completed") IN
  [s \in Name |->
     IF s \in StagesOf(completed)
     THEN stage_runs[CHOOSE i \in completed : stage_runs[i].stage = s].output_version
     ELSE None]

OutputsOf(r) ==
  LET completed == WithStatus(r, "completed") IN
  [s \in Name |->
     IF s \in StagesOf(completed)
     THEN stage_runs[CHOOSE i \in completed : stage_runs[i].stage = s].output_version
     ELSE 0]

Init ==
  /\ request \in [Run -> Request]
  /\ status = [r \in Run |-> "requested"]
  /\ cancel_requested = {}
  /\ cancelling = {}
  /\ stage_runs = <<>>
  /\ queue = <<>> /\ repeated = {}
  /\ \E P \in Preloads : recorded = [n \in Name |-> IF n \in P THEN 1 ELSE 0]
  /\ current = recorded
  /\ pc = "idle"
  /\ todo = {} /\ cancels = {}
  /\ run = None /\ started = {} /\ done = NoVersions /\ failure = 0
  /\ external = {} /\ dispatched = FALSE
  /\ wpc = [w \in Worker |-> "idle"]
  /\ job = [w \in Worker |-> 0]
  /\ result = [w \in Worker |-> 0]

-----------------------------------------------------------------------------
(* The scheduler's tick.                                                   *)

(* active_workflow_runs(): one SELECT, whose rows the rest of the tick     *)
(* works from.  Their order is the database's, so any run may come next.   *)
BeginTick ==
  /\ pc = "idle"
  /\ pc' = "next"
  /\ todo' = {r \in Run : status[r] \in Active}
  /\ cancels' = cancel_requested \cap todo'
  /\ UNCHANGED <<runVars, stage_runs, queue, repeated, storeVars, localVars, workVars>>

EndTick ==
  /\ pc = "next"
  /\ todo = {}
  /\ pc' = "idle"
  /\ cancels' = {}
  /\ UNCHANGED <<runVars, stage_runs, queue, repeated, storeVars, todo, localVars,
                 workVars>>

SetStatus(r, st) ==
  /\ status' = [status EXCEPT ![r] = st]
  /\ UNCHANGED <<request, cancel_requested, cancelling>>

(* The locals of the loop body go out of scope.                            *)
ClearLocals ==
  /\ run' = None /\ started' = {} /\ done' = NoVersions /\ failure' = 0
  /\ external' = {} /\ dispatched' = FALSE

LeaveRun ==
  /\ pc' = "next"
  /\ ClearLocals
  /\ UNCHANGED <<todo, cancels>>

(* A run is settled without looking at its stages: it was cancelled in the *)
(* snapshot, or its request cannot be executed.                            *)
SkipRun(r, st) ==
  /\ pc = "next"
  /\ r \in todo
  /\ todo' = todo \ {r}
  /\ SetStatus(r, st)
  /\ UNCHANGED <<stage_runs, queue, repeated, storeVars, pc, cancels, localVars,
                 workVars>>

(* Mutants of CancelRun: no look at the flag; only a running run is seen.  *)
CancelAnyRun(r) == SkipRun(r, "cancelled")
CancelRunningRun(r) == r \in cancels /\ status[r] = "running" /\ SkipRun(r, "cancelled")

CancelRun(r) == r \in cancels /\ SkipRun(r, "cancelled")

RejectRun(r) == r \notin cancels /\ Rejected(request[r]) /\ SkipRun(r, "failed")

(* What the loop body goes on to once the failures are dealt with and d    *)
(* holds the finished stages: the run is complete at stop_after, else the  *)
(* pinned versions are laid over d and external dependencies looked up.    *)
Resume(r, d) ==
  IF request[r].stop_after \in Known(d)
  THEN pc' = "complete" /\ done' = d /\ external' = {}
  ELSE /\ done' = Update(d, Overrides(request[r]))
       /\ external' = ExternalDeps(request[r]) \ Known(done')
       /\ pc' = IF external' = {} THEN "dispatch" ELSE "external"

(* stage_runs_for_workflow_run(): the rows come in no stated order, so any *)
(* failed row may be failed[0].                                            *)
ReadStageRuns(r) ==
  /\ pc = "next"
  /\ r \in todo \ cancels
  /\ ~Rejected(request[r])
  /\ todo' = todo \ {r}
  /\ run' = r
  /\ started' = StagesOf(StageRunsOf(r))
  /\ IF WithStatus(r, "failed") = {}
     THEN failure' = 0 /\ Resume(r, OutputsOf(r))
     ELSE /\ failure' \in WithStatus(r, "failed")
          /\ pc' = "failure" /\ done' = OutputsOf(r) /\ external' = {}
  /\ UNCHANGED <<runVars, stage_runs, queue, repeated, storeVars, cancels, dispatched,
                 workVars>>

(* resources.get(): the current version, unless there is none or           *)
(* resource_store does not answer.                                         *)
CanGet(n) == current[n] # 0
CannotGet(n) == current[n] = 0 \/ "outage" \in Faults

FallBack ==
  LET s == stage_runs[failure].stage IN
  /\ pc = "failure"
  /\ EffectiveOnFailure(request[run]) = "fallback"
  /\ CanGet(s)
  /\ done' = [done EXCEPT ![s] = current[s]]
  /\ pc' = "mark_fallback"
  /\ UNCHANGED <<runVars, stage_runs, queue, repeated, storeVars, todo, cancels, run,
                 started, failure, external, dispatched, workVars>>

Halt ==
  /\ pc = "failure"
  /\ EffectiveOnFailure(request[run]) = "halt" \/ CannotGet(stage_runs[failure].stage)
  /\ pc' = "fail"
  /\ UNCHANGED <<runVars, stage_runs, queue, repeated, storeVars, todo, cancels,
                 localVars, workVars>>

MarkUsedFallback ==
  /\ pc = "mark_fallback"
  /\ stage_runs' = [stage_runs EXCEPT ![failure].used_fallback = TRUE]
  /\ Resume(run, done)
  /\ UNCHANGED <<runVars, queue, repeated, storeVars, todo, cancels, run, started,
                 failure, dispatched, workVars>>

(* One turn of the loop over external_deps (its order is not kept).        *)
ResolveExternal(n) ==
  /\ pc = "external"
  /\ n \in external
  /\ CanGet(n)
  /\ done' = [done EXCEPT ![n] = current[n]]
  /\ external' = external \ {n}
  /\ pc' = IF external' = {} THEN "dispatch" ELSE "external"
  /\ UNCHANGED <<runVars, stage_runs, queue, repeated, storeVars, todo, cancels, run,
                 started, failure, dispatched, workVars>>

FailExternal(n) ==
  /\ pc = "external"
  /\ n \in external
  /\ CannotGet(n)
  /\ pc' = "fail"
  /\ UNCHANGED <<runVars, stage_runs, queue, repeated, storeVars, todo, cancels,
                 localVars, workVars>>

(* Mutants of Ready: `started` is not looked at; the range start_from sets *)
(* is not kept.                                                            *)
ReadyAgain == {s \in Reachable(request[run]) : DependsOn[s] \subseteq Known(done)}
ReadyAnywhere == {s \in Stage \ started : DependsOn[s] \subseteq Known(done)}

(* The stages the dispatch loop still has to dispatch.  done does not      *)
(* change in the loop, so the order of its turns decides only the order of *)
(* the queue: any ready stage may come next.                               *)
Ready ==
  {s \in Reachable(request[run]) \ started : DependsOn[s] \subseteq Known(done)}

(* The INSERT's row.                                                       *)
NewStageRun(s) ==
  [run |-> run, stage |-> s,
   input_versions |-> [n \in Name |-> IF n \in DependsOn[s] THEN done[n] ELSE 0],
   status |-> "requested", output_version |-> 0, used_fallback |-> FALSE]

CreateStageRun(s) ==
  /\ pc = "dispatch"
  /\ s \in Ready
  /\ stage_runs' = Append(stage_runs, NewStageRun(s))
  /\ pc' = "enqueue"
  /\ UNCHANGED <<runVars, queue, repeated, storeVars, todo, cancels, localVars,
                 workVars>>

(* LPUSH of the row just created; its fields travel with it unchanged, so  *)
(* the message is its id.                                                  *)
EnqueueStageRun ==
  /\ pc = "enqueue"
  /\ queue' = Append(queue, Len(stage_runs))
  /\ started' = started \cup {stage_runs[Len(stage_runs)].stage}
  /\ dispatched' = TRUE
  /\ pc' = "dispatch"
  /\ UNCHANGED <<runVars, stage_runs, repeated, storeVars, todo, cancels, run, done,
                 failure, external, workVars>>

(* The answer of the LPUSH is lost, and the client of Redis sends it again *)
(* within the same call.  (Bound: it repeats a push once, and MaxRepeats   *)
(* pushes in all.)                                                         *)
RepeatPush ==
  /\ "repeat" \in Faults
  /\ pc = "enqueue"
  /\ Len(stage_runs) \notin repeated
  /\ Cardinality(repeated) < MaxRepeats
  /\ queue' = Append(queue, Len(stage_runs))
  /\ repeated' = repeated \cup {Len(stage_runs)}
  /\ UNCHANGED <<runVars, stage_runs, storeVars, tickVars, workVars>>

(* Mutants of Settle: a run is complete when everything is started; the    *)
(* run is never completed here.                                            *)
SettleWhenStarted ==
  IF Reachable(request[run]) \subseteq started
  THEN pc' = "complete" /\ UNCHANGED <<todo, cancels, localVars>>
  ELSE LeaveRun
SettleNever == LeaveRun

(* After the dispatch loop: the run is complete when every reachable stage *)
(* has a version standing for it, and waits for the next tick otherwise.   *)
Settle ==
  IF Reachable(request[run]) \subseteq Known(done)
  THEN pc' = "complete" /\ UNCHANGED <<todo, cancels, localVars>>
  ELSE LeaveRun

(* run.status of the snapshot is status[run]: only this process writes it. *)
MarkRunning ==
  /\ pc = "dispatch"
  /\ Ready = {}
  /\ dispatched /\ status[run] = "requested"
  /\ SetStatus(run, "running")
  /\ Settle
  /\ UNCHANGED <<stage_runs, queue, repeated, storeVars, workVars>>

KeepStatus ==
  /\ pc = "dispatch"
  /\ Ready = {}
  /\ ~(dispatched /\ status[run] = "requested")
  /\ Settle
  /\ UNCHANGED <<runVars, stage_runs, queue, repeated, storeVars, workVars>>

CompleteRun ==
  /\ pc = "complete"
  /\ SetStatus(run, "completed")
  /\ LeaveRun
  /\ UNCHANGED <<stage_runs, queue, repeated, storeVars, workVars>>

FailRun ==
  /\ pc = "fail"
  /\ SetStatus(run, "failed")
  /\ LeaveRun
  /\ UNCHANGED <<stage_runs, queue, repeated, storeVars, workVars>>

(* A call to Postgres or Redis raises and main() drops the rest of the     *)
(* tick, or the scheduler process dies and is restarted.                   *)
AbortTick ==
  /\ "abort" \in Faults
  /\ pc # "idle"
  /\ pc' = "idle"
  /\ todo' = {} /\ cancels' = {}
  /\ ClearLocals
  /\ UNCHANGED <<runVars, stage_runs, queue, repeated, storeVars, workVars>>

Scheduler ==
  \/ BeginTick \/ EndTick
  \/ \E r \in Run : CancelRun(r) \/ RejectRun(r) \/ ReadStageRuns(r)
  \/ FallBack \/ Halt \/ MarkUsedFallback
  \/ \E n \in Name : ResolveExternal(n) \/ FailExternal(n)
  \/ \E s \in Stage : CreateStageRun(s)
  \/ EnqueueStageRun \/ MarkRunning \/ KeepStatus \/ CompleteRun \/ FailRun

-----------------------------------------------------------------------------
(* The runner's worker.                                                    *)

SetJob(w, where, id, version) ==
  /\ wpc' = [wpc EXCEPT ![w] = where]
  /\ job' = [job EXCEPT ![w] = id]
  /\ result' = [result EXCEPT ![w] = version]

(* BRPOP removes the message from Redis for good.                          *)
Pop(w) ==
  /\ wpc[w] = "idle"
  /\ queue # <<>>
  /\ queue' = Tail(queue)
  /\ SetJob(w, "start", Head(queue), 0)
  /\ UNCHANGED <<runVars, stage_runs, repeated, storeVars, tickVars>>

ReportStart(w) ==
  /\ wpc[w] = "start"
  /\ stage_runs' = [stage_runs EXCEPT ![job[w]].status = "running"]
  /\ SetJob(w, "execute", job[w], 0)
  /\ UNCHANGED <<runVars, queue, repeated, storeVars, tickVars>>

(* run_stage as the scheduler sees it: the stage's output is recorded as a *)
(* new version, and promoted if the run promotes.                          *)
Execute(w) ==
  LET row == stage_runs[job[w]]
      s == row.stage
  IN
  /\ wpc[w] = "execute"
  /\ recorded' = [recorded EXCEPT ![s] = @ + 1]
  /\ current' = IF request[row.run].promote
                THEN [current EXCEPT ![s] = recorded[s] + 1] ELSE current
  /\ SetJob(w, "report", job[w], recorded[s] + 1)
  /\ UNCHANGED <<runVars, stage_runs, queue, repeated, tickVars>>

(* Every attempt failed: the stage raised, or its output was recorded but  *)
(* is invalid, or resource_store promoted it and did not answer in time.   *)
ExecuteFails(w) ==
  LET row == stage_runs[job[w]]
      s == row.stage
  IN
  /\ wpc[w] = "execute"
  /\ s \in MayFail
  /\ \/ UNCHANGED storeVars
     \/ /\ recorded' = [recorded EXCEPT ![s] = @ + 1]
        /\ \/ UNCHANGED current
           \/ /\ "outage" \in Faults /\ request[row.run].promote
              /\ current' = [current EXCEPT ![s] = recorded[s] + 1]
  /\ SetJob(w, "report", job[w], 0)
  /\ UNCHANGED <<runVars, stage_runs, queue, repeated, tickVars>>

(* Mutant of Report: a failure is not reported.                            *)
ReportSuccess(w) ==
  /\ wpc[w] = "report"
  /\ stage_runs' =
       IF result[w] # 0
       THEN [stage_runs EXCEPT ![job[w]].status = "completed",
                               ![job[w]].output_version = result[w]]
       ELSE stage_runs
  /\ SetJob(w, "idle", 0, 0)
  /\ UNCHANGED <<runVars, queue, repeated, storeVars, tickVars>>

(* complete_stage_run or fail_stage_run: an UPDATE by id, whatever the     *)
(* row's status is.                                                        *)
Report(w) ==
  /\ wpc[w] = "report"
  /\ stage_runs' =
       IF result[w] # 0
       THEN [stage_runs EXCEPT ![job[w]].status = "completed",
                               ![job[w]].output_version = result[w]]
       ELSE [stage_runs EXCEPT ![job[w]].status = "failed"]
  /\ SetJob(w, "idle", 0, 0)
  /\ UNCHANGED <<runVars, queue, repeated, storeVars, tickVars>>

(* The worker dies with the message, or a report raises and the main loop  *)
(* goes on to the next message.                                            *)
LoseMessage(w) ==
  /\ "lost" \in Faults
  /\ wpc[w] # "idle"
  /\ SetJob(w, "idle", 0, 0)
  /\ UNCHANGED <<runVars, stage_runs, queue, repeated, storeVars, tickVars>>

Work(w) == Pop(w) \/ ReportStart(w) \/ Execute(w) \/ ExecuteFails(w) \/ Report(w)

-----------------------------------------------------------------------------
(* Clients.                                                                *)

(* request_cancel: the status is read, then the flag is written.           *)
RequestCancel(r) ==
  /\ status[r] \in Active
  /\ r \notin cancel_requested \cup cancelling
  /\ cancelling' = cancelling \cup {r}
  /\ UNCHANGED <<request, status, cancel_requested, stage_runs, queue, repeated,
                 storeVars, tickVars, workVars>>

WriteCancel(r) ==
  /\ r \in cancelling
  /\ cancelling' = cancelling \ {r}
  /\ cancel_requested' = cancel_requested \cup {r}
  /\ UNCHANGED <<request, status, stage_runs, queue, repeated, storeVars, tickVars,
                 workVars>>

(* An operator uploads a version of a resource and makes it current, or    *)
(* makes a recorded version current again.                                 *)
Inject(n) ==
  /\ n \in Edited
  /\ recorded[n] < MaxVersion
  /\ recorded' = [recorded EXCEPT ![n] = @ + 1]
  /\ current' = [current EXCEPT ![n] = recorded[n] + 1]
  /\ UNCHANGED <<runVars, stage_runs, queue, repeated, tickVars, workVars>>

PromoteVersion(n, v) ==
  /\ n \in Edited
  /\ v \in 1..recorded[n]
  /\ v # current[n]
  /\ current' = [current EXCEPT ![n] = v]
  /\ UNCHANGED <<runVars, stage_runs, queue, repeated, recorded, tickVars, workVars>>

Clients ==
  \/ \E r \in Run : RequestCancel(r) \/ WriteCancel(r)
  \/ \E n \in Name : Inject(n) \/ \E v \in 1..recorded[n] : PromoteVersion(n, v)

Next ==
  \/ Scheduler
  \/ AbortTick \/ RepeatPush
  \/ \E w \in Worker : Work(w) \/ LoseMessage(w)
  \/ Clients

Spec == Init /\ [][Next]_vars

(* main() of the poller and of the worker loop for ever, whatever a tick   *)
(* or a message raises; clients need not act.                              *)
Fairness ==
  /\ WF_vars(Scheduler)
  /\ \A w \in Worker : WF_vars(Work(w))

FairSpec == Spec /\ Fairness

-----------------------------------------------------------------------------
(* Correctness.                                                            *)

(* Every variable holds values of the kind the code stores in it.          *)
TypeOK ==
  /\ request \in [Run -> Request]
  /\ status \in [Run -> Active \cup Terminal]
  /\ cancel_requested \subseteq Run
  /\ cancelling \subseteq Run
  /\ stage_runs \in Seq(StageRun)
  /\ queue \in Seq(Rows)
  /\ repeated \subseteq (IF "repeat" \in Faults THEN Rows ELSE {})
  /\ recorded \in [Name -> Nat]
  /\ current \in [Name -> Nat]
  /\ pc \in {"idle", "next", "failure", "mark_fallback", "external", "dispatch",
             "enqueue", "fail", "complete"}
  /\ todo \subseteq Run
  /\ cancels \subseteq Run
  /\ run \in Run \cup {None}
  /\ started \subseteq Stage
  /\ done \in Versions
  /\ failure \in Rows \cup {0}
  /\ external \subseteq Name
  /\ dispatched \in BOOLEAN
  /\ wpc \in [Worker -> {"idle", "start", "execute", "report"}]
  /\ job \in [Worker -> Rows \cup {0}]
  /\ result \in [Worker -> Nat]

(* A stage of a run is dispatched at most once, however ticks are dropped  *)
(* and restarted: no two stage_runs rows share run and stage.  The code    *)
(* has no constraint for it, only the `started` set read at each tick.     *)
DispatchedOnce ==
  \A i, j \in Rows :
    stage_runs[i].run = stage_runs[j].run /\ stage_runs[i].stage = stage_runs[j].stage
      => i = j

(* The row of a dependency of r that settles it: completed, or failed and  *)
(* replaced by the resource's current version.                             *)
SettledBy(i, r, s) ==
  /\ stage_runs[i].run = r /\ stage_runs[i].stage = s
  /\ stage_runs[i].status = "completed" \/ stage_runs[i].used_fallback

Settled(r, s) == \E i \in Rows : SettledBy(i, r, s)

(* Version v of n is what r's request pins, or else what r's own row for n *)
(* produced or was replaced by.                                            *)
Stands(r, n, v) ==
  IF n \in Known(Overrides(request[r])) THEN v = Overrides(request[r])[n]
  ELSE \E j \in Rows :
         /\ SettledBy(j, r, n)
         /\ stage_runs[j].used_fallback \/ stage_runs[j].output_version = v

(* What a stage reads is what its own run produced or pins: a stage is     *)
(* never dispatched ahead of a dependency, nor with the output of another  *)
(* run.                                                                    *)
InputsFollowTheRun ==
  \A i \in Rows :
    LET row == stage_runs[i] IN
    \A n \in DependsOn[row.stage] \cap (Stage \cup Known(Overrides(request[row.run]))) :
      Stands(row.run, n, row.input_versions[n])

(* The run's stop_after is settled, or every stage in its range is settled *)
(* or pinned.                                                              *)
Whole(r) ==
  \/ request[r].stop_after \in Stage /\ Settled(r, request[r].stop_after)
  \/ \A s \in Reachable(request[r]) : Settled(r, s) \/ s \in Known(Overrides(request[r]))

(* A run is marked completed only when there is nothing left to wait for.  *)
CompletedRunIsWhole == \A r \in Run : status[r] = "completed" => Whole(r)

(* used_fallback is set on failed rows only, and only in runs whose        *)
(* effective policy is fallback.                                           *)
FallbackOnlyWhenAllowed ==
  \A i \in Rows :
    stage_runs[i].used_fallback =>
      stage_runs[i].status = "failed" /\ EffectiveOnFailure(request[stage_runs[i].run]) = "fallback"

(* The message of a row that was pushed once is in one place at most, the  *)
(* queue or one worker, and only while the row has no outcome: the UPDATEs *)
(* of its reports, which do not look at the row's status, never overwrite  *)
(* an outcome, whichever other rows were pushed twice.                     *)
InFlightOnce ==
  /\ \A k, l \in DOMAIN queue : queue[k] = queue[l] => k = l \/ queue[k] \in repeated
  /\ \A k \in DOMAIN queue : queue[k] \notin repeated =>
       /\ stage_runs[queue[k]].status = "requested"
       /\ \A w \in Worker : job[w] # queue[k]
  /\ \A w \in Worker : wpc[w] # "idle" /\ job[w] \notin repeated =>
       /\ stage_runs[job[w]].status \in {"requested", "running"}
       /\ \A v \in Worker : job[v] = job[w] => v = w

(* Where nothing is lost, every row without an outcome is on its way: it   *)
(* is queued, in a worker, or about to be queued.                          *)
NothingStranded ==
  \A i \in Rows :
    stage_runs[i].status \in {"requested", "running"} =>
      \/ \E k \in DOMAIN queue : queue[k] = i
      \/ \E w \in Worker : job[w] = i
      \/ pc = "enqueue" /\ i = Len(stage_runs)

(* A run that has reached a terminal status keeps it.                      *)
TerminalIsFinal ==
  [][\A r \in Run : status[r] \in Terminal => status'[r] = status[r]]_vars

(* The outcome of a stage run, once reported, is never changed, unless its *)
(* message was pushed twice: then the report of the second copy replaces   *)
(* that of the first.                                                      *)
OutcomeIsFinal ==
  [][\A i \in Rows \ repeated :
       stage_runs[i].status \in {"completed", "failed"} =>
         /\ stage_runs'[i].status = stage_runs[i].status
         /\ stage_runs'[i].output_version = stage_runs[i].output_version]_vars

(* A run ends unless a message of a stage run was lost or two of its       *)
(* stages have failed: whatever its policy, its pins and its range, and    *)
(* whether or not resource_store answers, it is never left waiting for     *)
(* something that no tick will do.                                         *)
RunEndsUnlessStuck ==
  \A r \in Run :
    [](NothingStranded /\ Cardinality(WithStatus(r, "failed")) <= 1)
      => <>(status[r] \in Terminal)

(* A recorded cancel always ends the run, also one that is stuck because a *)
(* message was lost or its failures cannot all be replaced.                *)
CancelEndsRun ==
  \A r \in Run : r \in cancel_requested ~> status[r] \in Terminal

-----------------------------------------------------------------------------
(* The inductive invariant that the safety properties follow from.         *)

InLoop == pc \notin {"idle", "next"}

(* The locals a step uses have been set.                                   *)
HandlesOK ==
  /\ InLoop => run \in Run
  /\ pc \in {"failure", "mark_fallback"} => failure \in Rows
  /\ pc = "enqueue" => stage_runs # <<>>
  /\ \A w \in Worker : wpc[w] # "idle" => job[w] \in Rows

(* The snapshot of a tick stays good for the runs the tick has not reached *)
(* and the one it is at: only the tick itself writes their status.         *)
SnapshotInv ==
  /\ pc = "idle" => todo = {}
  /\ \A r \in todo : status[r] \in Active
  /\ InLoop => /\ run \in Run \ todo
               /\ status[run] \in Active
               /\ ~Rejected(request[run])

(* `started` stays complete, up to the row whose message is to be queued.  *)
StartedInv ==
  /\ InLoop => StagesOf(StageRunsOf(run)) =
                 started \cup (IF pc = "enqueue" THEN {stage_runs[Len(stage_runs)].stage}
                               ELSE {})
  /\ pc = "enqueue" => stage_runs[Len(stage_runs)].run = run

(* The row that a fallback is for.                                         *)
FailureInv ==
  pc \in {"failure", "mark_fallback"} =>
    /\ failure \in WithStatus(run, "failed")
    /\ pc = "mark_fallback" => EffectiveOnFailure(request[run]) = "fallback"

(* Each stage that `done` has a version for is settled, apart from the one *)
(* that is about to be marked used_fallback; and a run that goes on to be  *)
(* marked completed is whole.                                              *)
DoneInv ==
  /\ pc \in {"failure", "mark_fallback"} =>
       \A s \in Stage \cap Known(done) :
         \/ pc = "mark_fallback" /\ s = stage_runs[failure].stage
         \/ \E j \in Rows :
              SettledBy(j, run, s)
                /\ (stage_runs[j].used_fallback \/ stage_runs[j].output_version = done[s])
  /\ pc = "external" =>
       external \cap (Stage \cup Known(Overrides(request[run]))) = {}
  /\ pc \in {"external", "dispatch", "enqueue"} =>
       \A n \in Known(done) \cap (Stage \cup Known(Overrides(request[run]))) :
         Stands(run, n, done[n])
  /\ pc = "complete" => Whole(run)

(* What the tick ends a run for: a recorded cancel, a failed stage or an   *)
(* external dependency that is not pinned; and what it marks a run running *)
(* for: a dispatched stage.                                                *)
ReasonInv ==
  /\ cancels \subseteq cancel_requested
  /\ dispatched => InLoop /\ started # {}
  /\ pc = "external" => external \subseteq ExternalDeps(request[run])
  /\ pc = "fail" =>
       \/ WithStatus(run, "failed") # {}
       \/ \E n \in ExternalDeps(request[run]) : n \notin Known(Overrides(request[run]))

(* What each worker holds.                                                 *)
JobInv ==
  \A w \in Worker :
    /\ wpc[w] = "idle" <=> job[w] = 0
    /\ job[w] \notin repeated =>
         /\ wpc[w] = "start" => stage_runs[job[w]].status = "requested"
         /\ wpc[w] \in {"execute", "report"} => stage_runs[job[w]].status = "running"

(* The row created last is in no message before it is enqueued, but for    *)
(* that of a push whose answer was lost.                                   *)
EnqueueInv ==
  pc = "enqueue" /\ Len(stage_runs) \notin repeated =>
    /\ stage_runs[Len(stage_runs)].status = "requested"
    /\ \A k \in DOMAIN queue : queue[k] # Len(stage_runs)
    /\ \A w \in Worker : job[w] # Len(stage_runs)

MessageInv == JobInv /\ EnqueueInv /\ InFlightOnce

DispatchInv == SnapshotInv /\ StartedInv /\ DispatchedOnce

OutcomeInv ==
  FailureInv /\ DoneInv /\ FallbackOnlyWhenAllowed /\ InputsFollowTheRun
    /\ CompletedRunIsWhole

Inv == HandlesOK /\ MessageInv /\ DispatchInv /\ OutcomeInv /\ ReasonInv

-----------------------------------------------------------------------------
(* The life of a run that the tables show.  Two rows of one run and stage  *)
(* would have no counterpart in it.                                        *)
ProgressOf(r, s) ==
  LET I == {i \in StageRunsOf(r) : stage_runs[i].stage = s} IN
  IF I = {} THEN "waiting"
  ELSE IF \A i \in I : I # {i} THEN "dispatched twice"
  ELSE LET row == stage_runs[CHOOSE i \in I : TRUE] IN
       IF row.status = "completed" THEN "completed"
       ELSE IF row.status # "failed" THEN "dispatched"
       ELSE IF row.used_fallback THEN "replaced" ELSE "failed"

Lifecycle ==
  INSTANCE RunLifecycle
    WITH asked <- cancel_requested,
         progress <- [r \in Run |-> [s \in Stage |-> ProgressOf(r, s)]]

(* Scheduler, workers and clients together give every run the life that    *)
(* RunLifecycle promises.                                                  *)
ImplementsLifecycle == Lifecycle!Spec

-----------------------------------------------------------------------------
(* What comments of the code say and the code does not keep.               *)

(* The fallback policy: a run with failed stages "keeps going".            *)
EveryRunTerminates == \A r \in Run : <>(status[r] \in Terminal)
=============================================================================
