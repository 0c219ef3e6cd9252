-------------------------- MODULE ProgressionOutcomes --------------------------
(* What a run's stages read, when a run counts as completed, and when a    *)
(* failure is replaced: the proofs that rest on the history of the rows.   *)
(* With them, Progression implements RunLifecycle: every step is a step of *)
(* the abstract life of a run, or leaves it as it is.  What rests on the   *)
(* outcomes of rows being final supposes that no message is pushed twice.  *)
EXTENDS ProgressionProofs

LEMMA RequestFixed == [Next]_vars => request' = request
  BY DEF Next, Scheduler, Work, Clients, vars, runVars, BeginTick, EndTick, CancelRun,
     RejectRun, SkipRun, SetStatus, ReadStageRuns, FallBack, Halt, MarkUsedFallback,
     ResolveExternal, FailExternal, CreateStageRun, EnqueueStageRun, MarkRunning,
     KeepStatus, CompleteRun, FailRun, AbortTick, RepeatPush, Pop, ReportStart, Execute,
     ExecuteFails, Report, LoseMessage, RequestCancel, WriteCancel, Inject, PromoteVersion

(* How a step may change row i where no message is pushed twice.           *)
RowKept(i) ==
  /\ stage_runs'[i].run = stage_runs[i].run
  /\ stage_runs'[i].stage = stage_runs[i].stage
  /\ stage_runs'[i].input_versions = stage_runs[i].input_versions
  /\ stage_runs[i].status \in {"completed", "failed"} =>
       /\ stage_runs'[i].status = stage_runs[i].status
       /\ stage_runs'[i].output_version = stage_runs[i].output_version
  /\ stage_runs[i].used_fallback => stage_runs'[i].used_fallback

LEMMA NoRepeat ==
  ASSUME "repeat" \notin Faults
  PROVE  ~RepeatPush
  BY DEF RepeatPush

LEMMA RowKeepsOutcome ==
  ASSUME "repeat" \notin Faults, Typed, MessageInv, [Next]_vars
  PROVE  Rows \subseteq Rows' /\ \A i \in Rows : RowKept(i)
<1>1. repeated = {}
  BY DEF Typed, TypeOK
<1> QED
  BY <1>1, RowHistory DEF RowStep, RowKept

(* What stands for a dependency goes on standing for it.                   *)
LEMMA StandsStays ==
  ASSUME "repeat" \notin Faults, Typed, MessageInv, [Next]_vars, NEW r, NEW n, NEW v,
         Stands(r, n, v)
  PROVE  Stands(r, n, v)'
<1>1. request' = request /\ Rows \subseteq Rows' /\ \A i \in Rows : RowKept(i)
  BY RequestFixed, RowKeepsOutcome
<1> QED
  BY <1>1 DEF Stands, SettledBy, RowKept

LEMMA SettledStays ==
  ASSUME "repeat" \notin Faults, Typed, MessageInv, [Next]_vars, NEW r, NEW s,
         Settled(r, s)
  PROVE  Settled(r, s)'
<1>1. Rows \subseteq Rows' /\ \A i \in Rows : RowKept(i)
  BY RowKeepsOutcome
<1> QED
  BY <1>1 DEF Settled, SettledBy, RowKept

LEMMA WholeStays ==
  ASSUME "repeat" \notin Faults, Typed, MessageInv, [Next]_vars, NEW r, Whole(r)
  PROVE  Whole(r)'
  BY RequestFixed, SettledStays DEF Whole

(* What OutputsOf has a version for completed with that version.           *)
LEMMA OutputsKnown ==
  ASSUME NEW r, NEW n \in Known(OutputsOf(r))
  PROVE  \E j \in Rows : SettledBy(j, r, n) /\ stage_runs[j].output_version = OutputsOf(r)[n]
<1> DEFINE completed == WithStatus(r, "completed")
           i == CHOOSE k \in completed : stage_runs[k].stage = n
<1>1. n \in StagesOf(completed) /\ n \in Name
  BY DEF Known, OutputsOf
<1>2. i \in completed /\ stage_runs[i].stage = n
  BY <1>1 DEF StagesOf
<1>3. OutputsOf(r)[n] = stage_runs[i].output_version
  BY <1>1 DEF OutputsOf
<1> QED
  BY <1>2, <1>3 DEF WithStatus, StageRunsOf, SettledBy

LEMMA RangeIsStages ==
  ASSUME NEW q PROVE Reachable(q) \subseteq Stage
  BY DEF Reachable, ReachableFrom

LEMMA ExternalIsNoStage ==
  ASSUME NEW q PROVE ExternalDeps(q) \cap Stage = {}
  BY DEF ExternalDeps

(* A run that is not rejected stops after a stage, if at all.              *)
LEMMA StopAfterIsStage ==
  ASSUME NEW q, ~Rejected(q), q.stop_after \in Name
  PROVE  q.stop_after \in Stage
  BY RangeIsStages, NamesAssumption DEF Rejected

LEMMA OverridesType ==
  ASSUME Typed, NEW r \in Run
  PROVE  Overrides(request[r]) \in Versions
<1>1. request[r] \in RequestType
  BY RequestAssumption DEF Typed, TypeOK
<1> QED
  BY <1>1 DEF Overrides, NoVersions, Versions, RequestType

(* Resuming a run with the finished stages d leaves `done` in order.       *)
LEMMA ResumeDone ==
  ASSUME Typed, NEW r \in Run, NEW d \in Versions, Resume(r, d), ~Rejected(request[r]),
         request' = request, run' = r,
         \A s \in Stage \cap Known(d) :
           \E j \in Rows' : /\ SettledBy(j, r, s)'
                            /\ stage_runs'[j].used_fallback
                                 \/ stage_runs'[j].output_version = d[s]
  PROVE  DoneInv'
<1>1. CASE request[r].stop_after \in Known(d)
  <2>1. pc' = "complete"
    BY <1>1 DEF Resume
  <2>2. request[r].stop_after \in Stage \cap Known(d)
    BY <1>1, StopAfterIsStage DEF Known
  <2>3. Settled(r, request[r].stop_after)'
    BY <2>2 DEF Settled
  <2> QED
    BY <2>1, <2>2, <2>3 DEF DoneInv, Whole
<1>2. CASE request[r].stop_after \notin Known(d)
  <2> DEFINE pins == Overrides(request[r])
  <2>1. done' = Update(d, pins) /\ pc' \in {"external", "dispatch"}
        /\ external' = ExternalDeps(request[r]) \ Known(done')
    BY <1>2 DEF Resume
  <2>2. Overrides(request[r])' = pins
    OBVIOUS
  <2>3. external' \cap (Stage \cup Known(pins)) = {}
    <3>1. Known(pins) \subseteq Known(done')
      BY <2>1 DEF Known, Update
    <3>2. ExternalDeps(request[r]) \cap Stage = {}
      BY ExternalIsNoStage
    <3> HIDE DEF pins
    <3> QED
      BY <2>1, <3>1, <3>2
  <2>4. ASSUME NEW n \in Known(done') \cap (Stage \cup Known(pins))
        PROVE  Stands(r, n, done[n])'
    <3>1. CASE n \in Known(pins)
      <4>1. done'[n] = pins[n]
        BY <2>1, <3>1 DEF Known, Update
      <4> QED
        BY <2>2, <3>1, <4>1 DEF Stands
    <3>2. CASE n \notin Known(pins)
      <4>1. n \in Stage \cap Known(d) /\ done'[n] = d[n]
        BY <2>1, <2>4, <3>2 DEF Known, Update
      <4>2. \E k \in Rows' : /\ SettledBy(k, r, n)'
                             /\ stage_runs'[k].used_fallback
                                  \/ stage_runs'[k].output_version = done'[n]
        BY <4>1
      <4> QED
        BY <2>2, <3>2, <4>2 DEF Stands
    <3> QED
      BY <3>1, <3>2
  <2>5. Known(Overrides(request[run]))' = Known(pins)
    BY <2>2 DEF Known
  <2> HIDE DEF pins
  <2> QED
    BY <2>1, <2>3, <2>4, <2>5 DEF DoneInv
<1> QED
  BY <1>1, <1>2

(* What a step of anyone but the scheduler leaves alone.                   *)
LEMMA TickUnchanged ==
  ASSUME (\E w \in Worker : Work(w) \/ LoseMessage(w)) \/ Clients \/ UNCHANGED vars
  PROVE  UNCHANGED <<pc, run, done, failure, external, status>> \/ UNCHANGED vars
<1>1. CASE \E w \in Worker : Work(w) \/ LoseMessage(w)
  BY <1>1 DEF Work, Pop, ReportStart, Execute, ExecuteFails, Report, LoseMessage,
     tickVars, localVars, runVars
<1>2. CASE Clients
  BY <1>2 DEF Clients, RequestCancel, WriteCancel, Inject, PromoteVersion,
     tickVars, localVars, runVars
<1> QED
  BY <1>1, <1>2

(* A row that failed stays a failed row of its run.                        *)
LEMMA FailedStays ==
  ASSUME "repeat" \notin Faults, Typed, MessageInv, [Next]_vars, NEW r,
         NEW i \in WithStatus(r, "failed")
  PROVE  i \in WithStatus(r, "failed")'
<1>1. i \in Rows /\ stage_runs[i].run = r /\ stage_runs[i].status = "failed"
  BY DEF WithStatus, StageRunsOf
<1>2. i \in Rows' /\ stage_runs'[i].run = r /\ stage_runs'[i].status = "failed"
  BY <1>1, RowKeepsOutcome DEF RowKept
<1> QED
  BY <1>2 DEF WithStatus, StageRunsOf

LEMMA NextFailure ==
  ASSUME "repeat" \notin Faults
  PROVE  Typed /\ MessageInv /\ FailureInv /\ [Next]_vars => FailureInv'
<1> SUFFICES ASSUME Typed, MessageInv, FailureInv, [Next]_vars PROVE FailureInv'
  OBVIOUS
<1>1. CASE pc' \notin {"failure", "mark_fallback"}
  BY <1>1 DEF FailureInv
<1>2. ASSUME NEW r \in Run, ReadStageRuns(r), pc' = "failure" PROVE FailureInv'
  <2>1. failure' \in WithStatus(r, "failed") /\ run' = r
    BY <1>2 DEF ReadStageRuns, Resume
  <2>2. failure' \in WithStatus(r, "failed")'
    BY <2>1, FailedStays
  <2> QED
    BY <1>2, <2>1, <2>2 DEF FailureInv, WithStatus, StageRunsOf
<1>3. CASE FallBack
  <2>1. /\ pc = "failure" /\ run' = run /\ failure' = failure
        /\ EffectiveOnFailure(request[run]) = "fallback"
    BY <1>3 DEF FallBack
  <2>2. failure \in WithStatus(run, "failed")'
    BY <2>1, FailedStays DEF FailureInv
  <2> QED
    BY <2>1, <2>2, RequestFixed DEF FailureInv, WithStatus, StageRunsOf
<1>4. CASE (\E w \in Worker : Work(w) \/ LoseMessage(w)) \/ Clients \/ UNCHANGED vars
  <2>1. pc' = pc /\ run' = run /\ failure' = failure
    BY <1>4, TickUnchanged DEF vars, tickVars, localVars
  <2>2. pc \in {"failure", "mark_fallback"} => failure \in WithStatus(run, "failed")'
    BY <2>1, FailedStays DEF FailureInv
  <2> QED
    BY <2>1, <2>2, RequestFixed DEF FailureInv, WithStatus, StageRunsOf
<1>5. CASE AbortTick \/ (Scheduler /\ ~FallBack /\ ~\E r \in Run : ReadStageRuns(r))
  <2>1. pc' \notin {"failure", "mark_fallback"}
    BY <1>5 DEF AbortTick, Scheduler, BeginTick, EndTick, CancelRun, RejectRun, SkipRun, Halt,
       MarkUsedFallback, Resume, ResolveExternal, FailExternal, CreateStageRun,
       EnqueueStageRun, MarkRunning, KeepStatus, Settle, CompleteRun, FailRun, LeaveRun
  <2> QED
    BY <2>1, <1>1
<1>6. ASSUME NEW r \in Run, ReadStageRuns(r), pc' = "mark_fallback" PROVE FALSE
  BY <1>6 DEF ReadStageRuns, Resume
<1> QED
  BY <1>1, <1>2, <1>3, <1>4, <1>5, <1>6, NoRepeat DEF Next, Scheduler

-----------------------------------------------------------------------------
(* `done`.                                                                 *)

LEMMA ReadDone ==
  ASSUME Typed, NEW r \in Run, ReadStageRuns(r)
  PROVE  DoneInv'
<1> DEFINE d == OutputsOf(r)
<1>1. d \in Versions
  BY OutputsType DEF Typed, TypeOK
<1>2. UNCHANGED <<stage_runs, request>> /\ run' = r /\ ~Rejected(request[r])
  BY DEF ReadStageRuns, runVars
<1>3. \A s \in Known(d) :
        \E j \in Rows : SettledBy(j, r, s) /\ stage_runs[j].output_version = d[s]
  BY OutputsKnown
<1>4. \A s \in Known(d) :
        \E j \in Rows' : SettledBy(j, r, s)' /\ stage_runs'[j].output_version = d[s]
  BY <1>2, <1>3 DEF SettledBy, Rows
<1>5. CASE WithStatus(r, "failed") = {}
  <2>1. Resume(r, d)
    BY <1>5 DEF ReadStageRuns
  <2> HIDE DEF d
  <2> QED
    BY <1>1, <1>2, <1>4, <2>1, ResumeDone
<1>6. CASE WithStatus(r, "failed") # {}
  <2>1. pc' = "failure" /\ done' = d
    BY <1>6 DEF ReadStageRuns
  <2>2. Known(done)' = Known(d)
    BY <2>1 DEF Known
  <2> HIDE DEF d
  <2> QED
    BY <1>2, <1>4, <2>1, <2>2 DEF DoneInv
<1> QED
  BY <1>5, <1>6

LEMMA MarkDone ==
  ASSUME "repeat" \notin Faults, Typed, MessageInv, SnapshotInv, FailureInv, DoneInv,
         MarkUsedFallback, [Next]_vars
  PROVE  DoneInv'
<1>1. /\ run \in Run /\ run' = run /\ done \in Versions /\ request' = request
      /\ Resume(run, done) /\ ~Rejected(request[run])
  BY DEF MarkUsedFallback, Typed, TypeOK, HandlesOK, InLoop, SnapshotInv, runVars
<1>2. Rows' = Rows /\ \A i \in Rows : RowKept(i)
  BY RowKeepsOutcome, SameRows DEF MarkUsedFallback, CreateStageRun
<1>3. /\ failure \in Rows /\ stage_runs[failure].run = run
      /\ stage_runs'[failure].used_fallback
  <2>1. stage_runs[failure] \in StageRun /\ failure \in Rows
    BY RowType DEF MarkUsedFallback, Typed, TypeOK, HandlesOK
  <2>2. stage_runs'[failure].used_fallback
    BY <2>1, LenProperties DEF MarkUsedFallback, StageRun, Rows, Typed, TypeOK
  <2> QED
    BY <2>1, <2>2 DEF FailureInv, MarkUsedFallback, WithStatus, StageRunsOf
<1>4. ASSUME NEW s \in Stage \cap Known(done)
      PROVE  \E j \in Rows' : /\ SettledBy(j, run, s)'
                              /\ stage_runs'[j].used_fallback
                                   \/ stage_runs'[j].output_version = done[s]
  <2>1. CASE s = stage_runs[failure].stage
    BY <1>1, <1>2, <1>3, <2>1 DEF SettledBy, RowKept
  <2>2. CASE s # stage_runs[failure].stage
    <3>1. PICK j \in Rows : /\ SettledBy(j, run, s)
                            /\ stage_runs[j].used_fallback
                                 \/ stage_runs[j].output_version = done[s]
      BY <2>2 DEF DoneInv, MarkUsedFallback
    <3> QED
      BY <1>1, <1>2, <3>1 DEF SettledBy, RowKept
  <2> QED
    BY <2>1, <2>2
<1> QED
  BY <1>1, <1>4, ResumeDone

(* Every dependency that `done` knows stands, so a run all of whose stages *)
(* it knows is whole.                                                      *)
LEMMA KnownIsWhole ==
  ASSUME DoneInv, pc = "dispatch", Reachable(request[run]) \subseteq Known(done)
  PROVE  Whole(run)
<1>1. ASSUME NEW s \in Reachable(request[run])
      PROVE  Settled(run, s) \/ s \in Known(Overrides(request[run]))
  <2>1. s \in Known(done) \cap Stage
    BY RangeIsStages
  <2>2. Stands(run, s, done[s])
    BY <2>1 DEF DoneInv
  <2> QED
    BY <2>2 DEF Stands, Settled
<1> QED
  BY <1>1 DEF Whole

(* A step that moves neither the loop body nor `done`.                     *)
LEMMA SameDone ==
  ASSUME "repeat" \notin Faults, Typed, MessageInv, FailureInv, DoneInv, [Next]_vars,
         run' = run, done' = done,
         failure' = failure, external' = external,
         \/ pc' = pc
         \/ pc \in {"external", "dispatch", "enqueue"} /\ pc' \in {"dispatch", "enqueue"}
  PROVE  DoneInv'
<1>1. request' = request /\ Rows \subseteq Rows' /\ \A i \in Rows : RowKept(i)
  BY RequestFixed, RowKeepsOutcome
<1>2. ASSUME NEW n, NEW v, Stands(run, n, v) PROVE Stands(run, n, v)'
  BY <1>2, StandsStays
<1>3. pc' = "complete" => Whole(run)'
  BY WholeStays DEF DoneInv
<1>4. ASSUME pc' \in {"failure", "mark_fallback"}, NEW s \in Stage \cap Known(done)
      PROVE  \/ pc' = "mark_fallback" /\ s = stage_runs'[failure].stage
             \/ \E j \in Rows' : /\ SettledBy(j, run, s)'
                                 /\ stage_runs'[j].used_fallback
                                      \/ stage_runs'[j].output_version = done[s]
  <2>1. pc' = pc
    BY <1>4
  <2>2. CASE pc = "mark_fallback" /\ s = stage_runs[failure].stage
    <3>1. failure \in Rows
      BY <2>2 DEF Typed, HandlesOK
    <3> QED
      BY <1>1, <2>1, <2>2, <3>1 DEF RowKept
  <2>3. CASE \E j \in Rows : /\ SettledBy(j, run, s)
                             /\ stage_runs[j].used_fallback
                                  \/ stage_runs[j].output_version = done[s]
    BY <1>1, <2>3 DEF SettledBy, RowKept
  <2> QED
    BY <1>4, <2>1, <2>2, <2>3 DEF DoneInv
<1>5. Known(Overrides(request[run]))' = Known(Overrides(request[run])) /\ Known(done)' = Known(done)
  BY <1>1 DEF Known, Overrides
<1>6. pc' = "external" => external' \cap (Stage \cup Known(Overrides(request[run]))') = {}
  BY <1>5 DEF DoneInv
<1>7. pc' \in {"external", "dispatch", "enqueue"} =>
        \A n \in Known(done)' \cap (Stage \cup Known(Overrides(request[run]))') :
          Stands(run, n, done[n])'
  BY <1>2, <1>5 DEF DoneInv
<1>8. pc' \in {"failure", "mark_fallback"} =>
        \A s \in Stage \cap Known(done)' :
           \/ pc' = "mark_fallback" /\ s = stage_runs'[failure'].stage
           \/ \E j \in Rows' : /\ SettledBy(j, run, s)'
                               /\ stage_runs'[j].used_fallback
                                    \/ stage_runs'[j].output_version = done'[s]
  BY <1>4, <1>5
<1> QED
  BY <1>3, <1>6, <1>7, <1>8 DEF DoneInv

LEMMA NextDone ==
  ASSUME "repeat" \notin Faults
  PROVE  Typed /\ MessageInv /\ SnapshotInv /\ FailureInv /\ DoneInv /\ [Next]_vars => DoneInv'
<1> SUFFICES ASSUME Typed, MessageInv, SnapshotInv, FailureInv, DoneInv, [Next]_vars
             PROVE  DoneInv'
  OBVIOUS
<1>1. CASE pc' \in {"idle", "next", "fail"}
  BY <1>1 DEF DoneInv
<1>2. ASSUME NEW r \in Run, ReadStageRuns(r) PROVE DoneInv'
  BY <1>2, ReadDone
<1>3. CASE FallBack
  <2> DEFINE s == stage_runs[failure].stage
  <2>1. /\ pc = "failure" /\ pc' = "mark_fallback" /\ UNCHANGED <<stage_runs, run, failure>>
        /\ done' = [done EXCEPT ![s] = current[s]]
    BY <1>3 DEF FallBack
  <2>2. done \in [Name -> Nat]
    BY DEF Typed, TypeOK, Versions
  <2>3. \A n \in Name \ {s} : done'[n] = done[n]
    BY <2>1, <2>2
  <2>4. ASSUME NEW n \in Stage \cap Known(done'), n # s
        PROVE  \E j \in Rows : /\ SettledBy(j, run, n)
                               /\ stage_runs[j].used_fallback
                                    \/ stage_runs[j].output_version = done'[n]
    BY <2>1, <2>3, <2>4 DEF DoneInv, Known
  <2>5. ASSUME NEW n \in Stage \cap Known(done'), n # s
        PROVE  \E j \in Rows' : /\ SettledBy(j, run, n)'
                                /\ stage_runs'[j].used_fallback
                                     \/ stage_runs'[j].output_version = done'[n]
    BY <2>1, <2>4, <2>5 DEF SettledBy, Rows
  <2>6. Known(done)' = Known(done')
    BY DEF Known
  <2> QED
    BY <2>1, <2>5, <2>6 DEF DoneInv
<1>4. CASE MarkUsedFallback
  BY <1>4, MarkDone
<1>5. ASSUME NEW n \in Name, ResolveExternal(n) PROVE DoneInv'
  <2>1. /\ pc = "external" /\ pc' \in {"external", "dispatch"}
        /\ UNCHANGED <<request, stage_runs, run>>
        /\ done' = [done EXCEPT ![n] = current[n]] /\ external' = external \ {n}
        /\ n \in external
    BY <1>5 DEF ResolveExternal, runVars
  <2>2. done \in [Name -> Nat]
    BY DEF Typed, TypeOK, Versions
  <2>3. \A m \in Name \ {n} : done'[m] = done[m]
    BY <2>1, <2>2
  <2>4. /\ Known(done)' \subseteq Known(done) \cup {n}
        /\ Known(Overrides(request[run]))' = Known(Overrides(request[run]))
    BY <2>1, <2>3 DEF Known, Overrides
  <2>5. n \notin Stage \cup Known(Overrides(request[run]))
    BY <2>1 DEF DoneInv
  <2>6. ASSUME NEW m \in Known(done)' \cap (Stage \cup Known(Overrides(request[run])))
        PROVE  Stands(run, m, done[m])'
    <3>1. Stands(run, m, done[m]) /\ done'[m] = done[m]
      BY <2>1, <2>3, <2>4, <2>5 DEF DoneInv, Known
    <3> QED
      BY <2>1, <3>1 DEF Stands, SettledBy, Rows, Overrides, Known
  <2> QED
    BY <2>1, <2>4, <2>6 DEF DoneInv
<1>6. ASSUME NEW s \in Stage, CreateStageRun(s) PROVE DoneInv'
  BY <1>6, SameDone DEF CreateStageRun, localVars
<1>7. CASE EnqueueStageRun
  BY <1>7, SameDone DEF EnqueueStageRun
<1>8. CASE (MarkRunning \/ KeepStatus) /\ pc' = "complete"
  <2>1. /\ pc = "dispatch" /\ run' = run
        /\ Reachable(request[run]) \subseteq Known(done)
    BY <1>8 DEF MarkRunning, KeepStatus, Settle, LeaveRun, localVars
  <2>2. Whole(run)
    BY <2>1, KnownIsWhole
  <2>3. Whole(run)'
    BY <2>1, <2>2, WholeStays
  <2> QED
    BY <1>8, <2>3 DEF DoneInv
<1>9. CASE (\E w \in Worker : Work(w) \/ LoseMessage(w)) \/ Clients \/ UNCHANGED vars
  <2>1. UNCHANGED <<pc, run, done, failure, external>>
    BY <1>9, TickUnchanged DEF vars, tickVars, localVars
  <2> QED
    BY <2>1, SameDone
<1>10. CASE BeginTick \/ EndTick \/ \E r \in Run : CancelRun(r) \/ RejectRun(r)
  BY <1>10, <1>1 DEF BeginTick, EndTick, CancelRun, RejectRun, SkipRun
<1>11. CASE Halt \/ (\E n \in Name : FailExternal(n)) \/ CompleteRun \/ FailRun \/ AbortTick
  BY <1>11, <1>1 DEF Halt, FailExternal, CompleteRun, FailRun, AbortTick, LeaveRun
<1>12. CASE (MarkRunning \/ KeepStatus) /\ pc' # "complete"
  BY <1>12, <1>1 DEF MarkRunning, KeepStatus, Settle, LeaveRun
<1> QED
  BY <1>2, <1>3, <1>4, <1>5, <1>6, <1>7, <1>8, <1>9, <1>10, <1>11, <1>12, NoRepeat
  DEF Next, Scheduler

-----------------------------------------------------------------------------
(* What follows for rows and runs.                                         *)

(* Only MarkUsedFallback sets used_fallback on an existing row.            *)
LEMMA FallbackKept ==
  ASSUME Typed, MessageInv, [Next]_vars, NEW i \in Rows, stage_runs'[i].used_fallback,
         ~stage_runs[i].used_fallback
  PROVE  MarkUsedFallback /\ i = failure
<1> USE DEF Typed, TypeOK, HandlesOK, Rows
<1>1. CASE Quiet
  BY <1>1 DEF Quiet
<1>2. CASE MarkUsedFallback
  BY <1>2, LenProperties DEF MarkUsedFallback
<1>3. CASE EnqueueStageRun \/ RepeatPush
  BY <1>3 DEF EnqueueStageRun, RepeatPush
<1>4. ASSUME NEW s \in Stage, CreateStageRun(s) PROVE FALSE
  BY <1>4, NewRow
<1>5. ASSUME NEW w \in Worker, Work(w) \/ LoseMessage(w) PROVE FALSE
  <2>1. stage_runs[i] \in StageRun
    BY RowType
  <2>2. CASE Pop(w) \/ Execute(w) \/ ExecuteFails(w) \/ LoseMessage(w)
    BY <2>2 DEF Pop, Execute, ExecuteFails, LoseMessage
  <2>3. CASE ReportStart(w)
    <3>1. stage_runs' = [stage_runs EXCEPT ![job[w]] = [@ EXCEPT !.status = "running"]]
      BY <2>3 DEF ReportStart
    <3>2. CASE i # job[w]
      BY <3>1, <3>2
    <3>3. CASE i = job[w]
      <4>1. stage_runs'[i] = [stage_runs[i] EXCEPT !.status = "running"]
        BY <3>1, <3>3, LenProperties
      <4> QED
        BY <2>1, <4>1 DEF StageRun
    <3> QED
      BY <3>2, <3>3
  <2>4. CASE Report(w)
    <3>1. CASE i # job[w]
      BY <2>4, <3>1, LenProperties DEF Report
    <3>2. CASE i = job[w]
      <4>1. CASE result[w] # 0
        <5>1. stage_runs'[i] = [stage_runs[i] EXCEPT !.status = "completed",
                                                     !.output_version = result[w]]
          BY <2>4, <3>2, <4>1, LenProperties DEF Report
        <5> QED
          BY <2>1, <5>1 DEF StageRun
      <4>2. CASE result[w] = 0
        <5>1. stage_runs'[i] = [stage_runs[i] EXCEPT !.status = "failed"]
          BY <2>4, <3>2, <4>2, LenProperties DEF Report
        <5> QED
          BY <2>1, <5>1 DEF StageRun
      <4> QED
        BY <4>1, <4>2
    <3> QED
      BY <3>1, <3>2
  <2> QED
    BY <1>5, <2>2, <2>3, <2>4 DEF Work
<1> QED
  BY QuietOrLoud, <1>1, <1>2, <1>3, <1>4, <1>5 DEF Loud

LEMMA NextFallback ==
  ASSUME "repeat" \notin Faults
  PROVE  Typed /\ MessageInv /\ FailureInv /\ FallbackOnlyWhenAllowed /\ [Next]_vars
           => FallbackOnlyWhenAllowed'
<1> SUFFICES ASSUME Typed, MessageInv, FailureInv, FallbackOnlyWhenAllowed, [Next]_vars,
                    NEW i \in Rows', stage_runs'[i].used_fallback
             PROVE  /\ stage_runs'[i].status = "failed"
                    /\ EffectiveOnFailure(request'[stage_runs'[i].run]) = "fallback"
  BY DEF FallbackOnlyWhenAllowed
<1>1. ASSUME i \in Rows, stage_runs[i].status = "failed",
             EffectiveOnFailure(request[stage_runs[i].run]) = "fallback"
      PROVE  /\ stage_runs'[i].status = "failed"
             /\ EffectiveOnFailure(request'[stage_runs'[i].run]) = "fallback"
  BY <1>1, RequestFixed, RowKeepsOutcome DEF RowKept
<1>2. CASE i \in Rows /\ stage_runs[i].used_fallback
  BY <1>1, <1>2 DEF FallbackOnlyWhenAllowed
<1>3. CASE i \in Rows /\ ~stage_runs[i].used_fallback
  <2>1. MarkUsedFallback /\ i = failure
    BY <1>3, FallbackKept
  <2>2. /\ stage_runs[i].status = "failed"
        /\ EffectiveOnFailure(request[stage_runs[i].run]) = "fallback"
    BY <2>1 DEF MarkUsedFallback, FailureInv, WithStatus, StageRunsOf
  <2> QED
    BY <1>1, <1>3, <2>2
<1>4. CASE i \notin Rows
  <2>1. PICK s \in Stage : CreateStageRun(s)
    BY <1>4, SameRows
  <2>2. i = Len(stage_runs')
    BY <1>4, <2>1, NewRow
  <2> DEFINE versions == [n \in Name |-> IF n \in DependsOn[s] THEN done[n] ELSE 0]
             row(v) == [run |-> run, stage |-> s, input_versions |-> v,
                        status |-> "requested", output_version |-> 0,
                        used_fallback |-> FALSE]
  <2>3. stage_runs'[i] = row(versions)
    BY <2>1, <2>2, RowAppended
  <2>4. \A v : ~row(v).used_fallback
    OBVIOUS
  <2> HIDE DEF versions
  <2> QED
    BY <2>3, <2>4
<1> QED
  BY <1>2, <1>3, <1>4

LEMMA NextInputs ==
  ASSUME "repeat" \notin Faults
  PROVE  Typed /\ MessageInv /\ DoneInv /\ InputsFollowTheRun /\ [Next]_vars
           => InputsFollowTheRun'
<1> SUFFICES ASSUME Typed, MessageInv, DoneInv, InputsFollowTheRun, [Next]_vars,
                    NEW i \in Rows',
                    NEW n \in DependsOn[stage_runs'[i].stage] \cap
                                (Stage \cup Known(Overrides(request'[stage_runs'[i].run])))
             PROVE  Stands(stage_runs[i].run, n, stage_runs[i].input_versions[n])'
  BY DEF InputsFollowTheRun, Known
<1>1. request' = request
  BY RequestFixed
<1>2. CASE i \in Rows
  <2> DEFINE r == stage_runs[i].run
             v == stage_runs[i].input_versions[n]
  <2>1. /\ stage_runs'[i].run = r /\ stage_runs'[i].stage = stage_runs[i].stage
        /\ stage_runs'[i].input_versions[n] = v
    BY <1>2, RowKeepsOutcome DEF RowKept
  <2>2. Stands(r, n, v)
    BY <1>1, <1>2, <2>1 DEF InputsFollowTheRun
  <2>3. \A q, u : Stands(q, n, u) => Stands(q, n, u)'
    <3>1. ASSUME NEW q, NEW u, Stands(q, n, u) PROVE Stands(q, n, u)'
      BY <3>1, StandsStays
    <3> QED
      BY <3>1
  <2> HIDE DEF r, v
  <2> QED
    BY <2>1, <2>2, <2>3
<1>3. CASE i \notin Rows
  <2>1. PICK s \in Stage : CreateStageRun(s)
    BY <1>3, SameRows
  <2>2. i = Len(stage_runs')
    BY <1>3, <2>1, NewRow
  <2> DEFINE versions == [m \in Name |-> IF m \in DependsOn[s] THEN done[m] ELSE 0]
             row(f) == [run |-> run, stage |-> s, input_versions |-> f,
                        status |-> "requested", output_version |-> 0,
                        used_fallback |-> FALSE]
  <2>3. stage_runs'[i] = row(versions)
    BY <2>1, <2>2, RowAppended
  <2>4. \A f : row(f).run = run /\ row(f).stage = s /\ row(f).input_versions = f
    OBVIOUS
  <2>5. n \in DependsOn[s] /\ n \in Name
    <3> HIDE DEF versions
    <3> QED
      BY <2>3, <2>4, NamesAssumption
  <2>6. versions[n] = done[n] /\ n \in Known(done)
    BY <2>1, <2>5 DEF CreateStageRun, Ready
  <2> HIDE DEF versions
  <2>7. Stands(run, n, done[n])
    <3>1. stage_runs'[i].run = run
      <4> HIDE DEF row
      <4> QED
        BY <2>3, <2>4
    <3>2. n \in Stage \cup Known(Overrides(request[run]))
      BY <1>1, <3>1
    <3>3. pc = "dispatch"
      BY <2>1 DEF CreateStageRun
    <3> QED
      BY <2>6, <3>2, <3>3 DEF DoneInv
  <2>8. run' = run /\ done' = done
    BY <2>1 DEF CreateStageRun, localVars
  <2>9. \A q, u : Stands(q, n, u) => Stands(q, n, u)'
    <3>1. ASSUME NEW q, NEW u, Stands(q, n, u) PROVE Stands(q, n, u)'
      BY <3>1, StandsStays
    <3> QED
      BY <3>1
  <2> QED
    BY <2>3, <2>4, <2>6, <2>7, <2>9
<1> QED
  BY <1>2, <1>3

LEMMA NextWhole ==
  ASSUME "repeat" \notin Faults
  PROVE  Typed /\ MessageInv /\ DoneInv /\ CompletedRunIsWhole /\ [Next]_vars
           => CompletedRunIsWhole'
<1> SUFFICES ASSUME Typed, MessageInv, DoneInv, CompletedRunIsWhole, [Next]_vars,
                    NEW r \in Run, status'[r] = "completed"
             PROVE  Whole(r)'
  BY DEF CompletedRunIsWhole
<1> USE DEF Typed, TypeOK
<1>1. CASE status[r] = "completed"
  BY <1>1, WholeStays DEF CompletedRunIsWhole
<1>2. CASE status[r] # "completed" /\ CompleteRun
  <2>1. r = run /\ pc = "complete"
    BY <1>2 DEF CompleteRun, SetStatus
  <2> QED
    BY <2>1, WholeStays DEF DoneInv
<1>3. CASE status[r] # "completed" /\ ~CompleteRun
  <2>1. CASE (\E w \in Worker : Work(w) \/ LoseMessage(w)) \/ Clients \/ UNCHANGED vars
    BY <1>3, <2>1, TickUnchanged DEF vars, runVars
  <2>2. CASE Scheduler
    BY <1>3, <2>2 DEF Scheduler, BeginTick, EndTick, CancelRun, RejectRun, SkipRun,
       SetStatus, ReadStageRuns, FallBack, Halt, MarkUsedFallback, ResolveExternal,
       FailExternal, CreateStageRun, EnqueueStageRun, MarkRunning, KeepStatus, FailRun, runVars
  <2>3. CASE AbortTick
    BY <1>3, <2>3 DEF AbortTick, runVars
  <2> QED
    BY <2>1, <2>2, <2>3, NoRepeat DEF Next
<1> QED
  BY <1>1, <1>2, <1>3

-----------------------------------------------------------------------------
(* The whole inductive invariant.                                          *)

LEMMA InitOutcome == Init => OutcomeInv
<1> SUFFICES ASSUME Init PROVE OutcomeInv
  OBVIOUS
<1>1. Rows = {}
  BY EmptySeq DEF Init, Rows
<1> QED
  BY <1>1 DEF Init, OutcomeInv, FailureInv, DoneInv, FallbackOnlyWhenAllowed,
     InputsFollowTheRun, CompletedRunIsWhole

LEMMA InitReason == Init => ReasonInv
  BY DEF Init, ReasonInv

LEMMA NextReason ==
  ASSUME "repeat" \notin Faults
  PROVE  Typed /\ MessageInv /\ FailureInv /\ DoneInv /\ ReasonInv /\ [Next]_vars => ReasonInv'
<1> SUFFICES ASSUME Typed, MessageInv, FailureInv, DoneInv, ReasonInv, [Next]_vars
             PROVE  ReasonInv'
  OBVIOUS
<1>1. cancels' \subseteq cancel_requested'
  <2>1. CASE Scheduler
    BY <2>1 DEF Scheduler, BeginTick, EndTick, CancelRun, RejectRun, SkipRun,
       SetStatus, ReadStageRuns, FallBack, Halt, MarkUsedFallback, ResolveExternal,
       FailExternal, CreateStageRun, EnqueueStageRun, MarkRunning, KeepStatus, Settle,
       CompleteRun, FailRun, LeaveRun, runVars, ReasonInv
  <2>2. CASE AbortTick
    BY <2>2 DEF AbortTick
  <2>3. CASE \E w \in Worker : Work(w) \/ LoseMessage(w)
    BY <2>3 DEF Work, Pop, ReportStart, Execute, ExecuteFails, Report, LoseMessage,
       tickVars, runVars, ReasonInv
  <2>4. CASE Clients \/ UNCHANGED vars
    BY <2>4 DEF Clients, RequestCancel, WriteCancel, Inject, PromoteVersion, vars,
       tickVars, runVars, ReasonInv
  <2> QED
    BY <2>1, <2>2, <2>3, <2>4, NoRepeat DEF Next
<1>2. dispatched' => InLoop' /\ started' # {}
  <2>1. CASE \E r \in Run : CancelRun(r) \/ RejectRun(r) \/ ReadStageRuns(r)
    BY <2>1 DEF CancelRun, RejectRun, SkipRun, ReadStageRuns, localVars, ReasonInv, InLoop
  <2>2. CASE BeginTick \/ EndTick \/ FallBack \/ Halt \/ MarkUsedFallback
    BY <2>2 DEF BeginTick, EndTick, FallBack, Halt, MarkUsedFallback, Resume, localVars,
       ReasonInv, InLoop
  <2>3. CASE EnqueueStageRun
    BY <2>3 DEF EnqueueStageRun, InLoop
  <2>4. CASE \E n \in Name : ResolveExternal(n) \/ FailExternal(n)
    BY <2>4 DEF ResolveExternal, FailExternal, localVars, ReasonInv, InLoop
  <2>5. CASE \E s \in Stage : CreateStageRun(s)
    BY <2>5 DEF CreateStageRun, localVars, ReasonInv, InLoop
  <2>6. CASE MarkRunning \/ KeepStatus \/ CompleteRun \/ FailRun \/ AbortTick
    BY <2>6 DEF MarkRunning, KeepStatus, Settle, CompleteRun, FailRun, AbortTick, LeaveRun,
       ClearLocals, localVars, ReasonInv, InLoop
  <2>7. CASE (\E w \in Worker : Work(w) \/ LoseMessage(w)) \/ Clients \/ UNCHANGED vars
    <3>1. UNCHANGED <<pc, started, dispatched>>
      BY <2>7 DEF Work, Pop, ReportStart, Execute, ExecuteFails, Report, LoseMessage,
         Clients, RequestCancel, WriteCancel, Inject, PromoteVersion, vars, tickVars, localVars
    <3> QED
      BY <3>1 DEF ReasonInv, InLoop
  <2> QED
    BY <2>1, <2>2, <2>3, <2>4, <2>5, <2>6, <2>7, NoRepeat DEF Next, Scheduler
<1>3. pc' = "external" => external' \subseteq ExternalDeps(request[run])'
  <2>1. request' = request
    BY RequestFixed
  <2>2. ASSUME NEW r \in Run, ReadStageRuns(r), pc' = "external"
        PROVE  external' \subseteq ExternalDeps(request[run])'
    BY <2>1, <2>2 DEF ReadStageRuns, Resume
  <2>3. CASE MarkUsedFallback /\ pc' = "external"
    BY <2>1, <2>3 DEF MarkUsedFallback, Resume
  <2>4. ASSUME NEW n \in Name, ResolveExternal(n), pc' = "external"
        PROVE  external' \subseteq ExternalDeps(request[run])'
    BY <2>1, <2>4 DEF ResolveExternal, ReasonInv
  <2>5. CASE (\E w \in Worker : Work(w) \/ LoseMessage(w)) \/ Clients \/ UNCHANGED vars
    <3>1. UNCHANGED <<pc, run, external>>
      BY <2>5, TickUnchanged DEF vars, tickVars, localVars
    <3> QED
      BY <2>1, <3>1 DEF ReasonInv
  <2>6. CASE AbortTick \/ (Scheduler /\ ~MarkUsedFallback
                             /\ (~\E r \in Run : ReadStageRuns(r))
                             /\ ~\E n \in Name : ResolveExternal(n))
    <3>1. pc' # "external"
      BY <2>6 DEF AbortTick, Scheduler, BeginTick, EndTick, CancelRun, RejectRun, SkipRun,
         FallBack, Halt, FailExternal, CreateStageRun, EnqueueStageRun, MarkRunning,
         KeepStatus, Settle, CompleteRun, FailRun, LeaveRun
    <3> QED
      BY <3>1
  <2> QED
    BY <2>2, <2>3, <2>4, <2>5, <2>6, NoRepeat DEF Next, Scheduler
<1>4. pc' = "fail" =>
        \/ WithStatus(run, "failed")' # {}
        \/ \E n \in ExternalDeps(request[run])' : n \notin Known(Overrides(request[run]))'
  <2>1. request' = request
    BY RequestFixed
  <2>2. CASE Halt
    BY <2>2, FailedStays DEF Halt, FailureInv, localVars
  <2>3. ASSUME NEW n \in Name, FailExternal(n) 
        PROVE \E m \in ExternalDeps(request[run])' : m \notin Known(Overrides(request[run]))'
    <3>1. /\ n \in ExternalDeps(request[run]) /\ n \notin Known(Overrides(request[run]))
          /\ run' = run
      BY <2>3 DEF FailExternal, DoneInv, ReasonInv, localVars
    <3> QED
      BY <2>1, <3>1 DEF Known, Overrides
  <2>4. CASE (\E w \in Worker : Work(w) \/ LoseMessage(w)) \/ Clients \/ UNCHANGED vars
    <3>1. pc' = pc /\ run' = run
      BY <2>4, TickUnchanged DEF vars, tickVars, localVars
    <3>2. CASE WithStatus(run, "failed") # {}
      BY <3>1, <3>2, FailedStays
    <3>3. CASE \E n \in ExternalDeps(request[run]) : n \notin Known(Overrides(request[run]))
      BY <2>1, <3>1, <3>3 DEF Known, Overrides
    <3> QED
      BY <3>1, <3>2, <3>3 DEF ReasonInv
  <2>5. CASE AbortTick \/ (Scheduler /\ ~Halt /\ ~\E n \in Name : FailExternal(n))
    <3>1. pc' # "fail"
      BY <2>5 DEF AbortTick, Scheduler, BeginTick, EndTick, CancelRun, RejectRun, SkipRun,
         ReadStageRuns, Resume, FallBack, MarkUsedFallback, ResolveExternal, CreateStageRun,
         EnqueueStageRun, MarkRunning, KeepStatus, Settle, CompleteRun, FailRun, LeaveRun
    <3> QED
      BY <3>1
  <2> QED
    BY <2>2, <2>3, <2>4, <2>5, NoRepeat DEF Next, Scheduler
<1> QED
  BY <1>1, <1>2, <1>3, <1>4 DEF ReasonInv

LEMMA InvInductive ==
  ASSUME "repeat" \notin Faults
  PROVE  /\ Init => Typed /\ Inv
         /\ Typed /\ Inv /\ [Next]_vars => (Typed /\ Inv)'
<1>1. Init => Typed /\ Inv
  BY InitTyped, InitMessages, InitDispatch, InitOutcome, InitReason DEF Inv, Typed
<1>2. ASSUME Typed, Inv, [Next]_vars PROVE (Typed /\ Inv)'
  <2>1. Typed'
    BY <1>2, NextTyped
  <2>2. MessageInv' /\ DispatchInv'
    BY <1>2, NextMessages, NextDispatch DEF Inv
  <2>3. OutcomeInv'
    BY <1>2, NextFailure, NextDone, NextFallback, NextInputs, NextWhole
    DEF Inv, DispatchInv, OutcomeInv
  <2>4. ReasonInv'
    BY <1>2, NextReason DEF Inv, OutcomeInv
  <2> QED
    BY <2>1, <2>2, <2>3, <2>4 DEF Inv, Typed
<1> QED
  BY <1>1, <1>2

(* The strengthening from which the theorems follow holds in every state,  *)
(* where no message is pushed twice.                                       *)
THEOREM InvariantHolds ==
  ASSUME "repeat" \notin Faults
  PROVE  Spec => []Inv
  BY InvInductive, PTL DEF Spec

(* Every variable has its type, also where messages are pushed twice.      *)
THEOREM TypesHold == Spec => []TypeOK
<1>1. Typed => TypeOK
  BY DEF Typed
<1> QED
  BY <1>1, TypeCorrect, PTL

(* A stage reads what its own run's stages produced or were replaced by,   *)
(* or what the request pins, however ticks, workers and clients            *)
(* interleave, where no message is pushed twice: the report of a second    *)
(* copy would replace the outcome that was read.                           *)
THEOREM InputsAreTheRunsOwn ==
  ASSUME "repeat" \notin Faults
  PROVE  Spec => []InputsFollowTheRun
<1>1. Inv => InputsFollowTheRun
  BY DEF Inv, OutcomeInv
<1> QED
  BY <1>1, InvInductive, PTL DEF Spec

(* A run is completed only with its stop_after settled, or every stage of  *)
(* its range settled or pinned, where no message is pushed twice: a second *)
(* copy takes a row of a completed run back to running.                    *)
THEOREM CompletedMeansWhole ==
  ASSUME "repeat" \notin Faults
  PROVE  Spec => []CompletedRunIsWhole
<1>1. Inv => CompletedRunIsWhole
  BY DEF Inv, OutcomeInv
<1> QED
  BY <1>1, InvInductive, PTL DEF Spec

(* A failure is replaced only where the effective policy allows it, and    *)
(* the replaced row stays failed where no message is pushed twice.         *)
THEOREM FallbackIsAllowed ==
  ASSUME "repeat" \notin Faults
  PROVE  Spec => []FallbackOnlyWhenAllowed
<1>1. Inv => FallbackOnlyWhenAllowed
  BY DEF Inv, OutcomeInv
<1> QED
  BY <1>1, InvInductive, PTL DEF Spec

-----------------------------------------------------------------------------
(* What a run's row of a stage says of its progress.                       *)

RowProgress(i) ==
  IF stage_runs[i].status = "completed" THEN "completed"
  ELSE IF stage_runs[i].status # "failed" THEN "dispatched"
  ELSE IF stage_runs[i].used_fallback THEN "replaced" ELSE "failed"

LEMMA ProgressIsRow ==
  DispatchedOnce =>
    \A i \in Rows : ProgressOf(stage_runs[i].run, stage_runs[i].stage) = RowProgress(i)
<1> SUFFICES ASSUME DispatchedOnce, NEW i \in Rows
             PROVE  ProgressOf(stage_runs[i].run, stage_runs[i].stage) = RowProgress(i)
  OBVIOUS
<1> DEFINE r == stage_runs[i].run
           s == stage_runs[i].stage
           I == {j \in StageRunsOf(r) : stage_runs[j].stage = s}
<1>1. I = {i}
  BY DEF StageRunsOf, DispatchedOnce
<1>2. ~\A j \in I : I # {j}
  BY <1>1
<1>3. (CHOOSE j \in I : TRUE) = i
  BY <1>1
<1> QED
  BY <1>1, <1>2, <1>3 DEF ProgressOf, RowProgress

LEMMA ProgressIsRowNext ==
  (DispatchedOnce =>
     \A i \in Rows : ProgressOf(stage_runs[i].run, stage_runs[i].stage) = RowProgress(i))'
  BY ProgressIsRow, PTL

LEMMA NoRowWaits ==
  ASSUME NEW r, NEW s,
         \A i \in Rows : ~(stage_runs[i].run = r /\ stage_runs[i].stage = s)
  PROVE  ProgressOf(r, s) = "waiting"
<1>1. {j \in StageRunsOf(r) : stage_runs[j].stage = s} = {}
  BY DEF StageRunsOf
<1> QED
  BY <1>1 DEF ProgressOf

(* Where a step leaves every row's part in this alone, it leaves all       *)
(* progress alone but that of the rows it changes.                         *)
LEMMA ProgressFrame ==
  ASSUME "repeat" \notin Faults, Typed, MessageInv, DispatchedOnce, DispatchedOnce',
         [Next]_vars,
         NEW r, NEW s,
         \A i \in Rows' : stage_runs'[i].run = r /\ stage_runs'[i].stage = s =>
            i \in Rows /\ RowProgress(i)' = RowProgress(i)
  PROVE  ProgressOf(r, s)' = ProgressOf(r, s)
<1>1. Rows \subseteq Rows' /\ \A i \in Rows : RowKept(i)
  BY RowKeepsOutcome
<1>2. CASE \E i \in Rows : stage_runs[i].run = r /\ stage_runs[i].stage = s
  <2>1. PICK i \in Rows : stage_runs[i].run = r /\ stage_runs[i].stage = s
    BY <1>2
  <2>2. i \in Rows' /\ stage_runs'[i].run = r /\ stage_runs'[i].stage = s
    BY <1>1, <2>1 DEF RowKept
  <2>3. ProgressOf(r, s) = RowProgress(i)
    BY <2>1, ProgressIsRow
  <2>4. (DispatchedOnce =>
           \A j \in Rows : ProgressOf(stage_runs[j].run, stage_runs[j].stage) = RowProgress(j))'
    BY ProgressIsRowNext
  <2>5. ProgressOf(r, s)' = RowProgress(i)'
    BY <2>2, <2>4
  <2> QED
    BY <2>2, <2>3, <2>5
<1>3. CASE \A i \in Rows : ~(stage_runs[i].run = r /\ stage_runs[i].stage = s)
  <2>1. \A i \in Rows' : ~(stage_runs'[i].run = r /\ stage_runs'[i].stage = s)
    BY <1>1, <1>3 DEF RowKept
  <2>2. ProgressOf(r, s) = "waiting"
    BY <1>3, NoRowWaits
  <2>3. {j \in StageRunsOf(r)' : stage_runs'[j].stage = s} = {}
    BY <2>1 DEF StageRunsOf
  <2>4. ProgressOf(r, s)' = "waiting"
    BY <2>3 DEF ProgressOf
  <2> QED
    BY <2>2, <2>4
<1> QED
  BY <1>2, <1>3

-----------------------------------------------------------------------------
(* The two specifications read a workflow and a request the same way.      *)

LEMMA SameWorkflow ==
  ASSUME NEW q
  PROVE  /\ Lifecycle!Reachable(q) = Reachable(q)
         /\ Lifecycle!EffectiveOnFailure(q) = EffectiveOnFailure(q)
         /\ Lifecycle!Overrides(q) = Overrides(q)
         /\ Lifecycle!Rejected(q) = Rejected(q)
         /\ Lifecycle!ExternalDeps(q) = ExternalDeps(q)
         /\ Lifecycle!Active = Active
         /\ \A f : Lifecycle!Known(f) = Known(f)
<1>1. \A f : Lifecycle!Known(f) = Known(f)
  BY DEF Lifecycle!Known, Known
<1>2. Lifecycle!Reachable(q) = Reachable(q)
  BY DEF Lifecycle!Reachable, Reachable, Lifecycle!ReachableFrom, ReachableFrom
<1>3. Lifecycle!EffectiveOnFailure(q) = EffectiveOnFailure(q)
  BY DEF Lifecycle!EffectiveOnFailure, EffectiveOnFailure
<1>4. Lifecycle!Overrides(q) = Overrides(q)
  BY DEF Lifecycle!Overrides, Overrides, Lifecycle!NoVersions, NoVersions
<1>5. Lifecycle!Acyclic = Acyclic
  BY DEF Lifecycle!Acyclic, Acyclic
<1>6. Lifecycle!Rejected(q) = Rejected(q)
  BY <1>1, <1>2, <1>5 DEF Lifecycle!Rejected, Rejected
<1>7. Lifecycle!ExternalDeps(q) = ExternalDeps(q)
  BY <1>2 DEF Lifecycle!ExternalDeps, ExternalDeps
<1>8. Lifecycle!Active = Active
  BY DEF Lifecycle!Active, Active
<1> QED
  BY <1>1, <1>2, <1>3, <1>4, <1>6, <1>7, <1>8

progress == [r \in Run |-> [s \in Stage |-> ProgressOf(r, s)]]

(* The progress of one stage of one run moves.                             *)
LEMMA OneMoves ==
  ASSUME NEW r0 \in Run, NEW s0 \in Stage, NEW to,
         \A r \in Run, s \in Stage :
           ProgressOf(r, s)' = IF r = r0 /\ s = s0 THEN to ELSE ProgressOf(r, s)
  PROVE  progress' = [progress EXCEPT ![r0][s0] = to]
<1> DEFINE row(r) == [s \in Stage |-> ProgressOf(r, s)]
<1>1. progress' = [r \in Run |-> [s \in Stage |-> ProgressOf(r, s)']]
  BY DEF progress
<1>2. [progress EXCEPT ![r0][s0] = to] =
        [r \in Run |-> IF r = r0 THEN [row(r) EXCEPT ![s0] = to] ELSE row(r)]
  BY DEF progress
<1>3. \A r \in Run : [s \in Stage |-> ProgressOf(r, s)'] =
                       (IF r = r0 THEN [row(r) EXCEPT ![s0] = to] ELSE row(r))
  OBVIOUS
<1> QED
  BY <1>1, <1>2, <1>3

LEMMA NoneMoves ==
  ASSUME "repeat" \notin Faults, Typed, MessageInv, DispatchedOnce, DispatchedOnce',
         [Next]_vars, Rows' = Rows,
         \A i \in Rows : RowProgress(i)' = RowProgress(i)
  PROVE  progress' = progress
<1>1. \A r \in Run, s \in Stage : ProgressOf(r, s)' = ProgressOf(r, s)
  BY ProgressFrame
<1> QED
  BY <1>1 DEF progress

(* The progress of the row i moves, and that of no other.                  *)
LEMMA RowMoves ==
  ASSUME "repeat" \notin Faults, Typed, MessageInv, DispatchedOnce, DispatchedOnce',
         [Next]_vars, Rows' = Rows,
         NEW i \in Rows, \A j \in Rows \ {i} : RowProgress(j)' = RowProgress(j)
  PROVE  progress' = [progress EXCEPT ![stage_runs[i].run][stage_runs[i].stage] =
                                         RowProgress(i)']
<1> DEFINE r0 == stage_runs[i].run
           s0 == stage_runs[i].stage
<1>1. r0 \in Run /\ s0 \in Stage
  BY RowType DEF Typed, TypeOK, StageRun
<1>2. stage_runs'[i].run = r0 /\ stage_runs'[i].stage = s0
  BY RowKeepsOutcome DEF RowKept
<1>3. ASSUME NEW r, NEW s, r = r0, s = s0
      PROVE  ProgressOf(r, s)' = RowProgress(i)'
  BY <1>2, <1>3, ProgressIsRowNext
<1>4. ASSUME NEW r \in Run, NEW s \in Stage, ~(r = r0 /\ s = s0)
      PROVE  ProgressOf(r, s)' = ProgressOf(r, s)
  <2>1. \A j \in Rows' : stage_runs'[j].run = r /\ stage_runs'[j].stage = s =>
           j \in Rows /\ RowProgress(j)' = RowProgress(j)
    BY <1>2, <1>4
  <2> QED
    BY <2>1, ProgressFrame
<1>5. \A r \in Run, s \in Stage :
        ProgressOf(r, s)' = IF r = r0 /\ s = s0 THEN RowProgress(i)' ELSE ProgressOf(r, s)
  BY <1>3, <1>4
<1> HIDE DEF r0, s0
<1>6. progress' = [progress EXCEPT ![r0][s0] = RowProgress(i)']
  BY <1>1, <1>5, OneMoves
<1> QED
  BY <1>6 DEF r0, s0

-----------------------------------------------------------------------------
(* One lemma for each abstract step.                                       *)

(* A stage that stands for `n` and is not pinned is settled.               *)
LEMMA StandsIsSettled ==
  ASSUME DispatchedOnce, FallbackOnlyWhenAllowed, NEW r \in Run, NEW s \in Stage,
         Settled(r, s)
  PROVE  Lifecycle!Settled(r, s)
<1>1. PICK i \in Rows : SettledBy(i, r, s)
  BY DEF Settled
<1>2. ProgressOf(r, s) = RowProgress(i)
  BY <1>1, ProgressIsRow DEF SettledBy
<1>3. RowProgress(i) \in {"completed", "replaced"}
  BY <1>1 DEF SettledBy, RowProgress, FallbackOnlyWhenAllowed
<1> QED
  BY <1>2, <1>3 DEF Lifecycle!Settled

LEMMA DispatchStep ==
  ASSUME "repeat" \notin Faults, Typed, Inv, DispatchedOnce', [Next]_vars,
         NEW s \in Stage, CreateStageRun(s)
  PROVE  Lifecycle!Dispatch(run, s)
<1>1. /\ run \in Run /\ status[run] \in Active /\ s \in Reachable(request[run])
      /\ s \notin started /\ DependsOn[s] \subseteq Known(done) /\ pc = "dispatch"
      /\ ~Rejected(request[run])
      /\ UNCHANGED <<request, status, cancel_requested>>
  BY DEF CreateStageRun, Ready, Inv, DispatchInv, SnapshotInv, InLoop, runVars
<1>2. \A i \in Rows : ~(stage_runs[i].run = run /\ stage_runs[i].stage = s)
  BY <1>1 DEF Inv, DispatchInv, StartedInv, InLoop, StagesOf, StageRunsOf
<1>3. ProgressOf(run, s) = "waiting"
  BY <1>2, NoRowWaits
<1>4. ASSUME NEW n \in DependsOn[s] \cap Stage
      PROVE  Lifecycle!Settled(run, n) \/ n \in Known(Overrides(request[run]))
  <2>1. Stands(run, n, done[n])
    BY <1>1 DEF Inv, OutcomeInv, DoneInv
  <2>2. CASE Settled(run, n)
    BY <1>1, <2>2, StandsIsSettled DEF Inv, DispatchInv, OutcomeInv
  <2> QED
    BY <2>1, <2>2 DEF Stands, Settled
<1>5. ASSUME NEW r, r = run PROVE ProgressOf(r, s)' = "dispatched"
  <2>1. PICK i \in Rows' : i = Len(stage_runs')
    BY NewRow
  <2>2. stage_runs'[i].run = r /\ stage_runs'[i].stage = s
    BY <1>5, <2>1, NewRow
  <2>3. stage_runs'[i].status = "requested"
    <3> DEFINE versions == [n \in Name |-> IF n \in DependsOn[s] THEN done[n] ELSE 0]
               row(f) == [run |-> run, stage |-> s, input_versions |-> f,
                          status |-> "requested", output_version |-> 0,
                          used_fallback |-> FALSE]
    <3>1. stage_runs'[i] = row(versions)
      BY <2>1, RowAppended
    <3>2. \A f : row(f).status = "requested"
      OBVIOUS
    <3> HIDE DEF versions
    <3> QED
      BY <3>1, <3>2
  <2>4. RowProgress(i)' = "dispatched"
    BY <2>3 DEF RowProgress
  <2> QED
    BY <2>2, <2>4, ProgressIsRowNext
<1>6. ASSUME NEW r \in Run, NEW u \in Stage, ~(r = run /\ u = s)
      PROVE  ProgressOf(r, u)' = ProgressOf(r, u)
  <2>1. \A j \in Rows : RowProgress(j)' = RowProgress(j)
    BY NewRow DEF RowProgress
  <2>2. \A j \in Rows' : stage_runs'[j].run = r /\ stage_runs'[j].stage = u =>
           j \in Rows /\ RowProgress(j)' = RowProgress(j)
    BY <1>6, <2>1, NewRow
  <2> QED
    BY <2>2, ProgressFrame DEF Inv, DispatchInv
<1>7. \A r \in Run, u \in Stage :
        ProgressOf(r, u)' = IF r = run /\ u = s THEN "dispatched" ELSE ProgressOf(r, u)
  BY <1>5, <1>6
<1>8. progress' = [progress EXCEPT ![run][s] = "dispatched"]
  BY <1>1, <1>7, OneMoves
<1>9. progress[run][s] = "waiting"
  BY <1>1, <1>3 DEF progress
<1> QED
  BY <1>1, <1>4, <1>8, <1>9, SameWorkflow
  DEF Lifecycle!Dispatch, Lifecycle!Move, Lifecycle!Pinned, progress

LEMMA ProgressOfRow ==
  ASSUME Typed, DispatchedOnce, NEW i \in Rows
  PROVE  /\ stage_runs[i].run \in Run /\ stage_runs[i].stage \in Stage
         /\ progress[stage_runs[i].run][stage_runs[i].stage] = RowProgress(i)
<1>1. stage_runs[i].run \in Run /\ stage_runs[i].stage \in Stage
  BY RowType DEF Typed, TypeOK, StageRun
<1> QED
  BY <1>1, ProgressIsRow DEF progress

LEMMA FinishStep ==
  ASSUME "repeat" \notin Faults, Typed, Inv, DispatchedOnce', [Next]_vars,
         NEW w \in Worker, Report(w)
  PROVE  \E r \in Run, s \in Stage : Lifecycle!Finish(r, s)
<1>1. PICK k \in Rows : k = job[w]
  BY DEF Report, Typed, HandlesOK
<1>2. /\ stage_runs \in Seq(StageRun) /\ stage_runs[k] \in StageRun
      /\ stage_runs[k].status = "running"
      /\ UNCHANGED <<request, status, cancel_requested>>
  BY <1>1, RowType DEF Report, Inv, MessageInv, JobInv, runVars, Typed, TypeOK
<1>3. ~stage_runs[k].used_fallback
  BY <1>1, <1>2 DEF Inv, OutcomeInv, FallbackOnlyWhenAllowed
<1>4. Rows' = Rows
  BY LenProperties, <1>1, <1>2 DEF Report, Rows
<1>5. \A j \in Rows \ {k} : stage_runs'[j] = stage_runs[j]
  BY <1>1, <1>2, LenProperties DEF Report, Rows
<1>6. RowProgress(k)' \in {"completed", "failed"}
  <2>1. CASE result[w] # 0
    <3>1. stage_runs'[k] = [stage_runs[k] EXCEPT !.status = "completed",
                                                 !.output_version = result[w]]
      BY <1>1, <1>2, <2>1, LenProperties DEF Report, Rows
    <3> QED
      BY <1>2, <3>1 DEF StageRun, RowProgress
  <2>2. CASE result[w] = 0
    <3>1. stage_runs'[k] = [stage_runs[k] EXCEPT !.status = "failed"]
      BY <1>1, <1>2, <2>2, LenProperties DEF Report, Rows
    <3> QED
      BY <1>2, <1>3, <3>1 DEF StageRun, RowProgress
  <2> QED
    BY <2>1, <2>2
<1>7. \A j \in Rows \ {k} : RowProgress(j)' = RowProgress(j)
  BY <1>5 DEF RowProgress
<1>8. progress' = [progress EXCEPT ![stage_runs[k].run][stage_runs[k].stage] =
                                      RowProgress(k)']
  BY <1>4, <1>7, RowMoves DEF Inv, DispatchInv
<1>9. /\ stage_runs[k].run \in Run /\ stage_runs[k].stage \in Stage
      /\ progress[stage_runs[k].run][stage_runs[k].stage] = "dispatched"
  BY <1>2, ProgressOfRow DEF Inv, DispatchInv, RowProgress
<1>10. PICK r \in Run, s \in Stage : r = stage_runs[k].run /\ s = stage_runs[k].stage
  BY <1>9
<1>11. Lifecycle!Finish(r, s)
  BY <1>2, <1>6, <1>8, <1>9, <1>10 DEF Lifecycle!Finish, Lifecycle!Move, progress
<1> QED
  BY <1>11

LEMMA ReplaceStep ==
  ASSUME "repeat" \notin Faults, Typed, Inv, DispatchedOnce', [Next]_vars,
         MarkUsedFallback
  PROVE  (\E r \in Run, s \in Stage : Lifecycle!Replace(r, s)) \/ UNCHANGED Lifecycle!vars
<1>1. PICK k \in Rows : k = failure
  BY DEF MarkUsedFallback, Typed, HandlesOK
<1>2. /\ stage_runs \in Seq(StageRun) /\ stage_runs[k] \in StageRun
      /\ stage_runs[k].status = "failed" /\ stage_runs[k].run = run
      /\ EffectiveOnFailure(request[run]) = "fallback" /\ status[run] \in Active
      /\ ~Rejected(request[run])
      /\ UNCHANGED <<request, status, cancel_requested>>
  BY <1>1, RowType DEF MarkUsedFallback, Inv, OutcomeInv, FailureInv, WithStatus, StageRunsOf,
     runVars, Typed, TypeOK, DispatchInv, SnapshotInv, InLoop
<1>3. Rows' = Rows
  BY LenProperties, <1>1, <1>2 DEF MarkUsedFallback, Rows
<1>4. /\ \A j \in Rows \ {k} : stage_runs'[j] = stage_runs[j]
      /\ stage_runs'[k] = [stage_runs[k] EXCEPT !.used_fallback = TRUE]
  BY <1>1, <1>2, LenProperties DEF MarkUsedFallback, Rows
<1>5. RowProgress(k)' = "replaced"
  BY <1>2, <1>4 DEF StageRun, RowProgress
<1>6. \A j \in Rows \ {k} : RowProgress(j)' = RowProgress(j)
  BY <1>4 DEF RowProgress
<1>7. CASE stage_runs[k].used_fallback
  <2>1. RowProgress(k) = "replaced"
    BY <1>2, <1>7 DEF RowProgress
  <2>2. progress' = progress
    BY <1>3, <1>5, <1>6, <2>1, NoneMoves DEF Inv, DispatchInv
  <2> QED
    BY <1>2, <2>2 DEF Lifecycle!vars, progress
<1>8. CASE ~stage_runs[k].used_fallback
  <2>1. progress' = [progress EXCEPT ![stage_runs[k].run][stage_runs[k].stage] =
                                        RowProgress(k)']
    BY <1>3, <1>6, RowMoves DEF Inv, DispatchInv
  <2>2. /\ stage_runs[k].run \in Run /\ stage_runs[k].stage \in Stage
        /\ progress[stage_runs[k].run][stage_runs[k].stage] = "failed"
    BY <1>2, <1>8, ProgressOfRow DEF Inv, DispatchInv, RowProgress
  <2>3. PICK r \in Run, s \in Stage : r = stage_runs[k].run /\ s = stage_runs[k].stage
    BY <2>2
  <2>4. Lifecycle!Replace(r, s)
    BY <1>2, <1>5, <2>1, <2>2, <2>3, SameWorkflow
    DEF Lifecycle!Replace, Lifecycle!Move, progress
  <2> QED
    BY <2>4
<1> QED
  BY <1>7, <1>8

(* A step that leaves the rows alone leaves the progress alone.            *)
LEMMA RowsStay ==
  ASSUME UNCHANGED stage_runs
  PROVE  progress' = progress
<1>1. \A r \in Run, s \in Stage : ProgressOf(r, s)' = ProgressOf(r, s)
  BY DEF ProgressOf, StageRunsOf, Rows
<1> QED
  BY <1>1 DEF progress

LEMMA StartStep ==
  ASSUME Typed, Inv, MarkRunning
  PROVE  Lifecycle!Start(run)
<1>1. /\ run \in Run /\ pc = "dispatch" /\ dispatched /\ status[run] = "requested"
      /\ status' = [status EXCEPT ![run] = "running"]
      /\ UNCHANGED <<request, cancel_requested, stage_runs>>
  BY DEF MarkRunning, SetStatus, Typed, HandlesOK, InLoop
<1>2. PICK i \in Rows : stage_runs[i].run = run
  BY <1>1 DEF Inv, DispatchInv, StartedInv, ReasonInv, InLoop, StagesOf, StageRunsOf
<1>3. /\ stage_runs[i].stage \in Stage
      /\ progress[run][stage_runs[i].stage] = RowProgress(i)
  BY <1>2, ProgressOfRow DEF Inv, DispatchInv
<1>4. RowProgress(i) # "waiting"
  BY DEF RowProgress
<1> QED
  BY <1>1, <1>3, <1>4, RowsStay DEF Lifecycle!Start, Lifecycle!SetStatus, progress

LEMMA CompleteStep ==
  ASSUME Typed, Inv, CompleteRun
  PROVE  Lifecycle!Complete(run)
<1>1. /\ run \in Run /\ pc = "complete" /\ status[run] \in Active /\ ~Rejected(request[run])
      /\ status' = [status EXCEPT ![run] = "completed"]
      /\ UNCHANGED <<request, cancel_requested, stage_runs>>
  BY DEF CompleteRun, SetStatus, Typed, HandlesOK, InLoop, Inv, DispatchInv, SnapshotInv
<1>2. Whole(run)
  BY <1>1 DEF Inv, OutcomeInv, DoneInv
<1>3. \A s \in Stage : Settled(run, s) => Lifecycle!Settled(run, s)
  BY <1>1, StandsIsSettled DEF Inv, OutcomeInv, DispatchInv
<1>4. \/ request[run].stop_after \in Stage /\ Lifecycle!Settled(run, request[run].stop_after)
      \/ \A s \in Reachable(request[run]) :
           Lifecycle!Settled(run, s) \/ s \in Known(Overrides(request[run]))
  BY <1>2, <1>3, RangeIsStages DEF Whole
<1> QED
  BY <1>1, <1>4, RowsStay, SameWorkflow
  DEF Lifecycle!Complete, Lifecycle!SetStatus, Lifecycle!Pinned, progress

LEMMA FailStep ==
  ASSUME Typed, Inv, FailRun
  PROVE  Lifecycle!Fail(run)
<1>1. /\ run \in Run /\ pc = "fail" /\ status[run] \in Active
      /\ status' = [status EXCEPT ![run] = "failed"]
      /\ UNCHANGED <<request, cancel_requested, stage_runs>>
  BY DEF FailRun, SetStatus, Typed, HandlesOK, InLoop, Inv, DispatchInv, SnapshotInv
<1>2. CASE WithStatus(run, "failed") # {}
  <2>1. PICK i \in Rows : stage_runs[i].run = run /\ stage_runs[i].status = "failed"
    BY <1>2 DEF WithStatus, StageRunsOf
  <2>2. /\ stage_runs[i].stage \in Stage
        /\ progress[run][stage_runs[i].stage] = RowProgress(i)
    BY <2>1, ProgressOfRow DEF Inv, DispatchInv
  <2>3. RowProgress(i) \in {"failed", "replaced"}
    BY <2>1 DEF RowProgress
  <2> QED
    BY <1>1, <2>2, <2>3, RowsStay, SameWorkflow
    DEF Lifecycle!Fail, Lifecycle!SetStatus, progress
<1>3. CASE \E n \in ExternalDeps(request[run]) : n \notin Known(Overrides(request[run]))
  BY <1>1, <1>3, RowsStay, SameWorkflow
  DEF Lifecycle!Fail, Lifecycle!SetStatus, Lifecycle!Pinned, progress
<1> QED
  BY <1>1, <1>2, <1>3 DEF Inv, ReasonInv

LEMMA SkipStep ==
  ASSUME Typed, Inv, NEW r \in Run, CancelRun(r) \/ RejectRun(r)
  PROVE  Lifecycle!Cancel(r) \/ Lifecycle!Fail(r)
<1>1. status[r] \in Active /\ UNCHANGED <<request, cancel_requested, stage_runs>>
  BY DEF CancelRun, RejectRun, SkipRun, SetStatus, Inv, DispatchInv, SnapshotInv
<1>2. CASE CancelRun(r)
  BY <1>1, <1>2, RowsStay, SameWorkflow
  DEF CancelRun, SkipRun, SetStatus, Inv, ReasonInv, Lifecycle!Cancel, Lifecycle!SetStatus,
      progress
<1>3. CASE RejectRun(r)
  BY <1>1, <1>3, RowsStay, SameWorkflow
  DEF RejectRun, SkipRun, SetStatus, Lifecycle!Fail, Lifecycle!SetStatus, progress
<1> QED
  BY <1>2, <1>3

LEMMA AskStep ==
  ASSUME NEW r \in Run, WriteCancel(r)
  PROVE  Lifecycle!Ask(r)
<1>1. progress' = progress
  BY RowsStay DEF WriteCancel
<1> QED
  BY <1>1 DEF WriteCancel, Lifecycle!Ask, progress

(* A step that changes no run and no row.                                  *)
LEMMA OtherStep ==
  ASSUME UNCHANGED <<request, status, cancel_requested, stage_runs>>
  PROVE  UNCHANGED Lifecycle!vars
<1>1. progress' = progress
  BY RowsStay
<1> QED
  BY <1>1 DEF Lifecycle!vars, progress

LEMMA ReportStartStep ==
  ASSUME "repeat" \notin Faults, Typed, Inv, DispatchedOnce', [Next]_vars,
         NEW w \in Worker, ReportStart(w)
  PROVE  UNCHANGED Lifecycle!vars
<1>1. PICK k \in Rows : k = job[w]
  BY DEF ReportStart, Typed, HandlesOK
<1>2. /\ stage_runs \in Seq(StageRun) /\ stage_runs[k] \in StageRun
      /\ stage_runs[k].status = "requested"
      /\ UNCHANGED <<request, status, cancel_requested>>
  BY <1>1, RowType DEF ReportStart, Inv, MessageInv, JobInv, runVars, Typed, TypeOK
<1>3. /\ Rows' = Rows /\ \A j \in Rows \ {k} : stage_runs'[j] = stage_runs[j]
      /\ stage_runs'[k] = [stage_runs[k] EXCEPT !.status = "running"]
  BY <1>1, <1>2, LenProperties DEF ReportStart, Rows
<1>4. \A j \in Rows : RowProgress(j)' = RowProgress(j)
  BY <1>2, <1>3 DEF RowProgress, StageRun
<1>5. progress' = progress
  BY <1>3, <1>4, NoneMoves DEF Inv, DispatchInv
<1> QED
  BY <1>2, <1>5 DEF Lifecycle!vars, progress

LEMMA StepRefines ==
  ASSUME "repeat" \notin Faults
  PROVE  Typed /\ Inv /\ Inv' /\ [Next]_vars => [Lifecycle!Next]_Lifecycle!vars
<1> SUFFICES ASSUME Typed, Inv, DispatchedOnce', [Next]_vars
             PROVE  Lifecycle!Next \/ UNCHANGED Lifecycle!vars
  BY DEF Inv, DispatchInv
<1>1. ASSUME NEW s \in Stage, CreateStageRun(s)
      PROVE  Lifecycle!Next \/ UNCHANGED Lifecycle!vars
  <2>1. PICK r \in Run : r = run
    BY <1>1 DEF CreateStageRun, Typed, HandlesOK, InLoop
  <2> QED
    BY <1>1, <2>1, DispatchStep DEF Lifecycle!Next
<1>2. CASE MarkRunning \/ CompleteRun \/ FailRun
  <2>1. PICK r \in Run : r = run
    BY <1>2 DEF MarkRunning, CompleteRun, FailRun, Typed, HandlesOK, InLoop
  <2> QED
    BY <1>2, <2>1, StartStep, CompleteStep, FailStep DEF Lifecycle!Next
<1>3. ASSUME NEW r \in Run, CancelRun(r) \/ RejectRun(r)
      PROVE  Lifecycle!Next \/ UNCHANGED Lifecycle!vars
  BY <1>3, SkipStep DEF Lifecycle!Next
<1>4. CASE MarkUsedFallback
  BY <1>4, ReplaceStep DEF Lifecycle!Next
<1>5. ASSUME NEW w \in Worker, Report(w)
      PROVE  Lifecycle!Next \/ UNCHANGED Lifecycle!vars
  BY <1>5, FinishStep DEF Lifecycle!Next
<1>6. ASSUME NEW w \in Worker, ReportStart(w)
      PROVE  Lifecycle!Next \/ UNCHANGED Lifecycle!vars
  BY <1>6, ReportStartStep
<1>7. ASSUME NEW r \in Run, WriteCancel(r)
      PROVE  Lifecycle!Next \/ UNCHANGED Lifecycle!vars
  BY <1>7, AskStep DEF Lifecycle!Next
<1>8. CASE \/ BeginTick \/ EndTick \/ FallBack \/ Halt \/ EnqueueStageRun \/ KeepStatus
           \/ AbortTick \/ UNCHANGED vars
           \/ \E r \in Run : ReadStageRuns(r) \/ RequestCancel(r)
           \/ \E n \in Name : \/ ResolveExternal(n) \/ FailExternal(n) \/ Inject(n)
                              \/ \E v \in 1..recorded[n] : PromoteVersion(n, v)
           \/ \E w \in Worker : Pop(w) \/ Execute(w) \/ ExecuteFails(w) \/ LoseMessage(w)
  <2>1. UNCHANGED <<request, status, cancel_requested, stage_runs>>
    BY <1>8 DEF BeginTick, EndTick, FallBack, Halt, EnqueueStageRun, KeepStatus, AbortTick,
       ReadStageRuns, RequestCancel, ResolveExternal, FailExternal, Inject, PromoteVersion,
       Pop, Execute, ExecuteFails, LoseMessage, vars, runVars
  <2> QED
    BY <2>1, OtherStep
<1> QED
  BY <1>1, <1>2, <1>3, <1>4, <1>5, <1>6, <1>7, <1>8, NoRepeat
  DEF Next, Scheduler, Work, Clients

LEMMA InitRefines == Init => Lifecycle!Init
<1> SUFFICES ASSUME Init PROVE Lifecycle!Init
  OBVIOUS
<1>1. Rows = {}
  BY EmptySeq DEF Init, Rows
<1>2. \A r \in Run, s \in Stage : ProgressOf(r, s) = "waiting"
  BY <1>1, NoRowWaits
<1>3. progress = [r \in Run |-> [s \in Stage |-> "waiting"]]
  BY <1>2 DEF progress
<1> QED
  BY <1>3 DEF Init, Lifecycle!Init, progress

(* The scheduler's ticks, the workers, the reports and the clients, with   *)
(* every fault but a message pushed twice, give each run the life that     *)
(* RunLifecycle promises.                                                  *)
THEOREM ProgressionRefines ==
  ASSUME "repeat" \notin Faults
  PROVE  Spec => ImplementsLifecycle
<1>1. Typed /\ Inv /\ (Typed /\ Inv)' /\ [Next]_vars => [Lifecycle!Next]_Lifecycle!vars
  BY StepRefines
<1> QED
  BY <1>1, InitRefines, InvInductive, PTL DEF Spec, ImplementsLifecycle, Lifecycle!Spec
=============================================================================
