-------------------------- MODULE ProgressionProofs --------------------------
(* Proofs of the safety of Progression, for every workflow, every number   *)
(* of runs and workers and every set of faults.                            *)
EXTENDS Progression, SequenceTheorems, TLAPS

LEMMA InitTypeOK == Init => TypeOK
<1> SUFFICES ASSUME Init PROVE TypeOK
  OBVIOUS
<1>1. stage_runs \in Seq(StageRun) /\ queue \in Seq(Rows)
  BY EmptySeq DEF Init
<1>2. recorded \in [Name -> Nat]
  BY DEF Init
<1>3. QED
  BY <1>1, <1>2, NamesAssumption
  DEF Init, TypeOK, NoVersions, Versions, Active, Terminal

LEMMA RowUpdate ==
  ASSUME NEW S, NEW q \in Seq(S), NEW i \in 1..Len(q), NEW x \in S
  PROVE  /\ [q EXCEPT ![i] = x] \in Seq(S)
         /\ Len([q EXCEPT ![i] = x]) = Len(q)
  BY ExceptSeq

LEMMA RowAppend ==
  ASSUME NEW S, NEW q \in Seq(S), NEW x \in S
  PROVE  /\ Append(q, x) \in Seq(S)
         /\ Len(Append(q, x)) = Len(q) + 1
         /\ \A i \in 1..Len(q) : Append(q, x)[i] = q[i]
         /\ Append(q, x)[Len(q) + 1] = x
  OBVIOUS

LEMMA RowType ==
  ASSUME stage_runs \in Seq(StageRun), NEW i \in Rows
  PROVE  stage_runs[i] \in StageRun
  BY ElementOfSeq DEF Rows

LEMMA OutputsType ==
  ASSUME stage_runs \in Seq(StageRun), NEW r \in Run
  PROVE  OutputsOf(r) \in Versions
<1> SUFFICES ASSUME NEW n \in Name PROVE OutputsOf(r)[n] \in Nat
  BY DEF OutputsOf, Versions
<1> DEFINE completed == WithStatus(r, "completed")
           i == CHOOSE k \in completed : stage_runs[k].stage = n
<1>1. CASE n \in StagesOf(completed)
  <2>1. i \in Rows
    BY <1>1 DEF StagesOf, WithStatus, StageRunsOf
  <2>2. stage_runs[i] \in StageRun
    BY <2>1, RowType
  <2> QED
    BY <1>1, <2>2 DEF OutputsOf, StageRun
<1>2. CASE n \notin StagesOf(completed)
  BY <1>2 DEF OutputsOf
<1> QED
  BY <1>1, <1>2

LEMMA ResumeType ==
  ASSUME TypeOK, NEW r \in Run, NEW d \in Versions, Resume(r, d)
  PROVE  done' \in Versions /\ external' \subseteq Name
                /\ pc' \in {"complete", "external", "dispatch"}
<1>1. request[r] \in RequestType
  BY RequestAssumption DEF TypeOK
<1>2. Overrides(request[r]) \in Versions
  BY <1>1 DEF Overrides, NoVersions, Versions, RequestType
<1>3. done' \in Versions
  BY <1>2 DEF Resume, Update, Versions
<1>4. ExternalDeps(request[r]) \subseteq Name
  BY NamesAssumption DEF ExternalDeps, Reachable, ReachableFrom
<1> QED
  BY <1>3, <1>4 DEF Resume

(* The locals going out of scope, or the run going on to completion.       *)
LEMMA SettleType ==
  ASSUME TypeOK, HandlesOK, Settle, pc = "dispatch"
  PROVE  /\ pc' \in {"next", "complete"}
         /\ todo' \subseteq Run /\ cancels' \subseteq Run
         /\ run' \in Run \cup {None} /\ (pc' = "complete" => run' \in Run)
         /\ started' \subseteq Stage /\ done' \in Versions /\ external' \subseteq Name
         /\ failure' \in Rows \cup {0} /\ dispatched' \in BOOLEAN
<1>1. CASE Reachable(request[run]) \subseteq Known(done)
  BY <1>1 DEF Settle, localVars, TypeOK, HandlesOK, InLoop
<1>2. CASE ~(Reachable(request[run]) \subseteq Known(done))
  <2>1. LeaveRun
    BY <1>2 DEF Settle
  <2>2. NoVersions \in Versions
    BY DEF NoVersions, Versions
  <2> QED
    BY <2>1, <2>2 DEF LeaveRun, ClearLocals, TypeOK
<1> QED
  BY <1>1, <1>2

(* One column of one row is overwritten.                                   *)
LEMMA ColumnUpdate ==
  ASSUME stage_runs \in Seq(StageRun), NEW i \in Rows, NEW row \in StageRun,
         stage_runs' = [stage_runs EXCEPT ![i] = row]
  PROVE  /\ stage_runs' \in Seq(StageRun)
         /\ Len(stage_runs') = Len(stage_runs)
         /\ Rows' = Rows
  BY RowUpdate DEF Rows

(* Well-typed states of the program lead to well-typed ones.               *)
Typed == TypeOK /\ HandlesOK

LEMMA NextTyped == Typed /\ [Next]_vars => Typed'
<1> SUFFICES ASSUME Typed, [Next]_vars PROVE Typed'
  OBVIOUS
<1> USE NamesAssumption
    DEF Typed, TypeOK, HandlesOK, InLoop, Rows, runVars, storeVars, localVars, tickVars, workVars
<1>1. CASE BeginTick
  BY <1>1 DEF BeginTick
<1>2. CASE EndTick
  BY <1>2 DEF EndTick
<1>3. ASSUME NEW r \in Run, CancelRun(r) PROVE Typed'
  BY <1>3 DEF CancelRun, SkipRun, SetStatus, Terminal
<1>4. ASSUME NEW r \in Run, RejectRun(r) PROVE Typed'
  BY <1>4 DEF RejectRun, SkipRun, SetStatus, Terminal
<1>5. ASSUME NEW r \in Run, ReadStageRuns(r) PROVE Typed'
  <2>1. StagesOf(StageRunsOf(r)) \subseteq Stage
    BY RowType DEF StagesOf, StageRunsOf, StageRun
  <2>2. OutputsOf(r) \in Versions
    BY OutputsType
  <2>3. CASE WithStatus(r, "failed") = {}
    <3>1. done' \in Versions /\ external' \subseteq Name /\ failure' = 0
          /\ pc' \in {"complete", "external", "dispatch"}
      BY <1>5, <2>2, <2>3, ResumeType DEF ReadStageRuns
    <3> QED
      BY <1>5, <2>1, <3>1 DEF ReadStageRuns
  <2>4. CASE WithStatus(r, "failed") # {}
    <3>1. failure' \in Rows
      BY <1>5, <2>4 DEF ReadStageRuns, WithStatus, StageRunsOf
    <3>2. done' \in Versions /\ external' = {} /\ pc' = "failure"
      BY <1>5, <2>2, <2>4 DEF ReadStageRuns
    <3> QED
      BY <1>5, <2>1, <3>1, <3>2 DEF ReadStageRuns
  <2> QED
    BY <2>3, <2>4
<1>6. CASE FallBack
  BY <1>6 DEF FallBack, Versions
<1>7. CASE Halt
  BY <1>7 DEF Halt
<1>8. CASE MarkUsedFallback
  <2>1. stage_runs[failure] \in StageRun
    BY <1>8, RowType DEF MarkUsedFallback
  <2>2. [stage_runs[failure] EXCEPT !.used_fallback = TRUE] \in StageRun
    BY <2>1 DEF StageRun
  <2>3. stage_runs' \in Seq(StageRun) /\ Len(stage_runs') = Len(stage_runs)
    BY <1>8, <2>2, ColumnUpdate DEF MarkUsedFallback
  <2>4. done' \in Versions /\ external' \subseteq Name
        /\ pc' \in {"complete", "external", "dispatch"}
    BY <1>8, ResumeType DEF MarkUsedFallback
  <2> QED
    BY <1>8, <2>3, <2>4 DEF MarkUsedFallback
<1>9. ASSUME NEW n \in Name, ResolveExternal(n) PROVE Typed'
  BY <1>9 DEF ResolveExternal, Versions
<1>10. ASSUME NEW n \in Name, FailExternal(n) PROVE Typed'
  BY <1>10 DEF FailExternal
<1>11. ASSUME NEW s \in Stage, CreateStageRun(s) PROVE Typed'
  <2> DEFINE row ==
        [run |-> run, stage |-> s,
         input_versions |-> [n \in Name |-> IF n \in DependsOn[s] THEN done[n] ELSE 0],
         status |-> "requested", output_version |-> 0, used_fallback |-> FALSE]
  <2>1. row \in StageRun
    BY <1>11 DEF CreateStageRun, StageRun, StageStatus, Versions
  <2>2. stage_runs' = Append(stage_runs, row)
    BY <1>11 DEF CreateStageRun, NewStageRun
  <2>3. stage_runs' \in Seq(StageRun) /\ Len(stage_runs') = Len(stage_runs) + 1
        /\ stage_runs' # <<>>
    BY <2>1, <2>2, RowAppend, EmptySeq
  <2>4. Rows \subseteq Rows'
    BY <2>3
  <2>5. queue' \in Seq(Rows')
    BY <1>11, <2>4, SeqMonotonic DEF CreateStageRun
  <2> QED
    BY <1>11, <2>3, <2>4, <2>5 DEF CreateStageRun
<1>12. CASE EnqueueStageRun
  <2>1. Len(stage_runs) \in Rows
    BY <1>12, EmptySeq DEF EnqueueStageRun
  <2>2. stage_runs[Len(stage_runs)].stage \in Stage
    BY <2>1, RowType DEF StageRun
  <2>3. queue' \in Seq(Rows)
    BY <1>12, <2>1, RowAppend DEF EnqueueStageRun
  <2> QED
    BY <1>12, <2>2, <2>3 DEF EnqueueStageRun
<1>13. CASE MarkRunning
  BY <1>13, SettleType DEF MarkRunning, SetStatus, Active
<1>14. CASE KeepStatus
  BY <1>14, SettleType DEF KeepStatus
<1>15. CASE CompleteRun
  BY <1>15 DEF CompleteRun, LeaveRun, ClearLocals, SetStatus, Terminal, Versions, NoVersions
<1>16. CASE FailRun
  BY <1>16 DEF FailRun, LeaveRun, ClearLocals, SetStatus, Terminal, Versions, NoVersions
<1>17. CASE AbortTick
  BY <1>17 DEF AbortTick, ClearLocals, Versions, NoVersions
<1>18. ASSUME NEW w \in Worker, Pop(w) PROVE Typed'
  <2>1. Head(queue) \in Rows /\ Tail(queue) \in Seq(Rows)
    BY <1>18, HeadTailProperties DEF Pop
  <2> QED
    BY <1>18, <2>1 DEF Pop, SetJob
<1>19. ASSUME NEW w \in Worker, ReportStart(w) PROVE Typed'
  <2>1. job[w] \in Rows /\ stage_runs[job[w]] \in StageRun
    BY <1>19, RowType DEF ReportStart
  <2>2. [stage_runs[job[w]] EXCEPT !.status = "running"] \in StageRun
    BY <2>1 DEF StageRun, StageStatus
  <2>3. stage_runs' \in Seq(StageRun) /\ Len(stage_runs') = Len(stage_runs)
    BY <1>19, <2>1, <2>2, ColumnUpdate DEF ReportStart
  <2> QED
    BY <1>19, <2>1, <2>3 DEF ReportStart, SetJob
<1>20. ASSUME NEW w \in Worker, Execute(w) PROVE Typed'
  <2>1. job[w] \in Rows /\ stage_runs[job[w]].stage \in Name
    BY <1>20, RowType DEF Execute, StageRun
  <2> QED
    BY <1>20, <2>1, SMTT(30) DEF Execute, SetJob
<1>21. ASSUME NEW w \in Worker, ExecuteFails(w) PROVE Typed'
  <2>1. job[w] \in Rows /\ stage_runs[job[w]].stage \in Name
    BY <1>21, RowType DEF ExecuteFails, StageRun
  <2>2. recorded' \in [Name -> Nat] /\ current' \in [Name -> Nat]
    <3> DEFINE s == stage_runs[job[w]].stage
    <3>1. recorded[s] + 1 \in Nat
      BY <2>1
    <3>2. recorded' = recorded \/ recorded' = [recorded EXCEPT ![s] = recorded[s] + 1]
      BY <1>21 DEF ExecuteFails
    <3>3. current' = current \/ current' = [current EXCEPT ![s] = recorded[s] + 1]
      BY <1>21 DEF ExecuteFails
    <3>4. [recorded EXCEPT ![s] = recorded[s] + 1] \in [Name -> Nat]
      BY <3>1
    <3>5. [current EXCEPT ![s] = recorded[s] + 1] \in [Name -> Nat]
      BY <3>1
    <3> QED
      BY <3>2, <3>3, <3>4, <3>5
  <2> QED
    BY <1>21, <2>1, <2>2, SMTT(30) DEF ExecuteFails, SetJob
<1>22. ASSUME NEW w \in Worker, Report(w) PROVE Typed'
  <2>1. job[w] \in Rows /\ stage_runs[job[w]] \in StageRun
    BY <1>22, RowType DEF Report
  <2> DEFINE row == IF result[w] # 0
                    THEN [stage_runs[job[w]] EXCEPT !.status = "completed",
                                                    !.output_version = result[w]]
                    ELSE [stage_runs[job[w]] EXCEPT !.status = "failed"]
  <2>2. row \in StageRun
    BY <2>1 DEF StageRun, StageStatus
  <2>3. stage_runs' = [stage_runs EXCEPT ![job[w]] = row]
    BY <1>22, <2>1, LenProperties DEF Report
  <2>4. stage_runs' \in Seq(StageRun) /\ Len(stage_runs') = Len(stage_runs)
    BY <2>1, <2>2, <2>3, ColumnUpdate
  <2> QED
    BY <1>22, <2>4 DEF Report, SetJob
<1>23. ASSUME NEW w \in Worker, LoseMessage(w) PROVE Typed'
  BY <1>23 DEF LoseMessage, SetJob
<1>24. ASSUME NEW r \in Run, RequestCancel(r) PROVE Typed'
  BY <1>24 DEF RequestCancel
<1>25. ASSUME NEW r \in Run, WriteCancel(r) PROVE Typed'
  BY <1>25 DEF WriteCancel
<1>26. ASSUME NEW n \in Name, Inject(n) PROVE Typed'
  BY <1>26 DEF Inject
<1>27. ASSUME NEW n \in Name, NEW v \in 1..recorded[n], PromoteVersion(n, v) PROVE Typed'
  BY <1>27 DEF PromoteVersion
<1>28. CASE RepeatPush
  <2>1. Len(stage_runs) \in Rows
    BY <1>28, EmptySeq DEF RepeatPush
  <2>2. queue' \in Seq(Rows)
    BY <1>28, <2>1, RowAppend DEF RepeatPush
  <2> QED
    BY <1>28, <2>1, <2>2 DEF RepeatPush
<1>29. CASE UNCHANGED vars
  BY <1>29 DEF vars
<1> QED
  BY <1>1, <1>2, <1>3, <1>4, <1>5, <1>6, <1>7, <1>8, <1>9, <1>10, <1>11, <1>12, <1>13,
     <1>14, <1>15, <1>16, <1>17, <1>18, <1>19, <1>20, <1>21, <1>22, <1>23, <1>24, <1>25,
     <1>26, <1>27, <1>28, <1>29
  DEF Next, Scheduler, Work, Clients

LEMMA InitTyped == Init => Typed
  BY InitTypeOK DEF Init, Typed, HandlesOK, InLoop

(* Every variable keeps its type, and a step never uses a local that has   *)
(* not been set, whatever is interrupted or lost.                          *)
THEOREM TypeCorrect == Spec => []Typed
<1>1. Init => Typed
  BY InitTyped
<1>2. Typed /\ [Next]_vars => Typed'
  BY NextTyped
<1> QED
  BY <1>1, <1>2, PTL DEF Spec

-----------------------------------------------------------------------------
(* Messages.                                                               *)

(* The steps that leave the rows and the messages alone.                   *)
Quiet ==
  /\ UNCHANGED <<stage_runs, queue, repeated, wpc, job>>
  /\ pc' = pc \/ pc' # "enqueue"

(* The steps that do not.                                                  *)
Loud ==
  \/ MarkUsedFallback \/ EnqueueStageRun \/ RepeatPush
  \/ \E s \in Stage : CreateStageRun(s)
  \/ \E w \in Worker : Work(w) \/ LoseMessage(w)

LEMMA QuietOrLoud == [Next]_vars => Quiet \/ Loud
<1> SUFFICES ASSUME [Next]_vars, ~Loud PROVE Quiet
  OBVIOUS
<1> USE DEF Quiet, runVars, storeVars, localVars, tickVars, workVars
<1>1. ASSUME NEW r \in Run, CancelRun(r) \/ RejectRun(r) PROVE Quiet
  BY <1>1 DEF CancelRun, RejectRun, SkipRun
<1>2. ASSUME NEW r \in Run, ReadStageRuns(r) PROVE Quiet
  BY <1>2 DEF ReadStageRuns, Resume
<1>3. CASE BeginTick \/ EndTick \/ FallBack \/ Halt
  BY <1>3 DEF BeginTick, EndTick, FallBack, Halt
<1>4. ASSUME NEW n \in Name, ResolveExternal(n) \/ FailExternal(n) PROVE Quiet
  BY <1>4 DEF ResolveExternal, FailExternal
<1>5. CASE MarkRunning \/ KeepStatus
  BY <1>5 DEF MarkRunning, KeepStatus, Settle, LeaveRun
<1>6. CASE CompleteRun \/ FailRun \/ AbortTick
  BY <1>6 DEF CompleteRun, FailRun, AbortTick, LeaveRun
<1>7. CASE Clients
  BY <1>7 DEF Clients, RequestCancel, WriteCancel, Inject, PromoteVersion
<1>8. CASE UNCHANGED vars
  BY <1>8 DEF vars
<1> QED
  BY <1>1, <1>2, <1>3, <1>4, <1>5, <1>6, <1>7, <1>8 DEF Next, Scheduler, Loud

(* A row is added; the others stay as they are.                            *)
LEMMA RowAppended ==
  ASSUME Typed, NEW s \in Stage, CreateStageRun(s)
  PROVE  /\ Len(stage_runs') = Len(stage_runs) + 1
         /\ \A i \in Rows : stage_runs'[i] = stage_runs[i]
         /\ stage_runs'[Len(stage_runs')] =
              [run |-> run, stage |-> s,
               input_versions |-> [n \in Name |-> IF n \in DependsOn[s] THEN done[n] ELSE 0],
               status |-> "requested", output_version |-> 0, used_fallback |-> FALSE]
<1> DEFINE row ==
      [run |-> run, stage |-> s,
       input_versions |-> [n \in Name |-> IF n \in DependsOn[s] THEN done[n] ELSE 0],
       status |-> "requested", output_version |-> 0, used_fallback |-> FALSE]
<1>1. stage_runs \in Seq(StageRun) /\ run \in Run
  BY DEF Typed, TypeOK, HandlesOK, InLoop, CreateStageRun
<1>2. row \in StageRun
  BY <1>1, NamesAssumption DEF StageRun, StageStatus, Versions, Typed, TypeOK
<1>3. stage_runs' = Append(stage_runs, row)
  BY DEF CreateStageRun, NewStageRun
<1> QED
  BY <1>1, <1>2, <1>3, RowAppend DEF Rows

(* The ids after CreateStageRun, and what the new row is for.              *)
LEMMA NewRow ==
  ASSUME Typed, NEW s \in Stage, CreateStageRun(s)
  PROVE  /\ Rows' = Rows \cup {Len(stage_runs')} /\ Len(stage_runs') \notin Rows
         /\ \A i \in Rows : stage_runs'[i] = stage_runs[i]
         /\ stage_runs'[Len(stage_runs')].run = run
         /\ stage_runs'[Len(stage_runs')].stage = s
<1>1. Len(stage_runs) \in Nat /\ Len(stage_runs') = Len(stage_runs) + 1
  BY RowAppended, LenProperties DEF Typed, TypeOK
<1>2. Rows' = Rows \cup {Len(stage_runs')} /\ Len(stage_runs') \notin Rows
  BY <1>1 DEF Rows
<1>3. stage_runs'[Len(stage_runs')].run = run /\ stage_runs'[Len(stage_runs')].stage = s
  <2> DEFINE versions == [n \in Name |-> IF n \in DependsOn[s] THEN done[n] ELSE 0]
             row(v) == [run |-> run, stage |-> s, input_versions |-> v,
                        status |-> "requested", output_version |-> 0,
                        used_fallback |-> FALSE]
  <2>1. stage_runs'[Len(stage_runs')] = row(versions)
    BY RowAppended
  <2>2. \A v : row(v).run = run /\ row(v).stage = s
    OBVIOUS
  <2> HIDE DEF versions
  <2> QED
    BY <2>1, <2>2
<1> QED
  BY <1>2, <1>3, RowAppended

LEMMA InitMessages == Init => MessageInv
  BY DEF Init, MessageInv, JobInv, EnqueueInv, InFlightOnce

LEMMA NextMessages == Typed /\ MessageInv /\ [Next]_vars => MessageInv'
<1> SUFFICES ASSUME Typed, MessageInv, [Next]_vars PROVE MessageInv'
  OBVIOUS
<1> USE DEF Typed, TypeOK, HandlesOK, MessageInv, JobInv, EnqueueInv, InFlightOnce, Rows
<1>1. CASE Quiet
  BY <1>1 DEF Quiet
<1>2. CASE MarkUsedFallback
  <2>1. \A i \in Rows : stage_runs'[i].status = stage_runs[i].status
    BY <1>2, LenProperties DEF MarkUsedFallback
  <2> QED
    BY <1>2, <2>1 DEF MarkUsedFallback, Resume, workVars
<1>3. CASE EnqueueStageRun
  <2>1. Len(stage_runs) \in Rows
    BY <1>3, EmptySeq DEF EnqueueStageRun
  <2>2. /\ Len(queue') = Len(queue) + 1
        /\ \A k \in 1..Len(queue) : queue'[k] = queue[k]
        /\ queue'[Len(queue) + 1] = Len(stage_runs)
    BY <1>3, <2>1, RowAppend DEF EnqueueStageRun
  <2>3. DOMAIN queue' = DOMAIN queue \cup {Len(queue) + 1} /\ Len(queue) + 1 \notin DOMAIN queue
    BY <2>1, <2>2, <1>3, LenProperties DEF EnqueueStageRun
  <2>4. DOMAIN queue = 1..Len(queue)
    BY LenProperties
  <2>5. UNCHANGED <<stage_runs, repeated, wpc, job>> /\ pc' = "dispatch" /\ pc = "enqueue"
    BY <1>3 DEF EnqueueStageRun, workVars
  <2> QED
    BY <2>1, <2>2, <2>3, <2>4, <2>5
<1>4. ASSUME NEW s \in Stage, CreateStageRun(s) PROVE MessageInv'
  <2>1. UNCHANGED <<queue, repeated, wpc, job>>
    BY <1>4 DEF CreateStageRun, workVars
  <2>2. /\ Len(stage_runs') = Len(stage_runs) + 1
        /\ \A i \in Rows : stage_runs'[i] = stage_runs[i]
        /\ stage_runs'[Len(stage_runs')].status = "requested"
    BY <1>4, RowAppended DEF CreateStageRun, NewStageRun
  <2>3. \A k \in DOMAIN queue : queue[k] \in Rows
    BY LenProperties
  <2>4. Len(stage_runs) \in Nat
    BY LenProperties
  <2>5. JobInv'
    BY <2>1, <2>2, <2>4
  <2>6. EnqueueInv'
    BY <2>1, <2>2, <2>3, <2>4
  <2>7. \A k \in DOMAIN queue : stage_runs'[queue[k]] = stage_runs[queue[k]]
    BY <2>2, <2>3
  <2>8. \A w \in Worker : wpc[w] # "idle" => stage_runs'[job[w]] = stage_runs[job[w]]
    BY <2>2
  <2>9. InFlightOnce'
    BY <2>1, <2>7, <2>8
  <2> QED
    BY <2>5, <2>6, <2>9
<1>5. ASSUME NEW w \in Worker, Pop(w) PROVE MessageInv'
  <2>1. /\ Head(queue) = queue[1] /\ 1 \in DOMAIN queue
        /\ \A k \in DOMAIN Tail(queue) : k + 1 \in DOMAIN queue /\ Tail(queue)[k] = queue[k+1]
        /\ DOMAIN Tail(queue) \subseteq Nat \ {0}
    BY <1>5, HeadTailProperties, LenProperties DEF Pop
  <2>2. /\ UNCHANGED <<stage_runs, repeated, pc>> /\ queue' = Tail(queue)
        /\ wpc' = [wpc EXCEPT ![w] = "start"] /\ job' = [job EXCEPT ![w] = queue[1]]
    BY <1>5, <2>1 DEF Pop, SetJob, tickVars
  <2>3. queue[1] \in Rows
    BY <2>1, LenProperties
  <2>4. \A v \in Worker : /\ queue[1] \notin repeated => job[v] # queue[1]
                         /\ job[v] \in Rows \cup {0}
    BY <2>1
  <2>5. JobInv'
    BY <2>1, <2>2, <2>3
  <2>6. EnqueueInv'
    BY <2>1, <2>2
  <2>7. \A k, l \in DOMAIN queue' :
          queue'[k] = queue'[l] => k = l \/ queue'[k] \in repeated'
    <3> SUFFICES ASSUME NEW k \in DOMAIN queue', NEW l \in DOMAIN queue',
                        queue'[k] = queue'[l], k # l
                 PROVE  queue'[k] \in repeated'
      OBVIOUS
    <3>1. /\ k + 1 \in DOMAIN queue /\ l + 1 \in DOMAIN queue /\ k + 1 # l + 1
          /\ queue'[k] = queue[k + 1] /\ queue'[l] = queue[l + 1]
      BY <2>1, <2>2
    <3> QED
      BY <2>2, <3>1
  <2>8. \A k \in DOMAIN queue' : queue'[k] \notin repeated' =>
          /\ stage_runs'[queue'[k]].status = "requested"
          /\ \A v \in Worker : job'[v] # queue'[k]
    <3> SUFFICES ASSUME NEW k \in DOMAIN queue', queue'[k] \notin repeated'
                 PROVE  /\ stage_runs'[queue'[k]].status = "requested"
                        /\ \A v \in Worker : job'[v] # queue'[k]
      OBVIOUS
    <3>1. k + 1 \in DOMAIN queue /\ queue'[k] = queue[k + 1] /\ k + 1 # 1
      BY <2>1, <2>2
    <3>2. queue[k + 1] \notin repeated /\ queue[k + 1] # queue[1]
      BY <2>1, <2>2, <3>1
    <3> QED
      BY <2>1, <2>2, <3>1, <3>2
  <2>9. \A v \in Worker : wpc'[v] # "idle" /\ job'[v] \notin repeated' =>
          /\ stage_runs'[job'[v]].status \in {"requested", "running"}
          /\ \A u \in Worker : job'[u] = job'[v] => u = v
    BY <2>1, <2>2, <2>3, <2>4
  <2> QED
    BY <2>5, <2>6, <2>7, <2>8, <2>9
<1>6. ASSUME NEW w \in Worker, ReportStart(w) PROVE MessageInv'
  <2>1. /\ UNCHANGED <<queue, repeated, pc>> /\ Rows' = Rows /\ Len(stage_runs') = Len(stage_runs)
        /\ wpc[w] = "start" /\ wpc' = [wpc EXCEPT ![w] = "execute"] /\ job' = job
    BY <1>6, LenProperties DEF ReportStart, SetJob, tickVars
  <2>2. /\ job[w] \in Rows
        /\ stage_runs'[job[w]].status = "running"
        /\ \A i \in Rows \ {job[w]} : stage_runs'[i] = stage_runs[i]
    BY <1>6, LenProperties, RowType DEF ReportStart, StageRun
  <2>3. \A k \in DOMAIN queue : queue[k] \in Rows
    BY LenProperties
  <2> QED
    BY <2>1, <2>2, <2>3
<1>7. ASSUME NEW w \in Worker, Execute(w) \/ ExecuteFails(w) PROVE MessageInv'
  <2>1. /\ UNCHANGED <<stage_runs, queue, repeated, pc>>
        /\ wpc[w] = "execute" /\ wpc' = [wpc EXCEPT ![w] = "report"] /\ job' = job
    BY <1>7 DEF Execute, ExecuteFails, SetJob, tickVars
  <2> QED
    BY <2>1
<1>8. ASSUME NEW w \in Worker, Report(w) PROVE MessageInv'
  <2>1. /\ UNCHANGED <<queue, repeated, pc>> /\ Rows' = Rows /\ Len(stage_runs') = Len(stage_runs)
        /\ wpc[w] = "report" /\ wpc' = [wpc EXCEPT ![w] = "idle"]
        /\ job' = [job EXCEPT ![w] = 0]
    BY <1>8, LenProperties DEF Report, SetJob, tickVars
  <2>2. /\ job[w] \in Rows
        /\ \A i \in Rows \ {job[w]} : stage_runs'[i] = stage_runs[i]
    BY <1>8, LenProperties DEF Report
  <2>3. \A k \in DOMAIN queue : queue[k] \in Rows
    BY LenProperties
  <2>4. JobInv'
    BY <2>1, <2>2
  <2>5. EnqueueInv'
    <3>1. SUFFICES ASSUME pc = "enqueue", Len(stage_runs) \notin repeated PROVE EnqueueInv'
      BY <2>1
    <3>2. Len(stage_runs) \in Rows /\ Len(stage_runs) # job[w]
      BY <3>1, EmptySeq
    <3>3. stage_runs'[Len(stage_runs)].status = "requested"
      BY <2>2, <3>1, <3>2
    <3>4. \A v \in Worker : job'[v] # Len(stage_runs)
      BY <2>1, <3>1, <3>2
    <3> QED
      BY <2>1, <3>1, <3>3, <3>4
  <2>6. InFlightOnce'
    BY <2>1, <2>2, <2>3
  <2> QED
    BY <2>4, <2>5, <2>6
<1>9. ASSUME NEW w \in Worker, LoseMessage(w) PROVE MessageInv'
  <2>1. /\ UNCHANGED <<stage_runs, queue, repeated, pc>>
        /\ wpc' = [wpc EXCEPT ![w] = "idle"] /\ job' = [job EXCEPT ![w] = 0]
    BY <1>9 DEF LoseMessage, SetJob, tickVars
  <2> QED
    BY <2>1
<1>10. CASE RepeatPush
  <2>1. Len(stage_runs) \in Rows
    BY <1>10, EmptySeq DEF RepeatPush
  <2>2. /\ Len(queue') = Len(queue) + 1
        /\ \A k \in 1..Len(queue) : queue'[k] = queue[k]
        /\ queue'[Len(queue) + 1] = Len(stage_runs)
        /\ queue' \in Seq(Rows)
    BY <1>10, <2>1, RowAppend DEF RepeatPush
  <2>3. DOMAIN queue' = DOMAIN queue \cup {Len(queue) + 1} /\ DOMAIN queue = 1..Len(queue)
    BY <2>2, LenProperties
  <2>4. UNCHANGED <<stage_runs, wpc, job, pc>> /\ repeated' = repeated \cup {Len(stage_runs)}
    BY <1>10 DEF RepeatPush, workVars, tickVars
  <2> QED
    BY <2>1, <2>2, <2>3, <2>4
<1> QED
  BY QuietOrLoud, <1>1, <1>2, <1>3, <1>4, <1>5, <1>6, <1>7, <1>8, <1>9, <1>10 DEF Loud, Work

(* The message of a row that was pushed once is in one place at most, and  *)
(* only while the row has no outcome, whichever other rows were pushed     *)
(* twice, whatever is lost and wherever ticks are dropped.                 *)
THEOREM MessagesCorrect == Spec => []InFlightOnce
<1>1. Init => Typed /\ MessageInv
  BY InitTyped, InitMessages
<1>2. Typed /\ MessageInv /\ [Next]_vars => (Typed /\ MessageInv)'
  BY NextTyped, NextMessages
<1>3. MessageInv => InFlightOnce
  BY DEF MessageInv
<1> QED
  BY <1>1, <1>2, <1>3, PTL DEF Spec

(* How a step may change row i: its outcome, once there, stays, unless a   *)
(* second copy of its message was pushed.                                  *)
RowStep(i) ==
  /\ stage_runs'[i].run = stage_runs[i].run
  /\ stage_runs'[i].stage = stage_runs[i].stage
  /\ stage_runs'[i].input_versions = stage_runs[i].input_versions
  /\ i \notin repeated /\ stage_runs[i].status \in {"completed", "failed"} =>
       /\ stage_runs'[i].status = stage_runs[i].status
       /\ stage_runs'[i].output_version = stage_runs[i].output_version
  /\ stage_runs[i].used_fallback => stage_runs'[i].used_fallback

LEMMA RowHistory ==
  ASSUME Typed, MessageInv, [Next]_vars
  PROVE  Rows \subseteq Rows' /\ \A i \in Rows : RowStep(i)
<1> USE DEF Typed, TypeOK, HandlesOK, Rows, RowStep
<1>1. CASE Quiet
  BY <1>1 DEF Quiet
<1>2. CASE MarkUsedFallback
  <2>1. stage_runs[failure] \in StageRun /\ failure \in Rows
    BY <1>2, RowType DEF MarkUsedFallback
  <2> QED
    BY <1>2, <2>1, LenProperties DEF MarkUsedFallback, StageRun
<1>3. CASE EnqueueStageRun \/ RepeatPush
  BY <1>3 DEF EnqueueStageRun, RepeatPush
<1>4. ASSUME NEW s \in Stage, CreateStageRun(s)
      PROVE Rows \subseteq Rows' /\ \A i \in Rows : RowStep(i)
  <2>1. Len(stage_runs) \in Nat /\ Len(stage_runs') = Len(stage_runs) + 1
    BY <1>4, RowAppended, LenProperties
  <2>2. \A i \in Rows : stage_runs'[i] = stage_runs[i]
    BY <1>4, RowAppended
  <2> QED
    BY <2>1, <2>2
<1>5. ASSUME NEW w \in Worker, Pop(w) \/ Execute(w) \/ ExecuteFails(w) \/ LoseMessage(w)
      PROVE Rows \subseteq Rows' /\ \A i \in Rows : RowStep(i)
  BY <1>5 DEF Pop, Execute, ExecuteFails, LoseMessage
<1>6. ASSUME NEW w \in Worker, ReportStart(w)
      PROVE Rows \subseteq Rows' /\ \A i \in Rows : RowStep(i)
  <2>1. /\ stage_runs[job[w]] \in StageRun /\ job[w] \in Rows
        /\ job[w] \notin repeated => stage_runs[job[w]].status = "requested"
    BY <1>6, RowType DEF ReportStart, MessageInv, JobInv
  <2> QED
    BY <1>6, <2>1, LenProperties DEF ReportStart, StageRun
<1>7. ASSUME NEW w \in Worker, Report(w)
      PROVE Rows \subseteq Rows' /\ \A i \in Rows : RowStep(i)
  <2>1. /\ stage_runs[job[w]] \in StageRun /\ job[w] \in Rows
        /\ job[w] \notin repeated => stage_runs[job[w]].status = "running"
    BY <1>7, RowType DEF Report, MessageInv, JobInv
  <2> QED
    BY <1>7, <2>1, LenProperties DEF Report, StageRun
<1> QED
  BY QuietOrLoud, <1>1, <1>2, <1>3, <1>4, <1>5, <1>6, <1>7 DEF Loud, Work

(* The reports update rows by id and look at no status; yet the outcome of *)
(* a row that was pushed once, also when others were pushed twice, is      *)
(* never overwritten.                                                      *)
THEOREM OutcomesAreFinal == Spec => OutcomeIsFinal
<1>1. Init => Typed /\ MessageInv
  BY InitTyped, InitMessages
<1>2. Typed /\ MessageInv /\ [Next]_vars => (Typed /\ MessageInv)'
  BY NextTyped, NextMessages
<1>3. Typed /\ MessageInv /\ [Next]_vars =>
        [\A i \in Rows \ repeated :
           stage_runs[i].status \in {"completed", "failed"} =>
             /\ stage_runs'[i].status = stage_runs[i].status
             /\ stage_runs'[i].output_version = stage_runs[i].output_version]_vars
  BY RowHistory DEF RowStep
<1> QED
  BY <1>1, <1>2, <1>3, PTL DEF Spec, OutcomeIsFinal

-----------------------------------------------------------------------------
(* Dispatch.                                                               *)

LEMMA InitDispatch == Init => DispatchInv
<1> SUFFICES ASSUME Init PROVE DispatchInv
  OBVIOUS
<1>1. Rows = {}
  BY EmptySeq DEF Init, Rows
<1> QED
  BY <1>1 DEF Init, DispatchInv, SnapshotInv, StartedInv, DispatchedOnce, InLoop

(* Only CreateStageRun adds a row.                                         *)
LEMMA SameRows ==
  ASSUME Typed, [Next]_vars, ~\E s \in Stage : CreateStageRun(s)
  PROVE  Rows' = Rows
<1> USE DEF Typed, TypeOK, HandlesOK, Rows
<1>1. CASE Quiet
  BY <1>1 DEF Quiet
<1>2. CASE MarkUsedFallback
  BY <1>2, LenProperties DEF MarkUsedFallback
<1>3. CASE EnqueueStageRun \/ RepeatPush
  BY <1>3 DEF EnqueueStageRun, RepeatPush
<1>4. ASSUME NEW w \in Worker, Work(w) \/ LoseMessage(w) PROVE Rows' = Rows
  BY <1>4, LenProperties
  DEF Work, Pop, ReportStart, Execute, ExecuteFails, Report, LoseMessage
<1> QED
  BY QuietOrLoud, <1>1, <1>2, <1>3, <1>4 DEF Loud

LEMMA SameStages ==
  ASSUME Typed, MessageInv, [Next]_vars, Rows' = Rows, NEW r
  PROVE  StagesOf(StageRunsOf(r))' = StagesOf(StageRunsOf(r))
  BY RowHistory DEF StagesOf, StageRunsOf, RowStep

(* The snapshot stays good: a status changes only where the tick leaves    *)
(* the run it belongs to.                                                  *)
LEMMA NextSnapshot == Typed /\ SnapshotInv /\ [Next]_vars => SnapshotInv'
<1> SUFFICES ASSUME Typed, SnapshotInv, [Next]_vars PROVE SnapshotInv'
  OBVIOUS
<1> USE DEF Typed, TypeOK, HandlesOK, SnapshotInv, InLoop, runVars, storeVars, localVars, tickVars
<1>1. CASE BeginTick \/ EndTick
  BY <1>1 DEF BeginTick, EndTick
<1>2. ASSUME NEW r \in Run, CancelRun(r) \/ RejectRun(r) PROVE SnapshotInv'
  BY <1>2 DEF CancelRun, RejectRun, SkipRun, SetStatus
<1>3. ASSUME NEW r \in Run, ReadStageRuns(r) PROVE SnapshotInv'
  <2>1. pc' \in {"complete", "external", "dispatch", "failure"}
    BY <1>3 DEF ReadStageRuns, Resume
  <2> QED
    BY <1>3, <2>1 DEF ReadStageRuns
<1>4. CASE FallBack \/ Halt
  BY <1>4 DEF FallBack, Halt
<1>5. CASE MarkUsedFallback
  <2>1. pc' \in {"complete", "external", "dispatch"}
    BY <1>5 DEF MarkUsedFallback, Resume
  <2> QED
    BY <1>5, <2>1 DEF MarkUsedFallback
<1>6. ASSUME NEW n \in Name, ResolveExternal(n) \/ FailExternal(n) PROVE SnapshotInv'
  BY <1>6 DEF ResolveExternal, FailExternal
<1>7. ASSUME NEW s \in Stage, CreateStageRun(s) PROVE SnapshotInv'
  BY <1>7 DEF CreateStageRun
<1>8. CASE EnqueueStageRun
  BY <1>8 DEF EnqueueStageRun
<1>9. CASE MarkRunning
  BY <1>9 DEF MarkRunning, Settle, LeaveRun, SetStatus, Active
<1>10. CASE KeepStatus
  BY <1>10 DEF KeepStatus, Settle, LeaveRun
<1>11. CASE CompleteRun \/ FailRun
  BY <1>11 DEF CompleteRun, FailRun, LeaveRun, SetStatus
<1>12. CASE AbortTick \/ RepeatPush
  BY <1>12 DEF AbortTick, RepeatPush
<1>13. ASSUME NEW w \in Worker, Work(w) \/ LoseMessage(w) PROVE SnapshotInv'
  BY <1>13 DEF Work, Pop, ReportStart, Execute, ExecuteFails, Report, LoseMessage
<1>14. CASE Clients
  BY <1>14 DEF Clients, RequestCancel, WriteCancel, Inject, PromoteVersion
<1>15. CASE UNCHANGED vars
  BY <1>15 DEF vars
<1> QED
  BY <1>1, <1>2, <1>3, <1>4, <1>5, <1>6, <1>7, <1>8, <1>9, <1>10, <1>11, <1>12, <1>13,
     <1>14, <1>15
  DEF Next, Scheduler

LEMMA NextStarted ==
  Typed /\ MessageInv /\ StartedInv /\ [Next]_vars => StartedInv'
<1> SUFFICES ASSUME Typed, MessageInv, StartedInv, [Next]_vars PROVE StartedInv'
  OBVIOUS
<1> USE DEF StartedInv, InLoop
<1>1. ASSUME NEW s \in Stage, CreateStageRun(s) PROVE StartedInv'
  <2>1. /\ run' = run /\ started' = started /\ pc = "dispatch" /\ pc' = "enqueue"
        /\ run \in Run
    BY <1>1 DEF CreateStageRun, localVars, Typed, HandlesOK
  <2>2. /\ Rows' = Rows \cup {Len(stage_runs')}
        /\ \A i \in Rows : stage_runs'[i] = stage_runs[i]
        /\ stage_runs'[Len(stage_runs')].run = run
        /\ stage_runs'[Len(stage_runs')].stage = s
    BY <1>1, NewRow
  <2>3. StagesOf(StageRunsOf(run))' = StagesOf(StageRunsOf(run)) \cup {s}
    BY <2>1, <2>2 DEF StagesOf, StageRunsOf
  <2> QED
    BY <2>1, <2>2, <2>3
<1>2. ASSUME ~\E s \in Stage : CreateStageRun(s) PROVE StartedInv'
  <2>1. Rows' = Rows
    BY <1>2, SameRows
  <2>2. \A r \in Run : StagesOf(StageRunsOf(r))' = StagesOf(StageRunsOf(r))
    BY <2>1, SameStages
  <2>3. Len(stage_runs') = Len(stage_runs)
    BY <2>1, NextTyped, LenProperties DEF Rows, Typed, TypeOK
  <2>4. pc = "enqueue" =>
          /\ run \in Run
          /\ stage_runs'[Len(stage_runs)].stage = stage_runs[Len(stage_runs)].stage
          /\ stage_runs'[Len(stage_runs)].run = stage_runs[Len(stage_runs)].run
    <3> SUFFICES ASSUME pc = "enqueue"
                 PROVE  /\ run \in Run
                        /\ RowStep(Len(stage_runs))
      BY DEF RowStep
    <3>1. run \in Run /\ Len(stage_runs) \in Rows
      BY EmptySeq DEF Typed, TypeOK, HandlesOK, Rows
    <3> QED
      BY <3>1, RowHistory
  <2>5. ASSUME UNCHANGED <<pc, run, started>> PROVE StartedInv'
    <3>1. InLoop => run \in Run
      BY DEF Typed, HandlesOK
    <3> QED
      BY <2>2, <2>3, <2>4, <2>5, <3>1
  <2>6. ASSUME NEW r \in Run, ReadStageRuns(r) PROVE StartedInv'
    BY <2>2, <2>6 DEF ReadStageRuns, Resume
  <2>7. CASE EnqueueStageRun
    <3>1. /\ run' = run /\ pc = "enqueue" /\ pc' = "dispatch" /\ run \in Run
          /\ started' = started \cup {stage_runs[Len(stage_runs)].stage}
      BY <2>7 DEF EnqueueStageRun, Typed, HandlesOK
    <3> QED
      BY <2>2, <3>1
  <2>8. ASSUME pc' \in {"idle", "next"} PROVE StartedInv'
    BY <2>8
  <2>9. ASSUME UNCHANGED <<run, started>>, InLoop, pc # "enqueue", pc' # "enqueue"
        PROVE StartedInv'
    BY <2>2, <2>9 DEF Typed, HandlesOK
  <2>10. CASE BeginTick \/ EndTick \/ CompleteRun \/ FailRun \/ AbortTick
    BY <2>8, <2>10 DEF BeginTick, EndTick, CompleteRun, FailRun, AbortTick, LeaveRun
  <2>11. ASSUME NEW r \in Run, CancelRun(r) \/ RejectRun(r) PROVE StartedInv'
    BY <2>5, <2>11 DEF CancelRun, RejectRun, SkipRun, localVars
  <2>12. CASE FallBack \/ Halt
    BY <2>9, <2>12 DEF FallBack, Halt, localVars
  <2>13. CASE MarkUsedFallback
    BY <2>9, <2>13 DEF MarkUsedFallback, Resume
  <2>14. ASSUME NEW n \in Name, ResolveExternal(n) \/ FailExternal(n) PROVE StartedInv'
    BY <2>9, <2>14 DEF ResolveExternal, FailExternal, localVars
  <2>15. CASE MarkRunning \/ KeepStatus
    BY <2>8, <2>9, <2>15 DEF MarkRunning, KeepStatus, Settle, LeaveRun, localVars
  <2>16. ASSUME NEW w \in Worker, Work(w) \/ LoseMessage(w) PROVE StartedInv'
    BY <2>5, <2>16
    DEF Work, Pop, ReportStart, Execute, ExecuteFails, Report, LoseMessage, tickVars, localVars
  <2>17. CASE Clients
    BY <2>5, <2>17
    DEF Clients, RequestCancel, WriteCancel, Inject, PromoteVersion, tickVars, localVars
  <2>18. CASE RepeatPush \/ UNCHANGED vars
    BY <2>5, <2>18 DEF RepeatPush, vars, tickVars, localVars
  <2> QED
    BY <1>2, <2>6, <2>7, <2>10, <2>11, <2>12, <2>13, <2>14, <2>15, <2>16, <2>17, <2>18
    DEF Next, Scheduler
<1> QED
  BY <1>1, <1>2

LEMMA NextOnce ==
  Typed /\ MessageInv /\ StartedInv /\ DispatchedOnce /\ [Next]_vars => DispatchedOnce'
<1> SUFFICES ASSUME Typed, MessageInv, StartedInv, DispatchedOnce, [Next]_vars
             PROVE  DispatchedOnce'
  OBVIOUS
<1>1. ASSUME NEW s \in Stage, CreateStageRun(s) PROVE DispatchedOnce'
  <2>1. /\ Rows' = Rows \cup {Len(stage_runs')} /\ Len(stage_runs') \notin Rows
        /\ \A i \in Rows : stage_runs'[i] = stage_runs[i]
        /\ stage_runs'[Len(stage_runs')].run = run
        /\ stage_runs'[Len(stage_runs')].stage = s
    BY <1>1, NewRow
  <2>2. s \notin StagesOf(StageRunsOf(run))
    BY <1>1 DEF CreateStageRun, Ready, StartedInv, InLoop
  <2>3. \A i \in Rows : stage_runs[i].run = run => stage_runs[i].stage # s
    BY <2>2 DEF StagesOf, StageRunsOf
  <2> QED
    BY <2>1, <2>3 DEF DispatchedOnce
<1>2. ASSUME ~\E s \in Stage : CreateStageRun(s) PROVE DispatchedOnce'
  <2>1. Rows' = Rows /\ \A i \in Rows : RowStep(i)
    BY <1>2, SameRows, RowHistory
  <2> QED
    BY <2>1 DEF DispatchedOnce, RowStep
<1> QED
  BY <1>1, <1>2

LEMMA NextDispatch ==
  Typed /\ MessageInv /\ DispatchInv /\ [Next]_vars => DispatchInv'
  BY NextSnapshot, NextStarted, NextOnce DEF DispatchInv

(* No stage of a run is ever dispatched twice, wherever ticks are dropped  *)
(* and whichever messages are lost.                                        *)
THEOREM EachStageOnce == Spec => []DispatchedOnce
<1>1. Init => Typed /\ MessageInv /\ DispatchInv
  BY InitTyped, InitMessages, InitDispatch
<1>2. Typed /\ MessageInv /\ DispatchInv /\ [Next]_vars
        => (Typed /\ MessageInv /\ DispatchInv)'
  BY NextTyped, NextMessages, NextDispatch
<1>3. DispatchInv => DispatchedOnce
  BY DEF DispatchInv
<1> QED
  BY <1>1, <1>2, <1>3, PTL DEF Spec

(* A run that completed, failed or was cancelled stays so.                 *)
THEOREM TerminalStaysFinal == Spec => TerminalIsFinal
<1>1. Init => Typed /\ SnapshotInv
  BY InitTyped, InitDispatch DEF DispatchInv
<1>2. Typed /\ SnapshotInv /\ [Next]_vars => (Typed /\ SnapshotInv)'
  BY NextTyped, NextSnapshot
<1>3. Typed /\ SnapshotInv /\ [Next]_vars =>
        [\A r \in Run : status[r] \in Terminal => status'[r] = status[r]]_vars
  <2> SUFFICES ASSUME Typed, SnapshotInv, Next, NEW r \in Run, status[r] \in Terminal
               PROVE  status'[r] = status[r]
    BY DEF vars, runVars
  <2>1. CASE status' = status
    BY <2>1
  <2>2. ASSUME NEW q \in Run, NEW st, status[q] \in Active,
               status' = [status EXCEPT ![q] = st]
        PROVE  status'[r] = status[r]
    BY <2>2 DEF Active, Terminal, Typed, TypeOK
  <2>3. ASSUME NEW q \in Run, CancelRun(q) \/ RejectRun(q) PROVE status'[r] = status[r]
    BY <2>2, <2>3 DEF CancelRun, RejectRun, SkipRun, SetStatus, SnapshotInv
  <2>4. CASE MarkRunning \/ CompleteRun \/ FailRun
    BY <2>2, <2>4
    DEF MarkRunning, CompleteRun, FailRun, SetStatus, SnapshotInv, InLoop
  <2>5. CASE BeginTick \/ EndTick \/ FallBack \/ Halt \/ MarkUsedFallback
             \/ EnqueueStageRun \/ KeepStatus \/ AbortTick \/ RepeatPush
    BY <2>1, <2>5
    DEF BeginTick, EndTick, FallBack, Halt, MarkUsedFallback, EnqueueStageRun, KeepStatus,
        AbortTick, RepeatPush, runVars
  <2>6. ASSUME NEW q \in Run, ReadStageRuns(q) PROVE status'[r] = status[r]
    BY <2>1, <2>6 DEF ReadStageRuns, runVars
  <2>7. ASSUME NEW n \in Name, ResolveExternal(n) \/ FailExternal(n)
        PROVE status'[r] = status[r]
    BY <2>1, <2>7 DEF ResolveExternal, FailExternal, runVars
  <2>8. ASSUME NEW s \in Stage, CreateStageRun(s) PROVE status'[r] = status[r]
    BY <2>1, <2>8 DEF CreateStageRun, runVars
  <2>9. ASSUME NEW w \in Worker, Work(w) \/ LoseMessage(w) PROVE status'[r] = status[r]
    BY <2>1, <2>9
    DEF Work, Pop, ReportStart, Execute, ExecuteFails, Report, LoseMessage, runVars
  <2>10. CASE Clients
    BY <2>1, <2>10 DEF Clients, RequestCancel, WriteCancel, Inject, PromoteVersion, runVars
  <2> QED
    BY <2>3, <2>4, <2>5, <2>6, <2>7, <2>8, <2>9, <2>10 DEF Next, Scheduler
<1> QED
  BY <1>1, <1>2, <1>3, PTL DEF Spec, TerminalIsFinal

-----------------------------------------------------------------------------
(* Where no tick is dropped and no worker dies.                            *)

OnItsWay(i) ==
  \/ \E k \in DOMAIN queue : queue[k] = i
  \/ \E w \in Worker : job[w] = i
  \/ pc = "enqueue" /\ i = Len(stage_runs)

Waits(i) == stage_runs[i].status \in {"requested", "running"}

(* While a row's message is to be queued, the tick does nothing else.      *)
LEMMA EnqueueStays ==
  ASSUME Faults \subseteq {"outage", "repeat"}, [Next]_vars, ~Loud
  PROVE  pc = "enqueue" => pc' = pc
<1> SUFFICES ASSUME pc = "enqueue" PROVE pc' = pc
  OBVIOUS
<1>1. CASE Scheduler
  BY <1>1
     DEF Scheduler, BeginTick, EndTick, CancelRun, RejectRun, SkipRun, ReadStageRuns, FallBack,
         Halt, ResolveExternal, FailExternal, MarkRunning, KeepStatus, CompleteRun, FailRun, Loud
<1>2. CASE AbortTick
  BY <1>2 DEF AbortTick
<1>3. CASE Clients
  BY <1>3 DEF Clients, RequestCancel, WriteCancel, Inject, PromoteVersion, tickVars
<1>4. CASE UNCHANGED vars
  BY <1>4 DEF vars, tickVars
<1> QED  BY <1>1, <1>2, <1>3, <1>4 DEF Next, Loud

LEMMA NextStranded ==
  ASSUME Faults \subseteq {"outage", "repeat"}, Typed, MessageInv, NothingStranded, [Next]_vars
  PROVE  NothingStranded'
<1> USE DEF Typed, TypeOK, HandlesOK, Rows
<1>0. \A i \in Rows : Waits(i) => OnItsWay(i)
  BY DEF NothingStranded, Waits, OnItsWay
<1>1. SUFFICES \A i \in Rows' : Waits(i)' => OnItsWay(i)'
  BY DEF NothingStranded, Waits, OnItsWay
<1>2. CASE Quiet /\ ~Loud
  BY <1>0, <1>2, EnqueueStays DEF Quiet, Waits, OnItsWay
<1>3. CASE MarkUsedFallback
  <2>1. /\ \A i \in Rows : stage_runs'[i].status = stage_runs[i].status
        /\ Rows' = Rows /\ pc = "mark_fallback" /\ UNCHANGED <<queue, job>>
    BY <1>3, LenProperties DEF MarkUsedFallback, workVars
  <2> QED  BY <1>0, <2>1 DEF Waits, OnItsWay
<1>4. CASE EnqueueStageRun \/ RepeatPush
  <2>1. Len(stage_runs) \in Rows
    BY <1>4, EmptySeq DEF EnqueueStageRun, RepeatPush
  <2>5. queue' = Append(queue, Len(stage_runs))
    BY <1>4 DEF EnqueueStageRun, RepeatPush
  <2>2. /\ Len(queue') = Len(queue) + 1
        /\ \A k \in 1..Len(queue) : queue'[k] = queue[k]
        /\ queue'[Len(queue) + 1] = Len(stage_runs)
        /\ queue' \in Seq(Rows)
    BY <2>1, <2>5, RowAppend
  <2>3. DOMAIN queue' = DOMAIN queue \cup {Len(queue) + 1} /\ DOMAIN queue = 1..Len(queue)
    BY <2>2, LenProperties
  <2>4. UNCHANGED <<stage_runs, job>>
    BY <1>4 DEF EnqueueStageRun, RepeatPush, workVars
  <2> QED  BY <1>0, <2>2, <2>3, <2>4 DEF Waits, OnItsWay
<1>5. ASSUME NEW s \in Stage, CreateStageRun(s)
      PROVE  \A i \in Rows' : Waits(i)' => OnItsWay(i)'
  <2>1. /\ UNCHANGED <<queue, job>> /\ pc = "dispatch" /\ pc' = "enqueue"
        /\ Rows' = Rows \cup {Len(stage_runs')}
        /\ \A i \in Rows : stage_runs'[i] = stage_runs[i]
    BY <1>5, NewRow DEF CreateStageRun, workVars
  <2> QED  BY <1>0, <2>1 DEF Waits, OnItsWay
<1>6. ASSUME NEW w \in Worker, Pop(w)
      PROVE  \A i \in Rows' : Waits(i)' => OnItsWay(i)'
  <2>1. /\ UNCHANGED <<stage_runs, pc>> /\ queue' = Tail(queue) /\ job[w] = 0
        /\ job'[w] = queue[1] /\ \A v \in Worker \ {w} : job'[v] = job[v]
    BY <1>6, HeadTailProperties DEF Pop, SetJob, tickVars, MessageInv, JobInv
  <2>2. ASSUME NEW k \in DOMAIN queue, k # 1
        PROVE  k - 1 \in DOMAIN Tail(queue) /\ Tail(queue)[k - 1] = queue[k]
    BY <1>6, <2>2, HeadTailProperties, LenProperties DEF Pop
  <2>3. ASSUME NEW i \in Rows', Waits(i)' PROVE OnItsWay(i)'
    <3>1. i \in Rows /\ i # 0 /\ OnItsWay(i)
      BY <1>0, <2>1, <2>3 DEF Waits
    <3>2. ASSUME NEW k \in DOMAIN queue, queue[k] = i PROVE OnItsWay(i)'
      BY <2>1, <2>2, <3>2 DEF OnItsWay
    <3>3. ASSUME NEW v \in Worker, job[v] = i PROVE OnItsWay(i)'
      BY <2>1, <3>1, <3>3 DEF OnItsWay
    <3> QED  BY <2>1, <3>1, <3>2, <3>3 DEF OnItsWay
  <2> QED  BY <2>3
<1>7. ASSUME NEW w \in Worker, ReportStart(w) \/ Execute(w) \/ ExecuteFails(w)
      PROVE  \A i \in Rows' : Waits(i)' => OnItsWay(i)'
  <2>1. /\ UNCHANGED <<queue, pc>> /\ job' = job
        /\ Rows' = Rows /\ Len(stage_runs') = Len(stage_runs)
        /\ \A i \in Rows : i # job[w] => stage_runs'[i] = stage_runs[i]
    BY <1>7, LenProperties DEF ReportStart, Execute, ExecuteFails, SetJob, tickVars
  <2> QED  BY <1>0, <2>1 DEF Waits, OnItsWay
<1>8. ASSUME NEW w \in Worker, Report(w)
      PROVE  \A i \in Rows' : Waits(i)' => OnItsWay(i)'
  <2>1. /\ UNCHANGED <<queue, repeated, pc>> /\ Rows' = Rows /\ Len(stage_runs') = Len(stage_runs)
        /\ \A v \in Worker \ {w} : job'[v] = job[v]
        /\ \A i \in Rows \ {job[w]} : stage_runs'[i] = stage_runs[i]
        /\ job[w] \in Rows
    BY <1>8, LenProperties DEF Report, SetJob, tickVars
  <2>2. stage_runs'[job[w]].status \in {"completed", "failed"}
    BY <1>8, <2>1, RowType DEF Report, StageRun
  <2>3. ASSUME NEW i \in Rows', Waits(i)' PROVE OnItsWay(i)'
    <3>1. i \in Rows /\ i # job[w]
      BY <2>1, <2>2, <2>3 DEF Waits
    <3>2. OnItsWay(i)
      BY <1>0, <2>1, <2>3, <3>1 DEF Waits
    <3> QED  BY <2>1, <3>1, <3>2 DEF OnItsWay
  <2> QED  BY <2>3
<1>9. ASSUME NEW w \in Worker PROVE ~LoseMessage(w)
  BY DEF LoseMessage
<1> QED
  BY QuietOrLoud, <1>2, <1>3, <1>4, <1>5, <1>6, <1>7, <1>8, <1>9 DEF Loud, Work

(* The queue, the worker loop and dispatch: as long as no tick is dropped  *)
(* and no message is lost, no stage run is forgotten, whether or not       *)
(* resource_store answers, and also when messages are pushed twice.        *)
THEOREM NoneIsForgotten ==
  ASSUME Faults \subseteq {"outage", "repeat"}
  PROVE  Spec => []NothingStranded
<1>1. Init => Typed /\ MessageInv /\ NothingStranded
  <2>1. Init => Rows = {}
    BY EmptySeq DEF Init, Rows
  <2> QED  BY <2>1, InitTyped, InitMessages DEF NothingStranded
<1>2. Typed /\ MessageInv /\ NothingStranded /\ [Next]_vars
        => (Typed /\ MessageInv /\ NothingStranded)'
  BY NextTyped, NextMessages, NextStranded
<1> QED  BY <1>1, <1>2, PTL DEF Spec
=============================================================================
