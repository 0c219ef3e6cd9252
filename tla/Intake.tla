-------------------------------- MODULE Intake --------------------------------
(***************************************************************************)
(* How requests become workflow runs: the schedules and the recurring      *)
(* rules that clients register and cancel through workflow_service, and    *)
(* the two intake phases of the scheduler's tick, which mint the runs.     *)
(* Both sides work on the same Postgres tables, and every statement        *)
(* commits by itself, so one action is one statement.  The progression     *)
(* phase of the tick, which touches neither table, is in Progression.      *)
(***************************************************************************)
EXTENDS Naturals, Sequences, FiniteSets

CONSTANTS
  Name,         \* names of stages
  Ask,          \* what a run may be requested with
  Cadence,      \* the cadences rules are registered with
  None,         \* SQL NULL / Python None
  MaxTime,      \* bound: the clock stops here
  MaxSchedules, \* bound: rows of schedules
  MaxRules,     \* bound: rows of recurring_schedules
  MaxDrops      \* bound: ticks dropped half way

(* A cron expression is taken to fire at every multiple of its period.     *)
CadenceType == [kind : {"cron", "interval"}, period : Nat \ {0}]

(* The range of stages and whether to promote; the pins and the failure    *)
(* policy of a request go from row to row in the same way.                 *)
AskType(P) ==
  [start_from : Name \cup {None}, stop_after : Name \cup {None}, promote : P]

ASSUME IntakeAssumption ==
  /\ Ask \subseteq AskType(BOOLEAN \cup {None})
  /\ Cadence \subseteq CadenceType
  /\ None \notin BOOLEAN
  /\ MaxTime \in Nat /\ MaxSchedules \in Nat /\ MaxRules \in Nat /\ MaxDrops \in Nat

VARIABLES
  now,        \* the clock that Postgres and the scheduler read
  schedules,  \* the schedules table; a row's id is its position
  rules,      \* the recurring_schedules table
  runs,       \* what the rows of runs were created with
  cancelling, \* schedules whose cancel passed its check and is not written yet
  pc,         \* where the scheduler is in its tick
  tick,       \* local of _intake_recurring: now
  todo,       \* rows of the phase's snapshot not reached yet
  item,       \* the row the loop body is at
  origin,     \* history: what each run was created for
  dropped     \* history: ticks dropped half way

tables == <<schedules, rules, runs, cancelling, origin, dropped>>
locals == <<pc, tick, todo, item>>
vars == <<now, tables, locals>>

Schedules == 1..Len(schedules)
Rules == 1..Len(rules)

(* croniter's get_next, or now plus the interval.                          *)
NextRunAt(every, t) ==
  IF every.kind = "cron" THEN t - (t % every.period) + every.period
  ELSE t + every.period

(* Mutant of ResolvePromote: what the client said, or NULL.                *)
ResolveNothing(q) == q.promote

(* promote, unless the client said: true for a full run only.              *)
ResolvePromote(q) ==
  IF q.promote # None THEN q.promote ELSE q.start_from = None /\ q.stop_after = None

Init ==
  /\ now = 0
  /\ schedules = <<>> /\ rules = <<>> /\ runs = <<>> /\ origin = <<>>
  /\ cancelling = {} /\ dropped = 0
  /\ pc = "idle" /\ tick = 0 /\ todo = {} /\ item = 0

Clock ==
  /\ now < MaxTime
  /\ now' = now + 1
  /\ UNCHANGED <<tables, locals>>

-----------------------------------------------------------------------------
(* workflow_service.  A run_at of 0 stands for NULL too: both are due.     *)

NewSchedule(q, t) ==
  [ask |-> q, run_at |-> t, dispatched |-> FALSE, run_id |-> 0, cancel_requested |-> FALSE]

RequestRun(q, t) ==
  /\ Len(schedules) < MaxSchedules
  /\ schedules' = Append(schedules, NewSchedule(q, t))
  /\ UNCHANGED <<now, rules, runs, cancelling, origin, dropped, locals>>

(* request_schedule_cancel looks at the row, and then updates it.          *)
RequestScheduleCancel(i) ==
  /\ ~schedules[i].dispatched
  /\ cancelling' = cancelling \cup {i}
  /\ UNCHANGED <<now, schedules, rules, runs, origin, dropped, locals>>

WriteScheduleCancel(i) ==
  /\ i \in cancelling
  /\ cancelling' = cancelling \ {i}
  /\ schedules' = [schedules EXCEPT ![i].cancel_requested = TRUE]
  /\ UNCHANGED <<now, rules, runs, origin, dropped, locals>>

(* t is when the request looked at the clock, before it inserts the row.   *)
NewRule(q, every, t) ==
  [ask |-> q, every |-> every, enabled |-> TRUE, next_run_at |-> NextRunAt(every, t),
   created_at |-> t]

CreateRecurring(q, every, t) ==
  /\ Len(rules) < MaxRules
  /\ rules' = Append(rules, NewRule(q, every, t))
  /\ UNCHANGED <<now, schedules, runs, cancelling, origin, dropped, locals>>

CancelRecurring(i) ==
  /\ rules' = [rules EXCEPT ![i].enabled = FALSE]
  /\ UNCHANGED <<now, schedules, runs, cancelling, origin, dropped, locals>>

Clients ==
  \/ \E q \in Ask, t \in 0..MaxTime : RequestRun(q, t)
  \/ \E i \in Schedules : RequestScheduleCancel(i) \/ WriteScheduleCancel(i)
  \/ \E q \in Ask, every \in Cadence, t \in 0..now : CreateRecurring(q, every, t)
  \/ \E i \in Rules : CancelRecurring(i)

-----------------------------------------------------------------------------
(* The scheduler's tick.                                                   *)

(* The INSERT into runs; by, id, due and stopped go to the history.        *)
CreateWorkflowRun(q, by, id, due, stopped) ==
  /\ runs' = Append(runs, [q EXCEPT !.promote = ResolvePromote(q)])
  /\ origin' = Append(origin,
       [by |-> by, id |-> id, due |-> due, began |-> tick, at |-> now, stopped |-> stopped])

(* _intake_recurring reads the clock, and then the rules that are due.     *)
BeginTick ==
  /\ pc = "idle"
  /\ pc' = "due"
  /\ tick' = now
  /\ UNCHANGED <<now, tables, todo, item>>

(* Mutant of SelectDue: the rules that are not enabled.                    *)
SelectDisabled ==
  /\ pc = "due"
  /\ pc' = "recurring"
  /\ todo' = {i \in Rules : ~rules[i].enabled /\ rules[i].next_run_at <= now}
  /\ UNCHANGED <<now, tables, tick, item>>

SelectDue ==
  /\ pc = "due"
  /\ pc' = "recurring"
  /\ todo' = {i \in Rules : rules[i].enabled /\ rules[i].next_run_at <= now}
  /\ UNCHANGED <<now, tables, tick, item>>

FireRule(i) ==
  /\ pc = "recurring"
  /\ i \in todo
  /\ CreateWorkflowRun(rules[i].ask, "rule", i, rules[i].next_run_at, ~rules[i].enabled)
  /\ pc' = "advance"
  /\ item' = i /\ todo' = todo \ {i}
  /\ UNCHANGED <<now, schedules, rules, cancelling, dropped, tick>>

(* Mutants of AdvanceRule: the next time is counted from the creation; the *)
(* clock is read when the rule is advanced.                                *)
AdvanceFromCreation ==
  /\ pc = "advance"
  /\ rules' = [rules EXCEPT ![item].next_run_at = NextRunAt(rules[item].every, rules[item].created_at)]
  /\ pc' = "recurring"
  /\ item' = 0
  /\ UNCHANGED <<now, schedules, runs, cancelling, origin, dropped, tick, todo>>

AdvanceFromNow ==
  /\ pc = "advance"
  /\ rules' = [rules EXCEPT ![item].next_run_at = NextRunAt(rules[item].every, now)]
  /\ pc' = "recurring"
  /\ item' = 0
  /\ UNCHANGED <<now, schedules, runs, cancelling, origin, dropped, tick, todo>>

AdvanceRule ==
  /\ pc = "advance"
  /\ rules' = [rules EXCEPT ![item].next_run_at = NextRunAt(rules[item].every, tick)]
  /\ pc' = "recurring"
  /\ item' = 0
  /\ UNCHANGED <<now, schedules, runs, cancelling, origin, dropped, tick, todo>>

(* Mutants of Pending: cancelled or dispatched schedules are drained too;  *)
(* one with no run_at is never due.                                        *)
PendingOrCancelled == {i \in Schedules : ~schedules[i].dispatched /\ schedules[i].run_at <= now}
PendingOrDispatched ==
  {i \in Schedules : ~schedules[i].cancel_requested /\ schedules[i].run_at <= now}
PendingDelayed ==
  {i \in Schedules :
     ~schedules[i].dispatched /\ schedules[i].run_at \in 1..now /\ ~schedules[i].cancel_requested}

(* pending_schedules().                                                    *)
Pending ==
  {i \in Schedules :
     ~schedules[i].dispatched /\ schedules[i].run_at <= now /\ ~schedules[i].cancel_requested}

SelectPending ==
  /\ pc = "recurring"
  /\ todo = {}
  /\ pc' = "intake"
  /\ todo' = Pending
  /\ UNCHANGED <<now, tables, tick, item>>

DispatchSchedule(i) ==
  /\ pc = "intake"
  /\ i \in todo
  /\ CreateWorkflowRun(schedules[i].ask, "schedule", i, schedules[i].run_at,
                       schedules[i].cancel_requested)
  /\ pc' = "mark"
  /\ item' = i /\ todo' = todo \ {i}
  /\ UNCHANGED <<now, schedules, rules, cancelling, dropped, tick>>

(* Mutant of MarkDispatched: the first run is given.                       *)
MarkFirstRun ==
  /\ pc = "mark"
  /\ schedules' = [schedules EXCEPT ![item].dispatched = TRUE, ![item].run_id = 1]
  /\ pc' = "intake"
  /\ item' = 0
  /\ UNCHANGED <<now, rules, runs, cancelling, origin, dropped, tick, todo>>

(* run_id is the id that create_workflow_run returned: that of the last    *)
(* row, for only this process inserts into runs.                           *)
MarkDispatched ==
  /\ pc = "mark"
  /\ schedules' = [schedules EXCEPT ![item].dispatched = TRUE, ![item].run_id = Len(runs)]
  /\ pc' = "intake"
  /\ item' = 0
  /\ UNCHANGED <<now, rules, runs, cancelling, origin, dropped, tick, todo>>

EndIntake ==
  /\ pc = "intake"
  /\ todo = {}
  /\ pc' = "idle"
  /\ tick' = 0
  /\ UNCHANGED <<now, tables, todo, item>>

(* A statement raises and main() drops the rest of the tick, or the        *)
(* process dies and is started again.                                      *)
AbortTick ==
  /\ dropped < MaxDrops
  /\ pc # "idle"
  /\ pc' = "idle"
  /\ tick' = 0 /\ todo' = {} /\ item' = 0
  /\ dropped' = dropped + 1
  /\ UNCHANGED <<now, schedules, rules, runs, cancelling, origin>>

Scheduler ==
  \/ BeginTick
  \/ SelectDue \/ \E i \in Rules : FireRule(i)
  \/ AdvanceRule
  \/ SelectPending \/ \E i \in Schedules : DispatchSchedule(i)
  \/ MarkDispatched
  \/ EndIntake

Next == Clock \/ Clients \/ Scheduler \/ AbortTick

Spec == Init /\ [][Next]_vars

(* main() polls for ever and time passes; clients need not do anything.    *)
FairSpec == Spec /\ WF_vars(Scheduler)

-----------------------------------------------------------------------------
ScheduleRow ==
  [ask : Ask, run_at : Nat, dispatched : BOOLEAN, run_id : Nat, cancel_requested : BOOLEAN]

RuleRow ==
  [ask : Ask, every : Cadence, enabled : BOOLEAN, next_run_at : Nat, created_at : Nat]

Origin ==
  [by : {"rule", "schedule"}, id : Nat, due : Nat, began : Nat, at : Nat, stopped : BOOLEAN]

(* Every variable has its type.                                            *)
TypeOK ==
  /\ now \in Nat
  /\ schedules \in Seq(ScheduleRow)
  /\ rules \in Seq(RuleRow)
  /\ runs \in Seq(AskType(BOOLEAN))
  /\ origin \in Seq(Origin) /\ Len(origin) = Len(runs)
  /\ cancelling \subseteq Schedules
  /\ pc \in {"idle", "due", "recurring", "advance", "intake", "mark"}
  /\ tick \in Nat /\ dropped \in Nat
  /\ todo \subseteq Nat
  /\ item \in Nat

(* The runs created for a schedule or a rule.                              *)
RunsFor(by, i) == {r \in DOMAIN origin : origin[r].by = by /\ origin[r].id = i}

(* get_schedule_status proxies the run that run_id names: it is one that   *)
(* was created for this schedule, with what its client asked for, also     *)
(* after ticks were dropped between creating a run and recording its id.   *)
RunIdIsItsRun ==
  \A i \in Schedules :
    schedules[i].dispatched =>
      /\ schedules[i].run_id \in RunsFor("schedule", i)
      /\ runs[schedules[i].run_id] =
           [schedules[i].ask EXCEPT !.promote = ResolvePromote(schedules[i].ask)]

(* Once the cancel of a schedule or a rule is recorded, at most one more   *)
(* run comes of it: from a tick that had selected it before.               *)
CancelStopsAllButOne ==
  \A by \in {"rule", "schedule"}, r, s \in DOMAIN origin :
    /\ r \in RunsFor(by, origin[s].id) /\ s \in RunsFor(by, origin[s].id)
    /\ origin[r].stopped /\ origin[s].stopped
    => r = s

(* A cron rule may fire late and may fire once for several occurrences,    *)
(* but no occurrence is passed over: a run was created at or after it.     *)
NoneSkipped ==
  \A i \in Rules : rules[i].every.kind = "cron" =>
    \A t \in (rules[i].created_at + 1)..(rules[i].next_run_at - 1) :
      t % rules[i].every.period = 0 => \E r \in RunsFor("rule", i) : origin[r].at >= t

(* request_run triggers a run once: a schedule becomes a second run only   *)
(* when the tick that created the first was dropped before it marked the   *)
(* schedule, and so has at most one run more than ticks were dropped.      *)
OneRunPerSchedule ==
  \A i \in Schedules : Cardinality(RunsFor("schedule", i)) <= dropped + 1

(* "advance next_run_at to the next occurrence": a rule fires again for    *)
(* the time it has fired for only when a tick was dropped before it had    *)
(* advanced the rule, or had read its clock before that time.              *)
Firings(i, t) == {r \in RunsFor("rule", i) : origin[r].due = t /\ origin[r].began >= t}

FiredOnceIfNoticed ==
  \A i \in Rules, t \in 0..now : Cardinality(Firings(i, t)) <= dropped + 1

(* The inductive invariant.  What is in todo was selected by this tick: it *)
(* has rows, and a schedule of it has no outcome yet; item has its run,    *)
(* the last one, and is in todo no more.                                   *)
SelectedInv ==
  /\ pc \in {"idle", "due"} => todo = {}
  /\ pc \in {"recurring", "advance"} => todo \subseteq Rules
  /\ pc \in {"intake", "mark"} =>
       todo \subseteq Schedules /\ \A i \in todo : ~schedules[i].dispatched
  /\ tick <= now

ItemInv ==
  /\ pc \in {"advance", "mark"} => item \notin todo /\ Len(runs) > 0
  /\ pc = "advance" =>
       /\ item \in Rules
       /\ Len(runs) \in RunsFor("rule", item) /\ origin[Len(runs)].at >= tick
  /\ pc = "mark" =>
       /\ item \in Schedules /\ ~schedules[item].dispatched
       /\ Len(runs) \in RunsFor("schedule", item)
       /\ runs[Len(runs)] =
            [schedules[item].ask EXCEPT !.promote = ResolvePromote(schedules[item].ask)]

(* A run comes of a row that exists; one that came after the cancel was    *)
(* recorded was the last that the tick had selected.                       *)
OriginInv ==
  \A r \in DOMAIN origin :
    LET i == origin[r].id IN
    /\ origin[r].by = "schedule" =>
         /\ i \in Schedules
         /\ origin[r].stopped =>
              schedules[i].cancel_requested /\ (pc \in {"intake", "mark"} => i \notin todo)
    /\ origin[r].by = "rule" =>
         /\ i \in Rules
         /\ origin[r].stopped =>
              ~rules[i].enabled /\ (pc \in {"recurring", "advance"} => i \notin todo)

(* A run of a schedule is the one it is marked with, or about to be, or a  *)
(* tick was dropped for it.                                                *)
Marked(i) == schedules[i].dispatched \/ (pc = "mark" /\ item = i)

OnceInv ==
  \A i \in Schedules :
    Cardinality(RunsFor("schedule", i)) <= dropped + (IF Marked(i) THEN 1 ELSE 0)

(* A rule that fired for t is past t, or about to be advanced, or a tick   *)
(* was dropped for it.  The ticks read the clock in order.                 *)
Advanced(i, t) == rules[i].next_run_at > t \/ (pc = "advance" /\ item = i /\ tick >= t)

BeganInv ==
  \A r \in DOMAIN origin :
    origin[r].began <= now /\ (pc # "idle" => origin[r].began <= tick)

FiringsInv ==
  \A i \in Rules, t \in 0..now :
    Cardinality(Firings(i, t)) <= dropped + (IF Advanced(i, t) THEN 1 ELSE 0)

Inv ==
  SelectedInv /\ ItemInv /\ OriginInv /\ RunIdIsItsRun /\ CancelStopsAllButOne
    /\ NoneSkipped /\ OnceInv /\ BeganInv /\ FiringsInv

(* A schedule that is due is dispatched or cancelled, however often the    *)
(* rules fire.                                                             *)
DueIsDispatched ==
  \A i \in 1..MaxSchedules :
    i \in Schedules /\ schedules[i].run_at <= now
      ~> i \in Schedules /\ (schedules[i].dispatched \/ schedules[i].cancel_requested)

(* A rule that is due fires and has its next time set, unless it is        *)
(* cancelled.                                                              *)
DueRuleFires ==
  \A i \in 1..MaxRules, t \in 0..MaxTime :
    i \in Rules /\ rules[i].next_run_at = t /\ t <= now
      ~> i \in Rules /\ (rules[i].next_run_at # t \/ ~rules[i].enabled)

=============================================================================
