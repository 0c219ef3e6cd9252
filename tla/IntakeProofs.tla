----------------------------- MODULE IntakeProofs -----------------------------
(* Proofs of the safety of Intake, for any number of schedules, rules and  *)
(* ticks, any cadence, and a clock that goes on for ever.                  *)
EXTENDS Intake, SequenceTheorems, FiniteSetTheorems, TLAPS

-----------------------------------------------------------------------------
(* Arithmetic of the cron cadence, and sequences that grow.                *)

LEMMA CronIsNext ==
  ASSUME NEW p \in Nat \ {0}, NEW t \in Nat
  PROVE  /\ t - (t % p) + p \in Nat
         /\ \A u \in Nat : t < u /\ u < t - (t % p) + p => u % p # 0
<1> DEFINE q == t \div p
           m == t % p
<1>1. q \in Int /\ m \in 0..(p - 1) /\ t = p * q + m
  OBVIOUS
<1>2. t - m + p = p * q + p /\ t - m + p \in Nat
  BY <1>1
<1>3. SUFFICES ASSUME NEW u \in Nat, t < u, u < t - m + p, u % p = 0
               PROVE  FALSE
  BY <1>2
<1>4. PICK k \in Int : u = p * k
  <2>1. u \div p \in Int /\ u = p * (u \div p)
    BY <1>3
  <2> QED
    BY <2>1
<1> HIDE DEF q, m
<1>5. p * q \in Int /\ p * k \in Int /\ p * (q + 1) \in Int
  BY <1>1
<1>6. k <= q => p * k <= p * q
  BY <1>1
<1>7. k >= q + 1 => p * k >= p * (q + 1)
  BY <1>1
<1>8. p * (q + 1) = p * q + p
  BY <1>1
<1>9. p * q <= t /\ u < p * q + p
  BY <1>1, <1>2, <1>3, <1>5
<1> QED
  BY <1>1, <1>3, <1>4, <1>5, <1>6, <1>7, <1>8, <1>9

LEMMA NextRunAtType ==
  ASSUME NEW every \in CadenceType, NEW t \in Nat
  PROVE  NextRunAt(every, t) \in Nat
  BY CronIsNext DEF NextRunAt, CadenceType

LEMMA RowUpdate ==
  ASSUME NEW S, NEW q \in Seq(S), NEW i \in 1..Len(q), NEW x \in S
  PROVE  /\ [q EXCEPT ![i] = x] \in Seq(S)
         /\ Len([q EXCEPT ![i] = x]) = Len(q)
  BY ExceptSeq

LEMMA RowAppend ==
  ASSUME NEW S, NEW q \in Seq(S), NEW x \in S
  PROVE  /\ Append(q, x) \in Seq(S)
         /\ Len(Append(q, x)) = Len(q) + 1
         /\ \A i \in 1..Len(q) : Append(q, x)[i] = q[i]
         /\ Append(q, x)[Len(q) + 1] = x
  OBVIOUS

LEMMA ResolvedType ==
  ASSUME NEW q \in Ask
  PROVE  [q EXCEPT !.promote = ResolvePromote(q)] \in AskType(BOOLEAN)
  BY IntakeAssumption DEF AskType, ResolvePromote

-----------------------------------------------------------------------------
(* Types, and what no step takes back.                                     *)

LEMMA RowTypes ==
  ASSUME TypeOK
  PROVE  /\ \A i \in Schedules : schedules[i] \in ScheduleRow
         /\ \A i \in Rules : rules[i] \in RuleRow
         /\ \A r \in DOMAIN origin : origin[r] \in Origin /\ runs[r] \in AskType(BOOLEAN)
         /\ DOMAIN origin = 1..Len(runs) /\ DOMAIN runs = 1..Len(runs)
         /\ Len(schedules) \in Nat /\ Len(rules) \in Nat /\ Len(runs) \in Nat
  BY DEF TypeOK, Schedules, Rules

LEMMA TypeInit == Init => TypeOK
  BY IntakeAssumption DEF Init, TypeOK, Schedules

LEMMA CreateType ==
  ASSUME TypeOK, NEW q \in Ask, NEW by \in {"rule", "schedule"}, NEW id \in Nat,
         NEW due \in Nat, NEW stopped \in BOOLEAN, CreateWorkflowRun(q, by, id, due, stopped)
  PROVE  /\ runs' \in Seq(AskType(BOOLEAN))
         /\ origin' \in Seq(Origin) /\ Len(origin') = Len(runs')
<1>1. [q EXCEPT !.promote = ResolvePromote(q)] \in AskType(BOOLEAN)
  BY ResolvedType
<1>2. [by |-> by, id |-> id, due |-> due, began |-> tick, at |-> now,
       stopped |-> stopped] \in Origin
  BY DEF TypeOK, Origin
<1> QED
  BY <1>1, <1>2, RowAppend DEF CreateWorkflowRun, TypeOK

LEMMA TypeStep == TypeOK /\ [Next]_vars => TypeOK'
<1> SUFFICES ASSUME TypeOK, [Next]_vars
             PROVE  TypeOK'
  OBVIOUS
<1> USE RowTypes
<1>1. CASE UNCHANGED vars
  BY <1>1 DEF vars, tables, locals, TypeOK, Schedules
<1>2. CASE Clock
  BY <1>2, IntakeAssumption DEF Clock, tables, locals, TypeOK, Schedules
<1>3. ASSUME NEW q \in Ask, NEW t \in 0..MaxTime, RequestRun(q, t)
      PROVE  TypeOK'
  <2> DEFINE row == [ask |-> q, run_at |-> t, dispatched |-> FALSE, run_id |-> 0,
                     cancel_requested |-> FALSE]
  <2>1. row \in ScheduleRow
    BY IntakeAssumption DEF ScheduleRow
  <2>2. schedules' \in Seq(ScheduleRow) /\ Len(schedules') = Len(schedules) + 1
    BY <1>3, <2>1, RowAppend DEF RequestRun, NewSchedule, TypeOK
  <2> QED
    BY <1>3, <2>2 DEF RequestRun, NewSchedule, locals, TypeOK, Schedules
<1>4. ASSUME NEW i \in Schedules, RequestScheduleCancel(i)
      PROVE  TypeOK'
  BY <1>4 DEF RequestScheduleCancel, locals, TypeOK, Schedules
<1>5. ASSUME NEW i \in Schedules, WriteScheduleCancel(i)
      PROVE  TypeOK'
  <2>1. [schedules[i] EXCEPT !.cancel_requested = TRUE] \in ScheduleRow
    BY DEF ScheduleRow
  <2>2. schedules' \in Seq(ScheduleRow) /\ Len(schedules') = Len(schedules)
    BY <1>5, <2>1, RowUpdate DEF WriteScheduleCancel, TypeOK, Schedules
  <2> QED
    BY <1>5, <2>2 DEF WriteScheduleCancel, locals, TypeOK, Schedules
<1>6. ASSUME NEW q \in Ask, NEW every \in Cadence, NEW t \in 0..now,
             CreateRecurring(q, every, t)
      PROVE  TypeOK'
  <2>1. t \in Nat /\ NextRunAt(every, t) \in Nat
    BY NextRunAtType, IntakeAssumption, SMTT(30) DEF TypeOK
  <2>2. [ask |-> q, every |-> every, enabled |-> TRUE,
         next_run_at |-> NextRunAt(every, t), created_at |-> t] \in RuleRow
    BY <2>1 DEF RuleRow
  <2>3. rules' \in Seq(RuleRow)
    BY <1>6, <2>2, RowAppend DEF CreateRecurring, NewRule, TypeOK
  <2> QED
    BY <1>6, <2>3 DEF CreateRecurring, NewRule, locals, TypeOK, Schedules
<1>7. ASSUME NEW i \in Rules, CancelRecurring(i)
      PROVE  TypeOK'
  <2>1. [rules[i] EXCEPT !.enabled = FALSE] \in RuleRow
    BY DEF RuleRow
  <2>2. rules' \in Seq(RuleRow)
    BY <1>7, <2>1, RowUpdate DEF CancelRecurring, TypeOK, Rules
  <2> QED
    BY <1>7, <2>2 DEF CancelRecurring, locals, TypeOK, Schedules
<1>8. CASE BeginTick
  BY <1>8 DEF BeginTick, tables, TypeOK, Schedules
<1>9. CASE SelectDue
  BY <1>9 DEF SelectDue, tables, TypeOK, Schedules, Rules
<1>10. ASSUME NEW i \in Rules, FireRule(i)
       PROVE  TypeOK'
  <2>1. /\ runs' \in Seq(AskType(BOOLEAN))
        /\ origin' \in Seq(Origin) /\ Len(origin') = Len(runs')
    <3>1. /\ rules[i].ask \in Ask /\ rules[i].next_run_at \in Nat
          /\ (~rules[i].enabled) \in BOOLEAN /\ i \in Nat
      BY DEF RuleRow, Rules
    <3> QED
      BY <1>10, <3>1, CreateType DEF FireRule
  <2> QED
    BY <1>10, <2>1 DEF FireRule, TypeOK, Schedules, Rules
<1>11. CASE AdvanceRule
  <2>1. CASE item \in Rules
    <3>1. NextRunAt(rules[item].every, tick) \in Nat
      BY <2>1, NextRunAtType, IntakeAssumption DEF TypeOK, RuleRow
    <3>2. [rules[item] EXCEPT !.next_run_at = NextRunAt(rules[item].every, tick)] \in RuleRow
      BY <2>1, <3>1 DEF RuleRow
    <3>3. rules' \in Seq(RuleRow)
      BY <1>11, <2>1, <3>2, RowUpdate DEF AdvanceRule, TypeOK, Rules
    <3> QED
      BY <1>11, <3>3 DEF AdvanceRule, TypeOK, Schedules
  <2>2. CASE item \notin Rules
    <3>1. rules' = rules
      BY <1>11, <2>2 DEF AdvanceRule, TypeOK, Rules
    <3> QED
      BY <1>11, <3>1 DEF AdvanceRule, TypeOK, Schedules
  <2> QED
    BY <2>1, <2>2
<1>12. CASE SelectPending
  BY <1>12 DEF SelectPending, Pending, tables, TypeOK, Schedules
<1>13. ASSUME NEW i \in Schedules, DispatchSchedule(i)
       PROVE  TypeOK'
  <2>1. /\ runs' \in Seq(AskType(BOOLEAN))
        /\ origin' \in Seq(Origin) /\ Len(origin') = Len(runs')
    <3>1. /\ schedules[i].ask \in Ask /\ schedules[i].run_at \in Nat
          /\ schedules[i].cancel_requested \in BOOLEAN /\ i \in Nat
      BY DEF ScheduleRow, Schedules
    <3> QED
      BY <1>13, <3>1, CreateType DEF DispatchSchedule
  <2> QED
    BY <1>13, <2>1 DEF DispatchSchedule, TypeOK, Schedules
<1>14. CASE MarkDispatched
  <2>1. CASE item \in Schedules
    <3>1. [[schedules[item] EXCEPT !.dispatched = TRUE] EXCEPT !.run_id = Len(runs)]
            \in ScheduleRow
      BY <2>1 DEF ScheduleRow
    <3>2. schedules' = [schedules EXCEPT ![item] =
             [[schedules[item] EXCEPT !.dispatched = TRUE] EXCEPT !.run_id = Len(runs)]]
      BY <1>14, <2>1 DEF MarkDispatched, TypeOK, Schedules, ScheduleRow
    <3>3. schedules' \in Seq(ScheduleRow) /\ Len(schedules') = Len(schedules)
      BY <2>1, <3>1, <3>2, RowUpdate DEF TypeOK, Schedules
    <3> QED
      BY <1>14, <3>3 DEF MarkDispatched, TypeOK, Schedules
  <2>2. CASE item \notin Schedules
    <3>1. schedules' = schedules
      BY <1>14, <2>2 DEF MarkDispatched, TypeOK, Schedules
    <3> QED
      BY <1>14, <3>1 DEF MarkDispatched, TypeOK, Schedules
  <2> QED
    BY <2>1, <2>2
<1>15. CASE EndIntake
  BY <1>15 DEF EndIntake, tables, TypeOK, Schedules
<1>16. CASE AbortTick
  BY <1>16 DEF AbortTick, tables, TypeOK, Schedules
<1> QED
  BY <1>1, <1>2, <1>3, <1>4, <1>5, <1>6, <1>7, <1>8, <1>9, <1>10, <1>11, <1>12, <1>13,
     <1>14, <1>15, <1>16
  DEF Next, Clients, Scheduler

THEOREM TypesHold == Spec => []TypeOK
<1> QED
  BY TypeInit, TypeStep, PTL DEF Spec

(* The clock and the clients, as the scheduler sees them.                  *)
Outside == Clock \/ Clients \/ UNCHANGED vars

OutsideKeeps ==
  /\ UNCHANGED <<locals, runs, origin, dropped>>
  /\ now <= now'
  /\ \A i \in Schedules :
       /\ i \in Schedules' /\ schedules'[i].ask = schedules[i].ask
       /\ schedules'[i].dispatched = schedules[i].dispatched
       /\ schedules'[i].run_id = schedules[i].run_id
       /\ schedules[i].cancel_requested => schedules'[i].cancel_requested
  /\ \A i \in Schedules' \ Schedules : ~schedules'[i].dispatched
  /\ \A i \in Rules :
       /\ i \in Rules' /\ rules'[i].every = rules[i].every
       /\ rules'[i].created_at = rules[i].created_at
       /\ rules'[i].next_run_at = rules[i].next_run_at
       /\ ~rules[i].enabled => ~rules'[i].enabled
  /\ \A i \in Rules' \ Rules :
       rules'[i].next_run_at = NextRunAt(rules'[i].every, rules'[i].created_at)

LEMMA OutsideStep ==
  ASSUME TypeOK, Outside
  PROVE  OutsideKeeps
<1> USE RowTypes
<1>1. CASE UNCHANGED vars
  BY <1>1 DEF vars, tables, locals, OutsideKeeps, Schedules, Rules, TypeOK
<1>2. CASE Clock
  BY <1>2 DEF Clock, tables, locals, OutsideKeeps, Schedules, Rules, TypeOK
<1>3. ASSUME NEW q \in Ask, NEW t \in 0..MaxTime, RequestRun(q, t)
      PROVE  OutsideKeeps
  BY <1>3 DEF RequestRun, NewSchedule, locals, OutsideKeeps, Schedules, Rules, TypeOK
<1>4. ASSUME NEW i \in Schedules, RequestScheduleCancel(i)
      PROVE  OutsideKeeps
  BY <1>4 DEF RequestScheduleCancel, locals, OutsideKeeps, Schedules, Rules, TypeOK
<1>5. ASSUME NEW i \in Schedules, WriteScheduleCancel(i)
      PROVE  OutsideKeeps
  <2>1. /\ schedules' = [schedules EXCEPT ![i] = [schedules[i] EXCEPT !.cancel_requested = TRUE]]
        /\ Len(schedules') = Len(schedules)
    BY <1>5, ExceptSeq DEF WriteScheduleCancel, TypeOK, Schedules, ScheduleRow
  <2>2. \A j \in Schedules :
          schedules'[j] = IF j = i THEN [schedules[i] EXCEPT !.cancel_requested = TRUE]
                          ELSE schedules[j]
    BY <2>1 DEF TypeOK, Schedules
  <2>3. \A j \in Schedules :
          /\ schedules'[j].ask = schedules[j].ask /\ schedules'[j].run_id = schedules[j].run_id
          /\ schedules'[j].dispatched = schedules[j].dispatched
          /\ schedules[j].cancel_requested => schedules'[j].cancel_requested
    BY <2>2 DEF ScheduleRow
  <2> QED
    BY <1>5, <2>1, <2>3
    DEF WriteScheduleCancel, locals, OutsideKeeps, Schedules, Rules, TypeOK
<1>6. ASSUME NEW q \in Ask, NEW every \in Cadence, NEW t \in 0..now,
             CreateRecurring(q, every, t)
      PROVE  OutsideKeeps
  BY <1>6 DEF CreateRecurring, NewRule, locals, OutsideKeeps, Schedules, Rules, TypeOK
<1>7. ASSUME NEW i \in Rules, CancelRecurring(i)
      PROVE  OutsideKeeps
  <2>1. /\ rules' = [rules EXCEPT ![i] = [rules[i] EXCEPT !.enabled = FALSE]]
        /\ Len(rules') = Len(rules)
    BY <1>7, ExceptSeq DEF CancelRecurring, TypeOK, Rules, RuleRow
  <2>2. \A j \in Rules :
          rules'[j] = IF j = i THEN [rules[i] EXCEPT !.enabled = FALSE] ELSE rules[j]
    BY <2>1 DEF TypeOK, Rules
  <2>3. \A j \in Rules :
          /\ rules'[j].every = rules[j].every /\ rules'[j].created_at = rules[j].created_at
          /\ rules'[j].next_run_at = rules[j].next_run_at
          /\ ~rules[j].enabled => ~rules'[j].enabled
    BY <2>2 DEF RuleRow
  <2> QED
    BY <1>7, <2>1, <2>3
    DEF CancelRecurring, locals, OutsideKeeps, Schedules, Rules, TypeOK
<1> QED
  BY <1>1, <1>2, <1>3, <1>4, <1>5, <1>6, <1>7 DEF Outside, Clients

(* Creating a run leaves the others as they are.                           *)
LEMMA FireEffect ==
  ASSUME TypeOK, NEW i \in Rules, FireRule(i)
  PROVE  /\ Len(runs') = Len(runs) + 1 /\ DOMAIN origin' = 1..(Len(runs) + 1)
         /\ \A r \in 1..Len(runs) : origin'[r] = origin[r] /\ runs'[r] = runs[r]
         /\ origin'[Len(runs) + 1].by = "rule" /\ origin'[Len(runs) + 1].id = i
         /\ origin'[Len(runs) + 1].at = now /\ origin'[Len(runs) + 1].began = tick
         /\ origin'[Len(runs) + 1].due = rules[i].next_run_at
         /\ origin'[Len(runs) + 1].stopped = ~rules[i].enabled
<1> DEFINE q == [rules[i].ask EXCEPT !.promote = ResolvePromote(rules[i].ask)]
           o == [by |-> "rule", id |-> i, due |-> rules[i].next_run_at, began |-> tick,
                 at |-> now, stopped |-> ~rules[i].enabled]
<1>1. runs' = Append(runs, q) /\ origin' = Append(origin, o)
  BY DEF FireRule, CreateWorkflowRun
<1>2. /\ o.by = "rule" /\ o.id = i /\ o.at = now /\ o.began = tick
      /\ o.due = rules[i].next_run_at /\ o.stopped = ~rules[i].enabled
  OBVIOUS
<1> HIDE DEF q, o
<1>3. /\ Len(runs') = Len(runs) + 1 /\ DOMAIN origin' = 1..(Len(runs) + 1)
      /\ \A r \in 1..Len(runs) : origin'[r] = origin[r] /\ runs'[r] = runs[r]
      /\ origin'[Len(runs) + 1] = o
  BY <1>1 DEF TypeOK
<1> QED
  BY <1>2, <1>3

LEMMA DispatchEffect ==
  ASSUME TypeOK, NEW i \in Schedules, DispatchSchedule(i)
  PROVE  /\ Len(runs') = Len(runs) + 1 /\ DOMAIN origin' = 1..(Len(runs) + 1)
         /\ \A r \in 1..Len(runs) : origin'[r] = origin[r] /\ runs'[r] = runs[r]
         /\ origin'[Len(runs) + 1].by = "schedule" /\ origin'[Len(runs) + 1].id = i
         /\ origin'[Len(runs) + 1].began = tick
         /\ origin'[Len(runs) + 1].stopped = schedules[i].cancel_requested
<1> DEFINE q == [schedules[i].ask EXCEPT !.promote = ResolvePromote(schedules[i].ask)]
           o == [by |-> "schedule", id |-> i, due |-> schedules[i].run_at, began |-> tick,
                 at |-> now, stopped |-> schedules[i].cancel_requested]
<1>1. runs' = Append(runs, q) /\ origin' = Append(origin, o)
  BY DEF DispatchSchedule, CreateWorkflowRun
<1>2. o.by = "schedule" /\ o.id = i /\ o.began = tick /\ o.stopped = schedules[i].cancel_requested
  OBVIOUS
<1> HIDE DEF q, o
<1>3. /\ Len(runs') = Len(runs) + 1 /\ DOMAIN origin' = 1..(Len(runs) + 1)
      /\ \A r \in 1..Len(runs) : origin'[r] = origin[r] /\ runs'[r] = runs[r]
      /\ origin'[Len(runs) + 1] = o
  BY <1>1 DEF TypeOK
<1> QED
  BY <1>2, <1>3

LEMMA DispatchCopies ==
  ASSUME TypeOK, NEW i \in Schedules, DispatchSchedule(i)
  PROVE  runs'[Len(runs) + 1] =
           [schedules[i].ask EXCEPT !.promote = ResolvePromote(schedules[i].ask)]
<1> DEFINE q == [schedules[i].ask EXCEPT !.promote = ResolvePromote(schedules[i].ask)]
<1>1. runs' = Append(runs, q)
  BY DEF DispatchSchedule, CreateWorkflowRun
<1> HIDE DEF q
<1>2. runs'[Len(runs) + 1] = q
  BY <1>1 DEF TypeOK
<1> QED
  BY <1>2 DEF q

(* AdvanceRule and MarkDispatched, seen row by row.                        *)
LEMMA AdvanceEffect ==
  ASSUME TypeOK, AdvanceRule, item \in Rules
  PROVE  /\ Rules' = Rules
         /\ \A i \in Rules :
              /\ rules'[i].every = rules[i].every /\ rules'[i].enabled = rules[i].enabled
              /\ rules'[i].created_at = rules[i].created_at
              /\ rules'[i].next_run_at =
                   IF i = item THEN NextRunAt(rules[i].every, tick) ELSE rules[i].next_run_at
  BY RowTypes, SMTT(30) DEF AdvanceRule, TypeOK, Rules, RuleRow

LEMMA MarkEffect ==
  ASSUME TypeOK, MarkDispatched, item \in Schedules
  PROVE  /\ Schedules' = Schedules
         /\ \A i \in Schedules :
              /\ schedules'[i].ask = schedules[i].ask
              /\ schedules'[i].cancel_requested = schedules[i].cancel_requested
              /\ schedules'[i].dispatched = (i = item \/ schedules[i].dispatched)
              /\ schedules'[i].run_id = IF i = item THEN Len(runs) ELSE schedules[i].run_id
<1> DEFINE row == [[schedules[item] EXCEPT !.dispatched = TRUE] EXCEPT !.run_id = Len(runs)]
<1>1. schedules' = [schedules EXCEPT ![item] = row]
  BY RowTypes DEF MarkDispatched, TypeOK, Schedules, ScheduleRow
<1>2. /\ Len(schedules') = Len(schedules)
      /\ \A i \in Schedules : schedules'[i] = IF i = item THEN row ELSE schedules[i]
  BY <1>1, RowTypes, ExceptSeq DEF TypeOK, Schedules
<1>3. /\ row.ask = schedules[item].ask /\ row.run_id = Len(runs) /\ row.dispatched = TRUE
      /\ row.cancel_requested = schedules[item].cancel_requested
  BY RowTypes DEF ScheduleRow
<1>4. \A i \in Schedules : schedules'[i].dispatched = (i = item \/ schedules[i].dispatched)
  BY <1>2, <1>3, RowTypes DEF ScheduleRow
<1> QED
  BY <1>2, <1>3, <1>4 DEF Schedules

-----------------------------------------------------------------------------
(* The scheduler's steps, one at a time.                                   *)

LEMMA Steps ==
  ASSUME [Next]_vars
  PROVE  \/ Outside \/ BeginTick \/ SelectDue \/ \E i \in Rules : FireRule(i)
         \/ AdvanceRule \/ SelectPending \/ \E i \in Schedules : DispatchSchedule(i)
         \/ MarkDispatched \/ EndIntake \/ AbortTick
  BY DEF Next, Scheduler, Outside

LEMMA SelectedStep ==
  TypeOK /\ SelectedInv /\ ItemInv /\ [Next]_vars => SelectedInv'
<1> SUFFICES ASSUME TypeOK, SelectedInv, ItemInv, [Next]_vars
             PROVE  SelectedInv'
  OBVIOUS
<1> USE RowTypes DEF SelectedInv
<1>1. CASE Outside
  <2>1. now' \in Nat
    BY TypeStep DEF TypeOK
  <2>2. pc' = pc /\ todo' = todo /\ tick' = tick /\ now <= now'
    BY <1>1, OutsideStep DEF OutsideKeeps, locals
  <2>3. /\ \A i \in Rules : i \in Rules'
        /\ \A i \in Schedules : i \in Schedules' /\ schedules'[i].dispatched = schedules[i].dispatched
    BY <1>1, OutsideStep DEF OutsideKeeps
  <2>4. tick' <= now'
    BY <2>1, <2>2 DEF TypeOK
  <2>5. pc \in {"intake", "mark"} => \A i \in todo' : ~schedules'[i].dispatched
    BY <2>2, <2>3
  <2> QED
    BY <2>2, <2>3, <2>4, <2>5
<1>2. CASE BeginTick
  BY <1>2 DEF BeginTick, tables, TypeOK
<1>3. CASE SelectDue
  BY <1>3 DEF SelectDue, tables, Rules
<1>4. ASSUME NEW i \in Rules, FireRule(i)
      PROVE  SelectedInv'
  BY <1>4 DEF FireRule, Rules
<1>5. CASE AdvanceRule
  <2>1. item \in Rules
    BY <1>5 DEF ItemInv, AdvanceRule
  <2> QED
    BY <1>5, <2>1, AdvanceEffect DEF AdvanceRule
<1>6. CASE SelectPending
  BY <1>6 DEF SelectPending, Pending, tables, Schedules
<1>7. ASSUME NEW i \in Schedules, DispatchSchedule(i)
      PROVE  SelectedInv'
  BY <1>7 DEF DispatchSchedule, Schedules
<1>8. CASE MarkDispatched
  <2>1. item \in Schedules /\ item \notin todo
    BY <1>8 DEF ItemInv, MarkDispatched
  <2> QED
    BY <1>8, <2>1, MarkEffect DEF MarkDispatched
<1>9. CASE EndIntake
  BY <1>9 DEF EndIntake, TypeOK
<1>10. CASE AbortTick
  BY <1>10 DEF AbortTick, TypeOK
<1> QED
  BY <1>1, <1>2, <1>3, <1>4, <1>5, <1>6, <1>7, <1>8, <1>9, <1>10, Steps

LEMMA ItemStep ==
  TypeOK /\ SelectedInv /\ ItemInv /\ [Next]_vars => ItemInv'
<1> SUFFICES ASSUME TypeOK, SelectedInv, ItemInv, [Next]_vars
             PROVE  ItemInv'
  OBVIOUS
<1> USE RowTypes
<1>1. CASE Outside
  BY <1>1, OutsideStep DEF OutsideKeeps, locals, ItemInv, RunsFor, ResolvePromote
<1>2. ASSUME NEW i \in Rules, FireRule(i)
      PROVE  ItemInv'
  <2>1. Len(runs)' \in RunsFor("rule", i)' /\ origin'[Len(runs)'].at >= tick
    BY <1>2, FireEffect DEF RunsFor, SelectedInv, TypeOK
  <2> QED
    BY <1>2, <2>1, FireEffect DEF FireRule, ItemInv, Rules
<1>3. ASSUME NEW i \in Schedules, DispatchSchedule(i)
      PROVE  ItemInv'
  <2>1. Len(runs)' \in RunsFor("schedule", i)'
    BY <1>3, DispatchEffect DEF RunsFor
  <2>2. ~schedules[i].dispatched
    BY <1>3 DEF DispatchSchedule, SelectedInv
  <2> QED
    BY <1>3, <2>1, <2>2, DispatchEffect, DispatchCopies
    DEF DispatchSchedule, ItemInv, Schedules, ResolvePromote
<1>4. CASE BeginTick \/ SelectDue \/ AdvanceRule \/ SelectPending \/ MarkDispatched
             \/ EndIntake \/ AbortTick
  BY <1>4
  DEF BeginTick, SelectDue, AdvanceRule, SelectPending, MarkDispatched, EndIntake, AbortTick,
      ItemInv
<1> QED
  BY <1>1, <1>2, <1>3, <1>4, Steps

LEMMA OriginStep ==
  TypeOK /\ SelectedInv /\ ItemInv /\ OriginInv /\ [Next]_vars => OriginInv'
<1> SUFFICES ASSUME TypeOK, SelectedInv, ItemInv, OriginInv, [Next]_vars
             PROVE  OriginInv'
  OBVIOUS
<1> USE RowTypes DEF OriginInv
<1>1. CASE Outside
  BY <1>1, OutsideStep DEF OutsideKeeps, locals, Origin
<1>2. CASE BeginTick
  BY <1>2 DEF BeginTick, tables, Schedules, Rules
<1>3. CASE SelectDue
  BY <1>3 DEF SelectDue, tables, Schedules, Rules
<1>4. ASSUME NEW i \in Rules, FireRule(i)
      PROVE  OriginInv'
  <2>1. UNCHANGED <<schedules, rules>> /\ pc = "recurring" /\ pc' = "advance"
        /\ i \in todo /\ todo' = todo \ {i}
    BY <1>4 DEF FireRule
  <2>2. ASSUME NEW r \in DOMAIN origin'
        PROVE  \/ r \in DOMAIN origin /\ origin'[r] = origin[r]
               \/ /\ origin'[r].by = "rule" /\ origin'[r].id = i
                  /\ origin'[r].stopped = ~rules[i].enabled
    BY <1>4, FireEffect
  <2> QED
    BY <2>1, <2>2 DEF Schedules, Rules
<1>5. CASE AdvanceRule
  <2>1. item \in Rules
    BY <1>5 DEF ItemInv, AdvanceRule
  <2> QED
    BY <1>5, <2>1, AdvanceEffect DEF AdvanceRule, Schedules
<1>6. CASE SelectPending
  BY <1>6 DEF SelectPending, Pending, tables, Schedules, Rules
<1>7. ASSUME NEW i \in Schedules, DispatchSchedule(i)
      PROVE  OriginInv'
  <2>1. UNCHANGED <<schedules, rules>> /\ pc = "intake" /\ pc' = "mark"
        /\ i \in todo /\ todo' = todo \ {i} /\ item' = i
    BY <1>7 DEF DispatchSchedule
  <2>2. ASSUME NEW r \in DOMAIN origin'
        PROVE  \/ r \in DOMAIN origin /\ origin'[r] = origin[r]
               \/ /\ origin'[r].by = "schedule" /\ origin'[r].id = i
                  /\ origin'[r].stopped = schedules[i].cancel_requested
    BY <1>7, DispatchEffect
  <2> QED
    BY <2>1, <2>2 DEF Schedules, Rules
<1>8. CASE MarkDispatched
  <2>1. item \in Schedules
    BY <1>8 DEF ItemInv, MarkDispatched
  <2>2. \A i \in Schedules : schedules'[i].cancel_requested = schedules[i].cancel_requested
    BY <1>8, <2>1, MarkEffect
  <2>3. /\ Schedules' = Schedules
        /\ \A i \in Schedules : i = item \/ schedules[i].dispatched => schedules'[i].dispatched
    BY <1>8, <2>1, MarkEffect
  <2> QED
    BY <1>8, <2>1, <2>2, <2>3 DEF MarkDispatched, Rules
<1>9. CASE EndIntake
  BY <1>9 DEF EndIntake, tables, Schedules, Rules
<1>10. CASE AbortTick
  BY <1>10 DEF AbortTick, tables, Schedules, Rules
<1> QED
  BY <1>1, <1>2, <1>3, <1>4, <1>5, <1>6, <1>7, <1>8, <1>9, <1>10, Steps

-----------------------------------------------------------------------------
(* Runs are only added, and by two steps.                                  *)

LEMMA RunsStay ==
  ASSUME TypeOK, [Next]_vars
  PROVE  \A r \in DOMAIN origin :
           r \in DOMAIN origin' /\ origin'[r] = origin[r] /\ runs'[r] = runs[r]
<1> USE RowTypes
<1>1. CASE runs' = runs /\ origin' = origin
  BY <1>1
<1>2. ASSUME NEW i \in Rules, FireRule(i)
      PROVE  \A r \in DOMAIN origin :
               r \in DOMAIN origin' /\ origin'[r] = origin[r] /\ runs'[r] = runs[r]
  BY <1>2, FireEffect
<1>3. ASSUME NEW i \in Schedules, DispatchSchedule(i)
      PROVE  \A r \in DOMAIN origin :
               r \in DOMAIN origin' /\ origin'[r] = origin[r] /\ runs'[r] = runs[r]
  BY <1>3, DispatchEffect
<1> QED
  BY <1>1, <1>2, <1>3, Steps, OutsideStep
  DEF OutsideKeeps, BeginTick, SelectDue, AdvanceRule, SelectPending, MarkDispatched,
      EndIntake, AbortTick, tables

LEMMA RunsForStay ==
  ASSUME TypeOK, [Next]_vars, NEW by, NEW i
  PROVE  RunsFor(by, i) \subseteq RunsFor(by, i)'
  BY RunsStay DEF RunsFor

LEMMA RunIdStep ==
  TypeOK /\ ItemInv /\ RunIdIsItsRun /\ [Next]_vars => RunIdIsItsRun'
<1> SUFFICES ASSUME TypeOK, ItemInv, RunIdIsItsRun, [Next]_vars,
                    NEW i \in Schedules', schedules'[i].dispatched
             PROVE  /\ schedules'[i].run_id \in RunsFor("schedule", i)'
                    /\ runs'[schedules'[i].run_id] =
                         [schedules'[i].ask EXCEPT !.promote = ResolvePromote(schedules'[i].ask)]
  BY DEF RunIdIsItsRun, ResolvePromote
<1>1. CASE MarkDispatched /\ i = item
  <2>1. item \in Schedules /\ Len(runs) \in RunsFor("schedule", item)
    BY <1>1 DEF MarkDispatched, ItemInv
  <2>2. schedules'[i].run_id = Len(runs) /\ schedules'[i].ask = schedules[i].ask
    BY <1>1, <2>1, MarkEffect
  <2>3. runs' = runs
    BY <1>1 DEF MarkDispatched
  <2>4. runs[Len(runs)] =
          [schedules[item].ask EXCEPT !.promote = ResolvePromote(schedules[item].ask)]
    BY <1>1 DEF MarkDispatched, ItemInv
  <2> QED
    BY <1>1, <2>1, <2>2, <2>3, <2>4, RunsForStay DEF ResolvePromote
<1>2. CASE ~(MarkDispatched /\ i = item)
  <2>1. /\ i \in Schedules /\ schedules'[i].ask = schedules[i].ask
        /\ schedules'[i].run_id = schedules[i].run_id
    <3>1. CASE Outside
      BY <3>1, OutsideStep DEF OutsideKeeps
    <3>2. CASE MarkDispatched
      BY <1>2, <3>2, MarkEffect DEF MarkDispatched, ItemInv
    <3>3. CASE schedules' = schedules
      BY <3>3 DEF Schedules
    <3> QED
      BY <3>1, <3>2, <3>3, Steps
      DEF BeginTick, SelectDue, FireRule, AdvanceRule, SelectPending, DispatchSchedule,
          EndIntake, AbortTick, tables
  <2>2. schedules[i].dispatched
    <3>1. CASE Outside
      BY <3>1, <2>1, OutsideStep DEF OutsideKeeps
    <3>2. CASE MarkDispatched
      <4>1. item \in Schedules
        BY <3>2 DEF MarkDispatched, ItemInv
      <4>2. schedules'[i].dispatched = (i = item \/ schedules[i].dispatched)
        BY <2>1, <3>2, <4>1, MarkEffect
      <4> QED
        BY <1>2, <3>2, <4>2
    <3>3. CASE schedules' = schedules
      BY <3>3
    <3> QED
      BY <3>1, <3>2, <3>3, Steps
      DEF BeginTick, SelectDue, FireRule, AdvanceRule, SelectPending, DispatchSchedule,
          EndIntake, AbortTick, tables
  <2>3. /\ schedules[i].run_id \in RunsFor("schedule", i)
        /\ runs[schedules[i].run_id] =
             [schedules[i].ask EXCEPT !.promote = ResolvePromote(schedules[i].ask)]
    BY <2>1, <2>2 DEF RunIdIsItsRun
  <2>4. runs'[schedules[i].run_id] = runs[schedules[i].run_id]
    BY <2>3, RunsStay DEF RunsFor
  <2> QED
    BY <2>1, <2>3, <2>4, RunsForStay DEF ResolvePromote
<1> QED
  BY <1>1, <1>2

(* A step that creates a run of i finds i in todo, where no schedule or    *)
(* rule is that has a stopped run.                                         *)
LEMMA CancelStep ==
  TypeOK /\ OriginInv /\ CancelStopsAllButOne /\ [Next]_vars => CancelStopsAllButOne'
<1> SUFFICES ASSUME TypeOK, OriginInv, CancelStopsAllButOne, [Next]_vars
             PROVE  CancelStopsAllButOne'
  OBVIOUS
<1> USE RowTypes DEF CancelStopsAllButOne, RunsFor
<1>1. CASE origin' = origin
  BY <1>1
<1>2. ASSUME NEW i \in Rules, FireRule(i)
      PROVE  CancelStopsAllButOne'
  <2>1. \A r \in DOMAIN origin :
          origin[r].by = "rule" /\ origin[r].id = i => ~origin[r].stopped
    BY <1>2 DEF OriginInv, FireRule
  <2>2. ASSUME NEW r \in DOMAIN origin'
        PROVE  \/ r \in DOMAIN origin /\ origin'[r] = origin[r]
               \/ r = Len(runs) + 1 /\ origin'[r].by = "rule" /\ origin'[r].id = i
    BY <1>2, FireEffect
  <2> QED
    BY <2>1, <2>2
<1>3. ASSUME NEW i \in Schedules, DispatchSchedule(i)
      PROVE  CancelStopsAllButOne'
  <2>1. \A r \in DOMAIN origin :
          origin[r].by = "schedule" /\ origin[r].id = i => ~origin[r].stopped
    BY <1>3 DEF OriginInv, DispatchSchedule
  <2>2. ASSUME NEW r \in DOMAIN origin'
        PROVE  \/ r \in DOMAIN origin /\ origin'[r] = origin[r]
               \/ r = Len(runs) + 1 /\ origin'[r].by = "schedule" /\ origin'[r].id = i
    BY <1>3, DispatchEffect
  <2> QED
    BY <2>1, <2>2
<1> QED
  BY <1>1, <1>2, <1>3, Steps, OutsideStep
  DEF OutsideKeeps, BeginTick, SelectDue, AdvanceRule, SelectPending, MarkDispatched,
      EndIntake, AbortTick, tables

LEMMA RunsForFinite ==
  ASSUME TypeOK, NEW by, NEW i
  PROVE  /\ IsFiniteSet(RunsFor(by, i)) /\ Cardinality(RunsFor(by, i)) \in Nat
         /\ RunsFor(by, i) \subseteq 1..Len(runs)
<1>1. RunsFor(by, i) \subseteq 1..Len(runs) /\ Len(runs) \in Nat
  BY RowTypes DEF RunsFor
<1>2. IsFiniteSet(1..Len(runs))
  BY <1>1, FS_Interval
<1> QED
  BY <1>1, <1>2, FS_Subset, FS_CardinalityType

(* Only creating a run of i adds to what is counted for i, and marks i; a  *)
(* dropped tick may leave i unmarked, and counts itself.                   *)
LEMMA OnceStep ==
  TypeOK /\ SelectedInv /\ ItemInv /\ OriginInv /\ OnceInv /\ [Next]_vars => OnceInv'
<1> SUFFICES ASSUME TypeOK, SelectedInv, ItemInv, OriginInv, OnceInv, [Next]_vars,
                    NEW i \in Schedules'
             PROVE  Cardinality(RunsFor("schedule", i)') <= dropped' + (IF Marked(i)' THEN 1 ELSE 0)
  BY DEF OnceInv
<1> DEFINE R == RunsFor("schedule", i)
<1>1. /\ IsFiniteSet(R) /\ Cardinality(R) \in Nat /\ R \subseteq 1..Len(runs)
      /\ dropped \in Nat /\ Len(runs) \in Nat
  BY RunsForFinite, RowTypes DEF TypeOK
<1>2. i \in Schedules => Cardinality(R) <= dropped + (IF Marked(i) THEN 1 ELSE 0)
  BY DEF OnceInv
<1>3. ASSUME R' = R, i \in Schedules, dropped' = dropped, Marked(i)' = Marked(i)
      PROVE  Cardinality(R') <= dropped' + (IF Marked(i)' THEN 1 ELSE 0)
  BY <1>1, <1>2, <1>3
<1>4. CASE Outside
  <2>1. R' = R /\ dropped' = dropped
    BY <1>4, OutsideStep DEF OutsideKeeps, RunsFor
  <2>2. CASE i \in Schedules
    <3>1. Marked(i)' = Marked(i)
      BY <1>4, <2>2, OutsideStep DEF OutsideKeeps, locals, Marked
    <3> QED
      BY <1>3, <2>1, <2>2, <3>1
  <2>3. CASE i \notin Schedules
    <3>1. R = {}
      BY <2>3 DEF OriginInv, RunsFor
    <3> QED
      BY <1>1, <2>1, <3>1, FS_EmptySet
  <2> QED
    BY <2>2, <2>3
<1>5. CASE BeginTick \/ SelectDue \/ SelectPending \/ EndIntake
  BY <1>3, <1>5
  DEF BeginTick, SelectDue, SelectPending, EndIntake, tables, Marked, RunsFor, Schedules
<1>6. ASSUME NEW j \in Rules, FireRule(j)
      PROVE  Cardinality(R') <= dropped' + (IF Marked(i)' THEN 1 ELSE 0)
  <2>1. R' = R
    BY <1>6, FireEffect, RowTypes DEF RunsFor
  <2> QED
    BY <1>3, <1>6, <2>1 DEF FireRule, Marked, Schedules
<1>7. CASE AdvanceRule
  BY <1>3, <1>7 DEF AdvanceRule, Marked, RunsFor, Schedules
<1>8. ASSUME NEW j \in Schedules, DispatchSchedule(j)
      PROVE  Cardinality(R') <= dropped' + (IF Marked(i)' THEN 1 ELSE 0)
  <2>1. i \in Schedules /\ dropped' = dropped /\ pc = "intake" /\ ~schedules[j].dispatched
    BY <1>8 DEF DispatchSchedule, Schedules, SelectedInv
  <2>2. CASE i = j
    <3>1. R' = R \cup {Len(runs) + 1} /\ Len(runs) + 1 \notin R
      BY <1>1, <1>8, <2>2, DispatchEffect, RowTypes DEF RunsFor
    <3>2. Cardinality(R') = Cardinality(R) + 1
      BY <1>1, <3>1, FS_AddElement
    <3>3. ~Marked(i) /\ Marked(i)'
      BY <1>8, <2>1, <2>2 DEF DispatchSchedule, Marked
    <3> QED
      BY <1>1, <1>2, <2>1, <3>2, <3>3
  <2>3. CASE i # j
    <3>1. R' = R
      BY <1>8, <2>3, DispatchEffect, RowTypes DEF RunsFor
    <3>2. Marked(i)' = Marked(i)
      BY <1>8, <2>1, <2>3 DEF DispatchSchedule, Marked
    <3> QED
      BY <1>3, <2>1, <3>1, <3>2
  <2> QED
    BY <2>2, <2>3
<1>9. CASE MarkDispatched
  <2>1. item \in Schedules /\ pc = "mark" /\ pc' = "intake"
    BY <1>9 DEF MarkDispatched, ItemInv
  <2>2. i \in Schedules /\ schedules'[i].dispatched = (i = item \/ schedules[i].dispatched)
    BY <1>9, <2>1, MarkEffect
  <2>3. Marked(i)' = Marked(i)
    BY <2>1, <2>2 DEF Marked
  <2>4. R' = R /\ dropped' = dropped
    BY <1>9 DEF MarkDispatched, RunsFor
  <2> QED
    BY <1>3, <2>2, <2>3, <2>4
<1>10. CASE AbortTick
  <2>1. R' = R /\ dropped' = dropped + 1 /\ i \in Schedules
    BY <1>10 DEF AbortTick, RunsFor, Schedules
  <2> QED
    BY <1>1, <1>2, <2>1
<1> QED
  BY <1>4, <1>5, <1>6, <1>7, <1>8, <1>9, <1>10, Steps

(* NextRunAt is later than the time it is computed from.                   *)
LEMMA NextIsLater ==
  ASSUME NEW every \in CadenceType, NEW t \in Nat
  PROVE  NextRunAt(every, t) > t
<1>1. every.period \in Nat \ {0}
  BY DEF CadenceType
<1>2. t % every.period \in 0..(every.period - 1)
  BY <1>1
<1> QED
  BY <1>1, <1>2 DEF NextRunAt

LEMMA BeganStep ==
  TypeOK /\ SelectedInv /\ BeganInv /\ [Next]_vars => BeganInv'
<1> SUFFICES ASSUME TypeOK, SelectedInv, BeganInv, [Next]_vars
             PROVE  BeganInv'
  OBVIOUS
<1> USE RowTypes DEF BeganInv
<1>1. CASE Outside
  <2>1. now' \in Nat /\ now <= now' /\ now \in Nat
    BY <1>1, TypeStep, OutsideStep DEF OutsideKeeps, TypeOK
  <2>2. origin' = origin /\ pc' = pc /\ tick' = tick
    BY <1>1, OutsideStep DEF OutsideKeeps, locals
  <2> QED
    BY <2>1, <2>2 DEF Origin
<1>2. ASSUME NEW i \in Rules, FireRule(i)
      PROVE  BeganInv'
  <2>1. tick <= now /\ tick' = tick /\ now' = now /\ pc # "idle" /\ tick \in Nat
    BY <1>2 DEF FireRule, SelectedInv, TypeOK
  <2> QED
    BY <1>2, <2>1, FireEffect
<1>3. ASSUME NEW i \in Schedules, DispatchSchedule(i)
      PROVE  BeganInv'
  <2>1. tick <= now /\ tick' = tick /\ now' = now /\ pc # "idle" /\ tick \in Nat
    BY <1>3 DEF DispatchSchedule, SelectedInv, TypeOK
  <2> QED
    BY <1>3, <2>1, DispatchEffect
<1> QED
  BY <1>1, <1>2, <1>3, Steps
  DEF BeginTick, SelectDue, AdvanceRule, SelectPending, MarkDispatched, EndIntake,
      AbortTick, tables

LEMMA FiringsFinite ==
  ASSUME TypeOK, NEW i, NEW t
  PROVE  /\ IsFiniteSet(Firings(i, t)) /\ Cardinality(Firings(i, t)) \in Nat
         /\ Firings(i, t) \subseteq 1..Len(runs)
<1>1. Firings(i, t) \subseteq RunsFor("rule", i)
  BY DEF Firings
<1> QED
  BY <1>1, RunsForFinite, FS_Subset, FS_CardinalityType

(* A rule that fires for t is about to be advanced, and then is past t: no *)
(* tick that fires it for t had read its clock before t.                   *)
LEMMA FiringsStep ==
  TypeOK /\ SelectedInv /\ ItemInv /\ OriginInv /\ BeganInv /\ FiringsInv /\ [Next]_vars
    => FiringsInv'
<1> SUFFICES ASSUME TypeOK, SelectedInv, ItemInv, OriginInv, BeganInv, FiringsInv,
                    [Next]_vars, NEW i \in Rules', NEW t \in 0..now'
             PROVE  Cardinality(Firings(i, t)')
                      <= dropped' + (IF Advanced(i, t)' THEN 1 ELSE 0)
  BY DEF FiringsInv
<1> DEFINE F == Firings(i, t)
           Goal == Cardinality(F') <= dropped' + (IF Advanced(i, t)' THEN 1 ELSE 0)
<1>1. /\ IsFiniteSet(F) /\ Cardinality(F) \in Nat /\ F \subseteq 1..Len(runs)
      /\ dropped \in Nat /\ dropped' \in Nat /\ Len(runs) \in Nat
      /\ now \in Nat /\ now' \in Nat /\ tick \in Nat /\ t \in Nat
  BY FiringsFinite, RowTypes, TypeStep DEF TypeOK
<1>2. ASSUME F' = {}
      PROVE  Goal
  BY <1>1, <1>2, FS_EmptySet
<1>3. t > now => F = {}
  BY <1>1, RowTypes DEF Firings, RunsFor, BeganInv, Origin
<1>4. i \in Rules /\ t <= now =>
        Cardinality(F) <= dropped + (IF Advanced(i, t) THEN 1 ELSE 0)
  BY <1>1 DEF FiringsInv
<1>5. i \notin Rules => F = {}
  BY DEF OriginInv, Firings, RunsFor
<1>6. ASSUME F' = F, dropped' = dropped, i \in Rules => (Advanced(i, t) => Advanced(i, t)')
      PROVE  Goal
  BY <1>1, <1>2, <1>3, <1>4, <1>5, <1>6
<1>7. CASE Outside
  <2>1. F' = F /\ dropped' = dropped
    BY <1>7, OutsideStep DEF OutsideKeeps, Firings, RunsFor
  <2>2. i \in Rules => (Advanced(i, t) => Advanced(i, t)')
    BY <1>7, OutsideStep DEF OutsideKeeps, locals, Advanced
  <2> QED
    BY <1>6, <2>1, <2>2
<1>8. CASE BeginTick \/ SelectDue \/ SelectPending \/ EndIntake
  <2>1. /\ origin' = origin /\ dropped' = dropped /\ rules' = rules
        /\ pc # "advance"
    BY <1>8 DEF BeginTick, SelectDue, SelectPending, EndIntake, tables
  <2> QED
    BY <1>6, <2>1 DEF Firings, RunsFor, Advanced
<1>9. ASSUME NEW j \in Rules, FireRule(j)
      PROVE  Goal
  <2>1. /\ rules' = rules /\ dropped' = dropped /\ now' = now /\ tick' = tick
        /\ pc = "recurring" /\ pc' = "advance" /\ item' = j
    BY <1>9 DEF FireRule
  <2>2. CASE i = j /\ rules[i].next_run_at = t /\ tick >= t
    <3>1. F' = F \cup {Len(runs) + 1} /\ Len(runs) + 1 \notin F
      BY <1>1, <1>9, <2>2, FireEffect, RowTypes DEF Firings, RunsFor
    <3>2. Cardinality(F') = Cardinality(F) + 1
      BY <1>1, <3>1, FS_AddElement
    <3>3. ~Advanced(i, t) /\ Advanced(i, t)'
      BY <1>1, <2>1, <2>2 DEF Advanced
    <3> QED
      BY <1>1, <1>4, <1>9, <2>1, <2>2, <3>2, <3>3
  <2>3. CASE ~(i = j /\ rules[i].next_run_at = t /\ tick >= t)
    <3>1. F' = F
      BY <1>1, <1>9, <2>3, FireEffect, RowTypes DEF Firings, RunsFor
    <3>2. Advanced(i, t) => Advanced(i, t)'
      BY <2>1 DEF Advanced
    <3> QED
      BY <1>6, <2>1, <3>1, <3>2
  <2> QED
    BY <2>2, <2>3
<1>10. CASE AdvanceRule
  <2>1. /\ origin' = origin /\ dropped' = dropped /\ pc = "advance" /\ item \in Rules
        /\ pc' = "recurring" /\ F' = F
    BY <1>10 DEF AdvanceRule, ItemInv, Firings, RunsFor
  <2>2. CASE i # item \/ tick >= t
    <3>1. rules[item].every \in CadenceType
      BY <2>1, RowTypes, IntakeAssumption DEF RuleRow
    <3>2. NextRunAt(rules[item].every, tick) > tick
          /\ NextRunAt(rules[item].every, tick) \in Nat
      BY <1>1, <3>1, NextIsLater, NextRunAtType
    <3>3. Advanced(i, t) => Advanced(i, t)'
      BY <1>1, <1>10, <2>1, <2>2, <3>2, AdvanceEffect DEF Advanced
    <3> QED
      BY <1>6, <2>1, <3>3
  <2>3. CASE tick < t
    <3>1. F = {}
      BY <1>1, <2>1, <2>3, RowTypes DEF BeganInv, Firings, RunsFor, Origin
    <3> QED
      BY <1>2, <2>1, <3>1
  <2> QED
    BY <1>1, <2>2, <2>3
<1>11. ASSUME NEW j \in Schedules, DispatchSchedule(j)
       PROVE  Goal
  <2>1. F' = F
    BY <1>1, <1>11, DispatchEffect, RowTypes DEF Firings, RunsFor
  <2>2. rules' = rules /\ dropped' = dropped /\ pc = "intake"
    BY <1>11 DEF DispatchSchedule
  <2> QED
    BY <1>6, <2>1, <2>2 DEF Advanced
<1>12. CASE MarkDispatched
  BY <1>6, <1>12 DEF MarkDispatched, Firings, RunsFor, Advanced
<1>13. CASE AbortTick
  <2>1. F' = F /\ dropped' = dropped + 1 /\ rules' = rules /\ i \in Rules /\ now' = now
    BY <1>13 DEF AbortTick, Firings, RunsFor, Rules
  <2> QED
    BY <1>1, <1>4, <2>1
<1> QED
  BY <1>7, <1>8, <1>9, <1>10, <1>11, <1>12, <1>13, Steps

(* Between the time a next run is computed from and that next run there is *)
(* no occurrence; and at AdvanceRule the run was created at or after that  *)
(* time.                                                                   *)
LEMMA SkippedStep ==
  TypeOK /\ ItemInv /\ NoneSkipped /\ [Next]_vars => NoneSkipped'
<1> SUFFICES ASSUME TypeOK, ItemInv, NoneSkipped, [Next]_vars,
                    NEW i \in Rules', rules'[i].every.kind = "cron",
                    NEW t \in (rules'[i].created_at + 1)..(rules'[i].next_run_at - 1),
                    t % rules'[i].every.period = 0
             PROVE  \E r \in RunsFor("rule", i)' : origin'[r].at >= t
  BY DEF NoneSkipped
<1> DEFINE row == rules'[i]
           p == row.every.period
<1>1. row \in RuleRow /\ p \in Nat \ {0}
  <2>1. rules' \in Seq(RuleRow)
    BY TypeStep DEF TypeOK
  <2>2. row \in RuleRow
    BY <2>1, ElementOfSeq DEF Rules
  <2> QED
    BY <2>2, IntakeAssumption DEF RuleRow, CadenceType
<1>2. row.created_at \in Nat /\ row.next_run_at \in Nat /\ t \in Nat
  BY <1>1 DEF RuleRow
<1>3. ASSUME NEW u \in Nat, row.next_run_at = NextRunAt(row.every, u)
      PROVE  t <= u
  <2>1. row.next_run_at = u - (u % p) + p
    BY <1>3 DEF NextRunAt
  <2> QED
    BY <1>1, <1>2, <2>1, CronIsNext
<1>4. ASSUME i \in Rules, row.every = rules[i].every, row.created_at = rules[i].created_at,
             row.next_run_at = rules[i].next_run_at
      PROVE  \E r \in RunsFor("rule", i)' : origin'[r].at >= t
  <2>1. PICK r \in RunsFor("rule", i) : origin[r].at >= t
    BY <1>4 DEF NoneSkipped
  <2> QED
    BY <2>1, RunsStay, RunsForStay DEF RunsFor
<1>5. CASE Outside
  <2>1. CASE i \in Rules
    BY <1>4, <1>5, <2>1, OutsideStep DEF OutsideKeeps
  <2>2. CASE i \notin Rules
    <3>1. row.next_run_at = NextRunAt(row.every, row.created_at)
      BY <1>5, <2>2, OutsideStep DEF OutsideKeeps
    <3> QED
      BY <1>2, <1>3, <3>1
  <2> QED
    BY <2>1, <2>2
<1>6. CASE AdvanceRule
  <2>1. item \in Rules
    BY <1>6 DEF AdvanceRule, ItemInv
  <2>2. CASE i # item
    BY <1>4, <1>6, <2>1, <2>2, AdvanceEffect
  <2>3. CASE i = item
    <3>1. row.next_run_at = NextRunAt(row.every, tick)
      BY <1>6, <2>1, <2>3, AdvanceEffect
    <3>2. t <= tick
      BY <1>3, <3>1 DEF TypeOK
    <3>3. Len(runs) \in RunsFor("rule", i) /\ origin[Len(runs)].at >= tick
      BY <1>6, <2>3 DEF AdvanceRule, ItemInv
    <3>4. origin[Len(runs)].at \in Nat
      BY <3>3, RowTypes DEF RunsFor, Origin
    <3>5. origin' = origin
      BY <1>6 DEF AdvanceRule
    <3> QED
      BY <1>2, <3>2, <3>3, <3>4, <3>5, RunsForStay DEF TypeOK
  <2> QED
    BY <2>2, <2>3
<1>7. CASE rules' = rules
  BY <1>4, <1>7 DEF Rules
<1> QED
  BY <1>5, <1>6, <1>7, Steps
  DEF BeginTick, SelectDue, FireRule, SelectPending, DispatchSchedule, MarkDispatched,
      EndIntake, AbortTick, tables

-----------------------------------------------------------------------------
(* The theorems.                                                           *)

LEMMA InvInit == Init => Inv
<1> SUFFICES ASSUME Init PROVE Inv
  OBVIOUS
<1>1. Schedules = {} /\ Rules = {} /\ DOMAIN origin = {}
  BY DEF Init, Schedules, Rules
<1> QED
  BY <1>1
  DEF Init, Inv, SelectedInv, ItemInv, OriginInv, RunIdIsItsRun, CancelStopsAllButOne,
      NoneSkipped, OnceInv, BeganInv, FiringsInv

LEMMA InvStep == TypeOK /\ Inv /\ [Next]_vars => Inv'
  BY SelectedStep, ItemStep, OriginStep, RunIdStep, CancelStep, OnceStep, SkippedStep,
     BeganStep, FiringsStep
  DEF Inv

(* What the tick has selected and what the tables hold stay consistent,    *)
(* however clients and dropped ticks interleave with the statements.       *)
THEOREM IntakeInvariant == Spec => []Inv
<1>1. TypeOK /\ Inv /\ [Next]_vars => (TypeOK /\ Inv)'
  BY TypeStep, InvStep
<1> QED
  BY <1>1, TypeInit, InvInit, PTL DEF Spec

(* The run_id of a schedule names a run created for it, with its request.  *)
THEOREM RunIdCorrect == Spec => []RunIdIsItsRun
<1>1. Inv => RunIdIsItsRun
  BY DEF Inv
<1> QED
  BY <1>1, IntakeInvariant, PTL

(* After the cancel of a schedule or a rule is recorded, at most one more  *)
(* run comes of it.                                                        *)
THEOREM CancelWorks == Spec => []CancelStopsAllButOne
<1>1. Inv => CancelStopsAllButOne
  BY DEF Inv
<1> QED
  BY <1>1, IntakeInvariant, PTL

(* No occurrence of a cron rule is passed over.                            *)
THEOREM NoOccurrenceLost == Spec => []NoneSkipped
<1>1. Inv => NoneSkipped
  BY DEF Inv
<1> QED
  BY <1>1, IntakeInvariant, PTL

(* A schedule has one run, and one more at most for each dropped tick.     *)
THEOREM ScheduleRunsOnce == Spec => []OneRunPerSchedule
<1>1. TypeOK /\ Inv => OneRunPerSchedule
  BY RunsForFinite DEF Inv, OnceInv, OneRunPerSchedule, TypeOK
<1> QED
  BY <1>1, TypesHold, IntakeInvariant, PTL

(* A rule fires again for the time it has fired for only when a tick was   *)
(* dropped, or had read its clock before that time.                        *)
THEOREM RuleFiresOnce == Spec => []FiredOnceIfNoticed
<1>1. TypeOK /\ Inv => FiredOnceIfNoticed
  BY FiringsFinite DEF Inv, FiringsInv, FiredOnceIfNoticed, TypeOK
<1> QED
  BY <1>1, TypesHold, IntakeInvariant, PTL
=============================================================================
