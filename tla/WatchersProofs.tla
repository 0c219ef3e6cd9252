----------------------------- MODULE WatchersProofs -----------------------------
(***************************************************************************)
(* Proofs about Watchers, for any workflow, any requests and any number of *)
(* runs and of loads that overlap.                                         *)
(***************************************************************************)
EXTENDS Watchers, SequenceTheorems, TLAPS

-----------------------------------------------------------------------------
(* Sequences.                                                              *)

LEMMA Removed ==
  ASSUME NEW S, NEW s \in Seq(S), NEW k \in DOMAIN s
  PROVE  /\ RemoveAt(s, k) \in Seq(S)
         /\ Len(RemoveAt(s, k)) = Len(s) - 1
         /\ \A i \in 1 .. Len(s) - 1 : RemoveAt(s, k)[i] = s[IF i < k THEN i ELSE i + 1]
<1> DEFINE before == SubSeq(s, 1, k - 1)
           after == SubSeq(s, k + 1, Len(s))
<1>1. k \in 1 .. Len(s) /\ Len(s) \in Nat
  OBVIOUS
<1>2. before \in Seq(S) /\ Len(before) = k - 1 /\ \A i \in 1 .. k - 1 : before[i] = s[i]
  <2>1. \A i \in 1 .. k - 1 : s[i] \in S
    BY <1>1
  <2> QED  BY <1>1, <2>1, SubSeqProperties
<1>3. after \in Seq(S) /\ Len(after) = Len(s) - k /\ \A i \in 1 .. Len(s) - k : after[i] = s[k + i]
  <2>1. \A i \in k + 1 .. Len(s) : s[i] \in S
    BY <1>1
  <2> QED  BY <1>1, <2>1, SubSeqProperties
<1>4. RemoveAt(s, k) = before \o after
  BY DEF RemoveAt
<1>5. /\ before \o after \in Seq(S)
      /\ Len(before \o after) = Len(before) + Len(after)
      /\ \A i \in 1 .. Len(before) + Len(after) : (before \o after)[i] =
           IF i <= Len(before) THEN before[i] ELSE after[i - Len(before)]
  BY <1>2, <1>3, ConcatProperties
<1>6. ASSUME NEW i \in 1 .. Len(s) - 1
      PROVE  (before \o after)[i] = s[IF i < k THEN i ELSE i + 1]
  <2>1. CASE i < k
    <3>1. i \in 1 .. k - 1 /\ i <= Len(before)
      BY <1>1, <1>2, <2>1
    <3> QED  BY <1>1, <1>2, <1>3, <1>5, <2>1, <3>1
  <2>2. CASE ~(i < k)
    <3>1. i - (k - 1) \in 1 .. Len(s) - k /\ ~(i <= Len(before))
      BY <1>1, <1>2, <2>2
    <3>2. after[i - (k - 1)] = s[k + (i - (k - 1))]
      BY <1>3, <3>1
    <3>3. k + (i - (k - 1)) = i + 1
      BY <1>1
    <3>4. (before \o after)[i] = after[i - (k - 1)]
      <4>1. i \in 1 .. Len(before) + Len(after)
        BY <1>1, <1>2, <1>3
      <4> HIDE DEF before, after
      <4> QED  BY <1>2, <1>5, <3>1, <4>1
    <3> QED  BY <2>2, <3>2, <3>3, <3>4
  <2> QED  BY <2>1, <2>2
<1> DEFINE rest == before \o after
<1>7. Len(rest) = Len(s) - 1
  <2>1. Len(rest) = Len(before) + Len(after)
    BY <1>5
  <2> HIDE DEF before, after, rest
  <2> QED  BY <1>1, <1>2, <1>3, <2>1
<1>8. rest \in Seq(S)
  BY <1>5
<1>9. \A i \in 1 .. Len(s) - 1 : rest[i] = s[IF i < k THEN i ELSE i + 1]
  BY <1>6
<1>10. RemoveAt(s, k) = rest
  BY <1>4
<1> HIDE DEF before, after, rest
<1> QED  BY <1>7, <1>8, <1>9, <1>10

-----------------------------------------------------------------------------
(* How far a status is: what is seen later is ahead of what was seen       *)
(* before, and is the same at the end.                                     *)

Ahead(st, next) == Rank(st) <= Rank(next) /\ (Rank(st) = 3 => next = st)

Seen == Statuses \cup {None}

LEMMA Ranks ==
  /\ Rank(None) = 0
  /\ Rank("requested") = 1 /\ Rank("running") = 2
  /\ \A st \in Terminal : Rank(st) = 3
  /\ \A st \in Seen : Rank(st) \in 0 .. 3 /\ (Rank(st) = 3 <=> st \in Terminal)
<1>1. None \notin {"requested", "running", "completed", "failed", "cancelled"}
  BY WatchersAssumption DEF Active, Terminal
<1>2. Rank(None) = 0 /\ Rank("requested") = 1 /\ Rank("running") = 2
  BY <1>1 DEF Rank
<1>3. \A st \in Terminal : Rank(st) = 3
  BY <1>1 DEF Rank, Terminal
<1>4. Seen = {"requested", "running", None} \cup Terminal
  BY DEF Seen, Statuses, Active
<1>5. \A st \in {"requested", "running", None} : st \notin Terminal
  BY <1>1 DEF Terminal
<1> QED  BY <1>2, <1>3, <1>4, <1>5

LEMMA AheadAgain ==
  ASSUME NEW x \in Seen, NEW y \in Seen, NEW z \in Seen
  PROVE  /\ Ahead(x, x) /\ Ahead(None, x)
         /\ Ahead(x, y) /\ Ahead(y, z) => Ahead(x, z)
         /\ Ahead(x, y) /\ x \in Terminal => y = x
BY Ranks DEF Ahead

-----------------------------------------------------------------------------
(* The runs.                                                               *)

Settles(b, s) == b[s] \in {"completed", "replaced"}

(* The badges b show what makes the run r complete.                        *)
Whole(r, b) ==
  LET q == request[r] IN
  \/ q.stop_after \in Stage /\ Settles(b, q.stop_after)
  \/ \A s \in Reachable(q) : Settles(b, s) \/ s \in Known(Overrides(q))

RunsInv ==
  /\ request \in [Run -> Request]
  /\ status \in [Run -> Statuses]
  /\ progress \in [Run -> [Stage -> Life!Progress]]
  /\ \A r \in Run : status[r] = "completed" => Whole(r, progress[r])

(* A run goes forward, and a stage that is settled stays so.               *)
Forward ==
  /\ request' = request
  /\ \A r \in Run : Ahead(status[r], status'[r])
  /\ \A r \in Run, s \in Stage : Settles(progress[r], s) => Settles(progress'[r], s)

LEMMA ReachableIsStage == \A q : Reachable(q) \subseteq Stage
BY DEF Reachable, ReachableFrom

(* RunLifecycle reads requests as Workflow does.                           *)
LEMMA SameWords ==
  ASSUME NEW q
  PROVE  /\ Life!Reachable(q) = Reachable(q)
         /\ Life!Known(Life!Overrides(q)) = Known(Overrides(q))
         /\ Life!Active = Active
BY DEF Life!Reachable, Reachable, Life!ReachableFrom, ReachableFrom, Life!Overrides, Overrides,
       Life!NoVersions, NoVersions, Life!Known, Known, Life!Active, Active

LEMMA RunsInit == Init => RunsInv
<1> SUFFICES ASSUME Init PROVE RunsInv
  OBVIOUS
<1>1. Life!Init
  BY DEF Init
<1> QED  BY <1>1 DEF Life!Init, RunsInv, Statuses, Active, Life!Progress

LEMMA RunsStay ==
  ASSUME RunsInv, UNCHANGED runVars
  PROVE  RunsInv' /\ Forward
<1>1. request' = request /\ status' = status /\ progress' = progress
  BY DEF runVars
<1>2. \A r \in Run : status[r] \in Seen
  BY DEF RunsInv, Seen
<1> QED  BY <1>1, <1>2, AheadAgain DEF RunsInv, Forward, Whole

(* What a run's move does to its status.                                   *)
LEMMA SetStatusForward ==
  ASSUME RunsInv, NEW r \in Run, NEW st \in Statuses, Life!SetStatus(r, st),
         Ahead(status[r], st), st = "completed" => Whole(r, progress[r])
  PROVE  RunsInv' /\ Forward
<1>1. /\ request' = request /\ progress' = progress
      /\ status' = [status EXCEPT ![r] = st]
  BY DEF Life!SetStatus
<1>2. status' \in [Run -> Statuses]
  BY <1>1 DEF RunsInv
<1>3. \A x \in Run : status'[x] = IF x = r THEN st ELSE status[x]
  BY <1>1 DEF RunsInv
<1>4. \A x \in Run : Ahead(status[x], status[x])
  BY AheadAgain DEF RunsInv, Seen
<1> QED  BY <1>1, <1>2, <1>3, <1>4 DEF RunsInv, Forward, Whole

(* What it does to the progress of a stage.                                *)
LEMMA MoveForward ==
  ASSUME RunsInv, NEW r \in Run, NEW s \in Stage,
         NEW from \in SUBSET {"waiting", "dispatched", "failed"}, NEW to \in Life!Progress,
         Life!Move(r, s, from, to)
  PROVE  RunsInv' /\ Forward
<1>1. /\ request' = request /\ status' = status
      /\ progress[r][s] \in from
      /\ progress' = [progress EXCEPT ![r][s] = to]
  BY DEF Life!Move
<1>2. progress' \in [Run -> [Stage -> Life!Progress]]
  BY <1>1 DEF RunsInv
<1>3. ~Settles(progress[r], s)
  BY <1>1 DEF Settles
<1>4. \A x \in Run, y \in Stage : Settles(progress[x], y) => Settles(progress'[x], y)
  <2> SUFFICES ASSUME NEW x \in Run, NEW y \in Stage, Settles(progress[x], y)
               PROVE  progress'[x][y] = progress[x][y]
    BY DEF Settles
  <2>1. ~(x = r /\ y = s)
    BY <1>3
  <2> QED  BY <1>1, <2>1 DEF RunsInv
<1>5. \A x \in Run : Whole(x, progress[x]) => Whole(x, progress[x])'
  BY <1>1, <1>4, ReachableIsStage DEF Whole
<1>6. \A x \in Run : Ahead(status[x], status[x])
  BY AheadAgain DEF RunsInv, Seen
<1> QED  BY <1>1, <1>2, <1>4, <1>5, <1>6 DEF RunsInv, Forward

LEMMA RunMovesForward ==
  ASSUME RunsInv, NEW r \in Run, RunMoves(r)
  PROVE  RunsInv' /\ Forward
<1>1. status[r] \in Statuses /\ Active \subseteq Statuses /\ Terminal \subseteq Statuses
  BY DEF RunsInv, Statuses
<1>2. \A st \in Terminal : status[r] \in Active => Ahead(status[r], st)
  BY Ranks DEF Ahead, Active
<1>3. CASE Life!Start(r)
  <2>1. Ahead(status[r], "running") /\ Life!SetStatus(r, "running")
    BY <1>3, Ranks DEF Ahead, Life!Start
  <2> QED  BY <1>1, <2>1, SetStatusForward DEF Active
<1>4. CASE Life!Complete(r)
  <2>1. Whole(r, progress[r])
    BY <1>4, SameWords DEF Life!Complete, Life!Settled, Life!Pinned, Whole, Settles
  <2>2. Life!SetStatus(r, "completed") /\ status[r] \in Active /\ "completed" \in Terminal
    BY <1>4, SameWords DEF Life!Complete, Terminal
  <2> QED  BY <1>1, <1>2, <2>1, <2>2, SetStatusForward
<1>5. CASE Life!Fail(r)
  <2>1. Life!SetStatus(r, "failed") /\ status[r] \in Active /\ "failed" \in Terminal
    BY <1>5, SameWords DEF Life!Fail, Terminal
  <2> QED  BY <1>1, <1>2, <2>1, SetStatusForward
<1>6. CASE Life!Cancel(r)
  <2>1. Life!SetStatus(r, "cancelled") /\ status[r] \in Active /\ "cancelled" \in Terminal
    BY <1>6, SameWords DEF Life!Cancel, Terminal
  <2> QED  BY <1>1, <1>2, <2>1, SetStatusForward
<1>7. CASE Life!Ask(r)
  <2>1. request' = request /\ status' = status /\ progress' = progress
    BY <1>7 DEF Life!Ask
  <2>2. \A x \in Run : Ahead(status[x], status[x])
    BY AheadAgain DEF RunsInv, Seen
  <2> QED  BY <2>1, <2>2 DEF RunsInv, Forward, Whole
<1>8. ASSUME NEW s \in Stage, Life!Dispatch(r, s) \/ Life!Finish(r, s) \/ Life!Replace(r, s)
      PROVE  RunsInv' /\ Forward
  <2>1. PICK from \in SUBSET {"waiting", "dispatched", "failed"}, to \in Life!Progress :
          Life!Move(r, s, from, to)
    BY <1>8 DEF Life!Dispatch, Life!Finish, Life!Replace, Life!Progress
  <2> QED  BY <2>1, MoveForward
<1> QED  BY <1>3, <1>4, <1>5, <1>6, <1>7, <1>8 DEF RunMoves

-----------------------------------------------------------------------------
(* Who takes a step.                                                       *)

Intake ==
  /\ \/ SelectPending \/ MarkDispatched \/ DropTick
     \/ \E r \in Run : CreateWorkflowRun(r)
     \/ RequestScheduleCancel \/ WriteScheduleCancel
  /\ UNCHANGED <<runVars, clientVars>>

CliStep == (Cli \/ PollFails) /\ UNCHANGED <<runVars, intakeVars, watcher, page, loads, dash>>

PageStep ==
  /\ Page \/ \E k \in DOMAIN loads : LoadFails(k)
  /\ UNCHANGED <<runVars, intakeVars, watcher, cli, dash>>

DashStep == Dashboard /\ UNCHANGED <<runVars, intakeVars, watcher, cli, page, loads>>

LEMMA Steps ==
  ASSUME [Next]_vars
  PROVE  \/ UNCHANGED vars
         \/ UNCHANGED <<intakeVars, clientVars>> /\ \E r \in Run : RunMoves(r)
         \/ Intake \/ CliStep \/ PageStep \/ DashStep
<1>1. CASE \E r \in Run : RunMoves(r)
  BY <1>1 DEF RunMoves
<1>2. CASE \/ SelectPending \/ MarkDispatched \/ DropTick
           \/ \E r \in Run : CreateWorkflowRun(r)
           \/ RequestScheduleCancel \/ WriteScheduleCancel
  BY <1>2 DEF Intake, SelectPending, MarkDispatched, DropTick, CreateWorkflowRun,
              RequestScheduleCancel, WriteScheduleCancel
<1>3. CASE Cli \/ PollFails
  BY <1>3 DEF Cli, PollFails, CliStep, ReadSchedule, ReadRun, SetCli
<1>4. CASE Page \/ \E k \in DOMAIN loads : LoadFails(k)
  BY <1>4 DEF Page, PageStep, OpenPage, StartLoad, LoadRun, LoadStageRuns, ShowLoad,
              ListStagesFails, LoadFails, SetPage
<1>5. CASE Dashboard
  BY <1>5 DEF Dashboard, DashStep, ListRuns, ListPending, ShowDashboard, SetDash
<1> QED  BY <1>1, <1>2, <1>3, <1>4, <1>5 DEF Next

LEMMA RunsNext == RunsInv /\ [Next]_vars => RunsInv' /\ Forward
<1> SUFFICES ASSUME RunsInv, [Next]_vars PROVE RunsInv' /\ Forward
  OBVIOUS
<1>1. UNCHANGED runVars \/ \E r \in Run : RunMoves(r)
  BY Steps DEF vars, Intake, CliStep, PageStep, DashStep
<1> QED  BY <1>1, RunsStay, RunMovesForward

-----------------------------------------------------------------------------
(* The schedule and the runs created for it.                               *)

Schedule == [dispatched : BOOLEAN, run_id : Run \cup {None}, cancel_requested : BOOLEAN]

(* A run has its row, and is the schedule's, dropped or about to be        *)
(* marked.  A cancel that crosses no tick finds nothing selected, and no   *)
(* tick selects the schedule after it.                                     *)
ScheduleInv ==
  /\ minted \subseteq Run /\ orphans \subseteq Run
  /\ schedule \in Schedule
  /\ selected \in BOOLEAN /\ cancelling \in BOOLEAN /\ crossed \in BOOLEAN
  /\ created \in Run \cup {None}
  /\ watcher \in Watcher
  /\ created # None => selected /\ created \in minted
  /\ selected => ~schedule.dispatched
  /\ schedule.dispatched => schedule.run_id \in minted
  /\ ~schedule.dispatched => minted \subseteq orphans \cup {created}
  /\ schedule.dispatched => minted \subseteq orphans \cup {schedule.run_id}
  /\ schedule.cancel_requested /\ ~crossed => ~selected /\ ~schedule.dispatched

(* What is recorded of a schedule stays.                                   *)
ScheduleForward ==
  /\ schedule.dispatched => schedule'.dispatched /\ schedule'.run_id = schedule.run_id
  /\ schedule.cancel_requested => schedule'.cancel_requested
  /\ minted \subseteq minted' /\ orphans \subseteq orphans'
  /\ crossed => crossed'

LEMMA ScheduleInit == Init => ScheduleInv
<1> SUFFICES ASSUME Init PROVE ScheduleInv
  OBVIOUS
<1>1. /\ selected = FALSE /\ cancelling = FALSE /\ crossed = FALSE
      /\ created = None /\ orphans = {} /\ watcher \in Watcher
  BY DEF Init
<1>2. CASE /\ minted = {}
           /\ schedule = [dispatched |-> FALSE, run_id |-> None, cancel_requested |-> FALSE]
  BY <1>1, <1>2 DEF ScheduleInv, Schedule
<1>3. CASE /\ minted = {Opened}
           /\ schedule = [dispatched |-> TRUE, run_id |-> Opened, cancel_requested |-> FALSE]
  <2>1. schedule.dispatched = TRUE /\ schedule.run_id = Opened /\ schedule.cancel_requested = FALSE
    BY <1>3
  <2>2. schedule \in Schedule
    BY <1>3, WatchersAssumption DEF Schedule
  <2> QED  BY <1>1, <1>3, <2>1, <2>2, WatchersAssumption DEF ScheduleInv
<1> QED  BY <1>2, <1>3 DEF Init

LEMMA ScheduleNext == ScheduleInv /\ [Next]_vars => ScheduleInv' /\ ScheduleForward
<1> SUFFICES ASSUME ScheduleInv, [Next]_vars PROVE ScheduleInv' /\ ScheduleForward
  OBVIOUS
<1>1. CASE UNCHANGED <<intakeVars, watcher>>
  BY <1>1 DEF intakeVars, ScheduleInv, ScheduleForward
<1>2. CASE Intake
  <2>1. watcher' = watcher /\ None \notin Run
    BY <1>2, NamesAssumption DEF Intake, clientVars
  <2>2. CASE SelectPending
    BY <2>1, <2>2 DEF SelectPending, ScheduleInv, ScheduleForward
  <2>3. ASSUME NEW r \in Run, CreateWorkflowRun(r) PROVE ScheduleInv' /\ ScheduleForward
    BY <2>1, <2>3 DEF CreateWorkflowRun, ScheduleInv, ScheduleForward
  <2>4. CASE MarkDispatched
    <3>1. /\ schedule' \in Schedule
          /\ schedule'.dispatched = TRUE /\ schedule'.run_id = created
          /\ schedule'.cancel_requested = schedule.cancel_requested
      BY <2>4 DEF MarkDispatched, ScheduleInv, Schedule
    <3>2. /\ created \in minted /\ selected /\ ~schedule.dispatched
          /\ selected' = FALSE /\ created' = None
          /\ UNCHANGED <<minted, cancelling, orphans, crossed>>
      BY <2>4 DEF MarkDispatched, ScheduleInv
    <3>3. ScheduleForward
      BY <3>1, <3>2 DEF ScheduleForward
    <3>4. schedule'.cancel_requested /\ ~crossed' => FALSE
      BY <3>1, <3>2 DEF ScheduleInv
    <3> QED  BY <2>1, <3>1, <3>2, <3>3, <3>4 DEF ScheduleInv
  <2>5. CASE DropTick
    BY <2>1, <2>5 DEF DropTick, ScheduleInv, ScheduleForward
  <2>6. CASE RequestScheduleCancel
    BY <2>1, <2>6 DEF RequestScheduleCancel, ScheduleInv, ScheduleForward
  <2>7. CASE WriteScheduleCancel
    <3>1. /\ schedule' \in Schedule
          /\ schedule'.dispatched = schedule.dispatched /\ schedule'.run_id = schedule.run_id
          /\ schedule'.cancel_requested = TRUE
      BY <2>7 DEF WriteScheduleCancel, ScheduleInv, Schedule
    <3>2. /\ crossed' = (crossed \/ selected \/ schedule.dispatched)
          /\ cancelling' = FALSE
          /\ UNCHANGED <<minted, selected, created, orphans>>
      BY <2>7 DEF WriteScheduleCancel
    <3>3. crossed' \in BOOLEAN
      BY <3>2
    <3>4. ScheduleForward
      BY <3>1, <3>2 DEF ScheduleForward
    <3>5. ~crossed' => ~selected' /\ ~schedule'.dispatched
      BY <3>1, <3>2
    <3> QED  BY <2>1, <3>1, <3>2, <3>3, <3>4, <3>5 DEF ScheduleInv
  <2> QED  BY <1>2, <2>2, <2>3, <2>4, <2>5, <2>6, <2>7 DEF Intake
<1> QED
  BY <1>1, <1>2, Steps DEF vars, clientVars, CliStep, PageStep, DashStep

-----------------------------------------------------------------------------
(* The CLI.                                                                *)

CliType == [at : {"schedule", "run", "exited", "crashed"}, run_id : Run \cup {None},
            shown : Seen, code : {0, 1, None}]

(* Until it ends the CLI has been shown no end, and what it was shown is   *)
(* still so or has passed.                                                 *)
CliInv ==
  /\ cli \in CliType
  /\ cli.at \in {"schedule", "run"} =>
       \/ cli.shown \in {None, "requested"}
       \/ cli.shown = "running" /\ schedule.dispatched /\ status[schedule.run_id] # "requested"
  /\ cli.at = "run" => schedule.dispatched /\ cli.run_id = schedule.run_id
  /\ cli.at = "exited" =>
       /\ cli.code = 1 <=> cli.shown = "failed"
       /\ cli.shown \in Terminal
       /\ IF cli.run_id \in Run
          THEN /\ schedule.dispatched /\ cli.run_id = schedule.run_id
               /\ cli.shown = status[cli.run_id]
          ELSE cli.shown = "cancelled" /\ schedule.cancel_requested

CliForward ==
  Rank(cli.shown) <= Rank(cli'.shown) /\ (Rank(cli.shown) = 3 => cli'.shown = cli.shown)

LEMMA CliInit == Init => CliInv
<1> SUFFICES ASSUME Init PROVE CliInv
  OBVIOUS
<1>1. cli = [at |-> "schedule", run_id |-> None, shown |-> None, code |-> None]
  BY DEF Init
<1>2. cli.at = "schedule" /\ cli.shown = None
  BY <1>1
<1> QED  BY <1>1, <1>2 DEF CliInv, CliType, Seen

(* Others take a step.                                                     *)
LEMMA CliStays ==
  ASSUME RunsInv, ScheduleInv, CliInv, Forward, ScheduleForward, cli' = cli
  PROVE  CliInv' /\ CliForward
<1>1. schedule.dispatched => schedule.run_id \in Run
  BY DEF ScheduleInv
<1>2. \A r \in Run : status[r] \in Seen /\ Ahead(status[r], status'[r])
  BY DEF RunsInv, Forward, Seen
<1>3. \A r \in Run : status[r] # "requested" => status'[r] # "requested"
  <2> SUFFICES ASSUME NEW r \in Run, status[r] # "requested" PROVE status'[r] # "requested"
    OBVIOUS
  <2>1. status[r] = "running" \/ status[r] \in Terminal
    BY DEF RunsInv, Statuses, Active
  <2> QED  BY <1>2, <2>1, Ranks DEF Ahead
<1>4. \A r \in Run : status[r] \in Terminal => status'[r] = status[r]
  BY <1>2, Ranks DEF Ahead
<1>5. Rank(cli.shown) \in 0 .. 3
  BY Ranks DEF CliInv, CliType
<1>6. CliForward
  BY <1>5 DEF CliForward
<1>7. CASE cli.at \in {"schedule", "run"}
  BY <1>1, <1>3, <1>6, <1>7 DEF CliInv, ScheduleForward
<1>8. CASE cli.at = "exited"
  BY <1>4, <1>6, <1>8 DEF CliInv, ScheduleForward
<1>9. CASE cli.at = "crashed"
  BY <1>6, <1>9 DEF CliInv
<1> QED  BY <1>7, <1>8, <1>9 DEF CliInv, CliType

LEMMA CliNext ==
  ASSUME RunsInv, ScheduleInv, CliInv, Forward, ScheduleForward, [Next]_vars
  PROVE  CliInv' /\ CliForward
<1>1. CASE cli' = cli
  BY <1>1, CliStays
<1>2. CASE CliStep
  <2>1. UNCHANGED <<status, schedule>> /\ None \notin Run
    BY <1>2, NamesAssumption DEF CliStep, runVars, intakeVars
  <2>2. schedule.dispatched => schedule.run_id \in Run
    BY DEF ScheduleInv
  <2>3. cli.at \in {"schedule", "run"}
    BY <1>2 DEF CliStep, Cli, ReadSchedule, ReadRun, PollFails
  <2>4. Rank(cli.shown) \in 0 .. 2 /\ (cli.shown \in {None, "requested"} => Rank(cli.shown) < 2)
    BY <2>3, Ranks DEF CliInv
  <2>5. CASE ReadSchedule /\ schedule.dispatched
    <3>1. cli' = [cli EXCEPT !.at = "run", !.run_id = schedule.run_id]
      BY <2>5 DEF ReadSchedule, SetCli
    <3>2. cli' \in CliType /\ cli'.at = "run" /\ cli'.run_id = schedule.run_id
          /\ cli'.shown = cli.shown
      BY <2>2, <2>5, <3>1 DEF CliInv, CliType
    <3> QED  BY <2>1, <2>3, <2>4, <2>5, <3>2 DEF CliInv, CliForward
  <2>6. CASE ReadSchedule /\ ~schedule.dispatched /\ ~schedule.cancel_requested
    <3>1. cli' = [cli EXCEPT !.at = "schedule", !.run_id = None, !.shown = "requested"]
      BY <2>6 DEF ReadSchedule, SetCli, Told, Waiting
    <3>2. cli' \in CliType /\ cli'.at = "schedule" /\ cli'.shown = "requested"
      BY <3>1 DEF CliInv, CliType, Seen, Statuses, Active
    <3>3. cli.shown \in {None, "requested"}
      BY <2>3, <2>6 DEF CliInv
    <3>4. Rank(cli.shown) <= Rank("requested")
      BY <3>3, Ranks
    <3> QED  BY <2>1, <2>4, <3>2, <3>4 DEF CliInv, CliForward
  <2>7. CASE ReadSchedule /\ ~schedule.dispatched /\ schedule.cancel_requested
    <3>1. cli' = [at |-> "exited", run_id |-> None, shown |-> "cancelled", code |-> 0]
      BY <2>7 DEF ReadSchedule, SetCli, Told, Waiting, ExitCode
    <3>2. /\ cli' \in CliType /\ cli'.at = "exited" /\ cli'.shown = "cancelled"
          /\ cli'.run_id = None /\ cli'.code = 0
      BY <3>1 DEF CliType, Seen, Statuses, Terminal
    <3>3. Rank("cancelled") = 3 /\ "cancelled" \in Terminal
      BY Ranks DEF Terminal
    <3> QED  BY <2>1, <2>4, <2>7, <3>2, <3>3 DEF CliInv, CliForward
  <2>8. CASE ReadRun /\ status[cli.run_id] \in Waiting
    <3> DEFINE st == status[cli.run_id]
    <3>1. schedule.dispatched /\ cli.run_id = schedule.run_id
      BY <2>8 DEF ReadRun, CliInv
    <3>2. cli' = [cli EXCEPT !.at = "schedule", !.run_id = None, !.shown = st]
      BY <2>8 DEF ReadRun, SetCli, Told
    <3>3. st \in {"requested", "running"}
      BY <2>8 DEF Waiting
    <3>4. cli' \in CliType /\ cli'.at = "schedule" /\ cli'.shown = st
      BY <3>2, <3>3 DEF CliInv, CliType, Seen, Statuses, Active
    <3>5. cli.shown \in {None, "requested"} \/ (cli.shown = "running" /\ st = "running")
      BY <2>3, <3>1, <3>3 DEF CliInv
    <3>6. Rank(cli.shown) <= Rank(st)
      BY <3>3, <3>5, Ranks
    <3>7. st = "running" => status[schedule.run_id] # "requested"
      BY <3>1
    <3> HIDE DEF st
    <3> QED  BY <2>1, <2>4, <3>1, <3>3, <3>4, <3>6, <3>7 DEF CliInv, CliForward
  <2>9. CASE ReadRun /\ status[cli.run_id] \notin Waiting
    <3> DEFINE st == status[cli.run_id]
    <3>1. schedule.dispatched /\ cli.run_id = schedule.run_id /\ cli.run_id \in Run
      BY <2>2, <2>9 DEF ReadRun, CliInv
    <3>2. st \in Terminal /\ st \in Seen
      BY <2>9, <3>1 DEF RunsInv, Statuses, Seen, Active, Waiting
    <3>3. cli' = [at |-> "exited", run_id |-> cli.run_id, shown |-> st, code |-> ExitCode(st)]
      BY <2>9 DEF ReadRun, SetCli, Told
    <3>4. ExitCode(st) \in {0, 1} /\ (ExitCode(st) = 1 <=> st = "failed")
      BY DEF ExitCode
    <3>5. Rank(st) = 3
      BY <3>2, Ranks
    <3> HIDE DEF st
    <3>6. /\ cli' \in CliType /\ cli'.at = "exited" /\ cli'.shown = st
          /\ cli'.run_id = cli.run_id /\ cli'.code = ExitCode(st)
      BY <3>1, <3>2, <3>3, <3>4 DEF CliType
    <3>7. st = status[cli.run_id]
      BY DEF st
    <3> QED  BY <2>1, <2>4, <3>1, <3>2, <3>4, <3>5, <3>6, <3>7 DEF CliInv, CliForward
  <2>10. CASE PollFails
    <3>1. cli' = [cli EXCEPT !.at = "crashed", !.code = 1]
      BY <2>10 DEF PollFails, SetCli
    <3>2. cli' \in CliType /\ cli'.at = "crashed" /\ cli'.shown = cli.shown
      BY <3>1 DEF CliInv, CliType
    <3> QED  BY <2>4, <3>2 DEF CliInv, CliForward
  <2> QED  BY <1>2, <2>5, <2>6, <2>7, <2>8, <2>9, <2>10 DEF CliStep, Cli
<1> QED
  BY <1>1, <1>2, Steps DEF vars, clientVars, Intake, PageStep, DashStep

(* ExitIsFinal and CancelledHasNoOtherRun.                                 *)
LEMMA CliIsTold == ScheduleInv /\ CliInv => CliIsToldTheEnd
<1> SUFFICES ASSUME ScheduleInv, CliInv, cli.at = "exited"
             PROVE  ExitIsFinal /\ CancelledHasNoOtherRun
  BY DEF CliIsToldTheEnd, ExitIsFinal, CancelledHasNoOtherRun
<1>1. ExitIsFinal
  BY DEF CliInv, ExitIsFinal
<1>2. minted \ orphans \subseteq {created, schedule.run_id}
  BY DEF ScheduleInv
<1>3. ASSUME cli.run_id = None, ~crossed PROVE minted \ orphans = {}
  <2>1. schedule.cancel_requested
    BY <1>3, NamesAssumption DEF CliInv
  <2>2. ~selected /\ ~schedule.dispatched
    BY <1>3, <2>1 DEF ScheduleInv
  <2>3. created = None /\ minted \subseteq orphans \cup {None} /\ minted \subseteq Run
    BY <2>2 DEF ScheduleInv
  <2> QED  BY <2>3, NamesAssumption
<1> QED  BY <1>1, <1>2, <1>3 DEF CancelledHasNoOtherRun

-----------------------------------------------------------------------------
(* The dashboard.                                                          *)

Lists == [runs : (SUBSET Run) \cup {None}, pending : BOOLEAN \cup {None},
          pending_first : BOOLEAN]

DashType == [runs : (SUBSET Run) \cup {None}, pending : BOOLEAN \cup {None},
             pending_first : BOOLEAN, shown : Lists \cup {None}]

(* The schedules were read as having none pending: it was cancelled, or    *)
(* has a run, which the list of runs shows if it was read later.           *)
DashInv ==
  /\ dash \in DashType
  /\ dash.pending # None => dash.pending \/ minted # {} \/ schedule.cancel_requested
  /\ dash.pending_first => dash.pending # None
  /\ dash.pending_first /\ dash.runs # None =>
       dash.pending \/ dash.runs # {} \/ schedule.cancel_requested
  /\ DashboardShowsRequest

LEMMA DashInit == Init => DashInv
<1> SUFFICES ASSUME Init PROVE DashInv
  OBVIOUS
<1>1. dash = [runs |-> None, pending |-> None, pending_first |-> FALSE, shown |-> None]
  BY DEF Init
<1>2. dash.pending = None /\ dash.pending_first = FALSE /\ dash.shown = None
  BY <1>1
<1>3. dash \in DashType
  BY <1>1 DEF DashType
<1> QED  BY <1>2, <1>3 DEF DashInv, DashboardShowsRequest

LEMMA DashNext == ScheduleInv /\ DashInv /\ ScheduleForward /\ [Next]_vars => DashInv'
<1> SUFFICES ASSUME ScheduleInv, DashInv, ScheduleForward, [Next]_vars PROVE DashInv'
  OBVIOUS
<1> DEFINE Cancelled == schedule.cancel_requested
<1>1. CASE dash' = dash
  BY <1>1 DEF DashInv, DashboardShowsRequest, ScheduleForward
<1>2. CASE DashStep
  <2>1. minted' = minted /\ schedule' = schedule
    BY <1>2 DEF DashStep, intakeVars
  <2>2. CASE ListRuns
    <3>1. dash' = [dash EXCEPT !.runs = minted, !.pending_first = dash.pending # None]
      BY <2>2 DEF ListRuns, SetDash
    <3>2. minted \in SUBSET Run
      BY DEF ScheduleInv
    <3>3. /\ dash' \in DashType
          /\ dash'.runs = minted /\ dash'.pending = dash.pending /\ dash'.shown = dash.shown
          /\ dash'.pending_first <=> dash.pending # None
      BY <3>1, <3>2 DEF DashInv, DashType
    <3> QED  BY <2>1, <3>3 DEF DashInv, DashboardShowsRequest
  <2>3. CASE ListPending
    <3> DEFINE p == ~schedule.dispatched /\ ~schedule.cancel_requested
    <3>1. dash' = [dash EXCEPT !.pending = p] /\ dash.pending = None
      BY <2>3 DEF ListPending, SetDash
    <3>2. p \/ minted # {} \/ schedule.cancel_requested
      BY DEF ScheduleInv
    <3>3. ~dash.pending_first
      BY <3>1 DEF DashInv
    <3>4. p \in BOOLEAN
      OBVIOUS
    <3> HIDE DEF p
    <3>5. /\ dash' \in DashType
          /\ dash'.pending = p /\ dash'.runs = dash.runs /\ dash'.shown = dash.shown
          /\ dash'.pending_first = dash.pending_first
      BY <3>1, <3>4 DEF DashInv, DashType
    <3> QED  BY <2>1, <3>2, <3>3, <3>5 DEF DashInv, DashboardShowsRequest
  <2>4. CASE ShowDashboard
    <3>1. /\ dash' = [runs |-> None, pending |-> None, pending_first |-> FALSE,
                      shown |-> [runs |-> dash.runs, pending |-> dash.pending,
                                 pending_first |-> dash.pending_first]]
          /\ dash.runs # None
      BY <2>4 DEF ShowDashboard, SetDash
    <3>2. /\ dash' \in DashType
          /\ dash'.runs = None /\ dash'.pending = None /\ dash'.pending_first = FALSE
          /\ dash'.shown.runs = dash.runs /\ dash'.shown.pending = dash.pending
          /\ dash'.shown.pending_first = dash.pending_first
      BY <3>1 DEF DashInv, DashType, Lists
    <3> QED  BY <2>1, <3>1, <3>2 DEF DashInv, DashboardShowsRequest
  <2> QED  BY <1>2, <2>2, <2>3, <2>4 DEF DashStep, Dashboard
<1> QED
  BY <1>1, <1>2, Steps DEF vars, clientVars, Intake, CliStep, PageStep

-----------------------------------------------------------------------------
(* The run page.                                                           *)

Badges == [Stage -> Life!Progress]

PageType ==
  [run : {Opened, None}, polling : BOOLEAN, shown : Seen, badges : Badges \cup {None},
   status_first : BOOLEAN, overwritten : BOOLEAN, error : BOOLEAN]

Load ==
  [status : Seen, badges : Badges \cup {None}, status_first : BOOLEAN, stale : BOOLEAN]

(* A load that was read while the page shows sh (over an earlier one if ov *)
(* is TRUE) and polls or has stopped: it is ahead of what is shown unless  *)
(* it is stale, the run is ahead of it, and it shows why the run is        *)
(* complete.                                                               *)
LoadOK(l, sh, ov, polls) ==
  l.status # None =>
    /\ Ahead(l.status, status[Opened])
    /\ ~ov /\ ~l.stale => Ahead(sh, l.status)
    /\ ~polls /\ ~l.stale => l.status = status[Opened]
    /\ l.status = "completed" /\ l.status_first /\ l.badges # None => Whole(Opened, l.badges)

(* The loads are in the order in which they read the run.                  *)
InOrder(f) ==
  \A i, j \in DOMAIN f :
    i < j /\ f[i].status # None /\ f[j].status # None => Ahead(f[i].status, f[j].status)

LoadsInv(f) ==
  /\ f \in Seq(Load)
  /\ Len(f) <= MaxInFlight
  /\ InOrder(f)
  /\ \A i \in DOMAIN f : LoadOK(f[i], page.shown, page.overwritten, page.polling)

(* What PageIsTrue says holds of a page with an error as well: it is what  *)
(* the page would show.                                                    *)
ShowsTheRun == StoppedPageIsFinal /\ BadgesMatch /\ UnlistableIsNotShown

ShownInv ==
  /\ page \in PageType
  /\ page.run = None => loads = <<>> /\ page.shown = None /\ ~page.polling
  /\ page.run = Opened =>
       /\ Ahead(page.shown, status[Opened])
       /\ ~page.polling => status[Opened] \in Terminal
  /\ ShowsTheRun

PageInv == ShownInv /\ LoadsInv(loads)

PageForward ==
  ~page'.overwritten /\ ~page.overwritten => Ahead(page.shown, page'.shown)

LEMMA InFlightBound == MaxInFlight \in Nat /\ 1 <= MaxInFlight
<1>1. MaxInFlight \in Nat \ {0}
  BY WatchersAssumption
<1> QED  BY <1>1

LEMMA PageInit == Init => PageInv
<1> SUFFICES ASSUME Init PROVE PageInv
  OBVIOUS
<1>1. /\ loads = <<>>
      /\ page = [run |-> None, polling |-> FALSE, shown |-> None, badges |-> None,
                 status_first |-> FALSE, overwritten |-> FALSE, error |-> FALSE]
  BY DEF Init
<1>2. /\ page \in PageType
      /\ page.run = None /\ ~page.polling /\ page.shown = None
  BY <1>1 DEF PageType, Seen
<1>3. None # Opened /\ None # "completed"
  BY WatchersAssumption, NamesAssumption DEF Terminal
<1>4. LoadsInv(loads)
  <2>1. <<>> \in Seq(Load) /\ Len(<<>>) = 0 /\ DOMAIN <<>> = {}
    OBVIOUS
  <2>2. 0 <= MaxInFlight
    BY InFlightBound
  <2> QED  BY <1>1, <2>1, <2>2 DEF LoadsInv, InOrder
<1> QED  BY <1>1, <1>2, <1>3, <1>4 DEF PageInv, ShownInv, ShowsTheRun, StoppedPageIsFinal,
                                     BadgesMatch, UnlistableIsNotShown

(* Whatever is done with the loads, what is left is in order.              *)
LEMMA LoadsRemoved ==
  ASSUME NEW f \in Seq(Load), InOrder(f), NEW k \in DOMAIN f
  PROVE  /\ RemoveAt(f, k) \in Seq(Load)
         /\ Len(RemoveAt(f, k)) = Len(f) - 1
         /\ InOrder(RemoveAt(f, k))
         /\ \A i \in DOMAIN RemoveAt(f, k) :
              \E j \in DOMAIN f \ {k} : RemoveAt(f, k)[i] = f[j]
<1> DEFINE g == RemoveAt(f, k)
           at(i) == IF i < k THEN i ELSE i + 1
<1>1. g \in Seq(Load) /\ Len(g) = Len(f) - 1 /\ \A i \in 1 .. Len(f) - 1 : g[i] = f[at(i)]
  BY Removed
<1> HIDE DEF g
<1>2. Len(f) \in Nat /\ DOMAIN f = 1 .. Len(f) /\ DOMAIN g = 1 .. Len(f) - 1 /\ k \in 1 .. Len(f)
  BY <1>1
<1>3. \A i \in DOMAIN g : at(i) \in DOMAIN f \ {k} /\ g[i] = f[at(i)]
  BY <1>1, <1>2
<1>4. \A i, j \in DOMAIN g : i < j => at(i) < at(j)
  BY <1>2
<1>5. InOrder(g)
  BY <1>3, <1>4 DEF InOrder
<1> QED  BY <1>1, <1>3, <1>5 DEF g

LEMMA LoadsAppended ==
  ASSUME NEW f \in Seq(Load), InOrder(f), NEW l \in Load,
         \A i \in DOMAIN f : f[i].status # None => Ahead(f[i].status, l.status)
  PROVE  /\ Append(f, l) \in Seq(Load)
         /\ Len(Append(f, l)) = Len(f) + 1
         /\ InOrder(Append(f, l))
         /\ \A i \in DOMAIN Append(f, l) :
              Append(f, l)[i] = l \/ \E j \in DOMAIN f : Append(f, l)[i] = f[j]
<1> DEFINE g == Append(f, l)
<1>1. /\ g \in Seq(Load) /\ Len(g) = Len(f) + 1
      /\ \A i \in 1 .. Len(f) : g[i] = f[i]
      /\ g[Len(f) + 1] = l
  BY AppendProperties
<1> HIDE DEF g
<1>2. Len(f) \in Nat /\ DOMAIN f = 1 .. Len(f) /\ DOMAIN g = 1 .. Len(f) + 1
  BY <1>1
<1>3. \A i, j \in DOMAIN g : i < j => i \in DOMAIN f /\ (j \in DOMAIN f \/ j = Len(f) + 1)
  BY <1>2
<1>4. InOrder(g)
  BY <1>1, <1>2, <1>3 DEF InOrder
<1>5. \A i \in DOMAIN g : g[i] = l \/ \E j \in DOMAIN f : g[i] = f[j]
  <2> SUFFICES ASSUME NEW i \in DOMAIN g PROVE g[i] = l \/ \E j \in DOMAIN f : g[i] = f[j]
    OBVIOUS
  <2>1. i \in DOMAIN f \/ i = Len(f) + 1
    BY <1>2
  <2> QED  BY <1>1, <1>2, <2>1
<1> QED  BY <1>1, <1>4, <1>5 DEF g

LEMMA LoadsPrepended ==
  ASSUME NEW f \in Seq(Load), InOrder(f), NEW l \in Load, l.status = None
  PROVE  /\ <<l>> \o f \in Seq(Load)
         /\ Len(<<l>> \o f) = Len(f) + 1
         /\ InOrder(<<l>> \o f)
         /\ \A i \in DOMAIN (<<l>> \o f) :
              (<<l>> \o f)[i] = l \/ \E j \in DOMAIN f : (<<l>> \o f)[i] = f[j]
<1> DEFINE g == <<l>> \o f
<1>1. <<l>> \in Seq(Load) /\ Len(<<l>>) = 1 /\ <<l>>[1] = l
  OBVIOUS
<1>2. /\ g \in Seq(Load) /\ Len(g) = Len(f) + 1
      /\ \A i \in 1 .. Len(f) + 1 : g[i] = IF i <= 1 THEN l ELSE f[i - 1]
  BY <1>1, ConcatProperties
<1> HIDE DEF g
<1>3. Len(f) \in Nat /\ DOMAIN f = 1 .. Len(f) /\ DOMAIN g = 1 .. Len(f) + 1
  BY <1>2
<1>4. \A i \in DOMAIN g : (i = 1 /\ g[i] = l) \/ (i - 1 \in DOMAIN f /\ g[i] = f[i - 1])
  BY <1>2, <1>3
<1>5. \A i, j \in DOMAIN g : i < j => i - 1 < j - 1
  BY <1>3
<1>6. InOrder(g)
  <2> SUFFICES ASSUME NEW i \in DOMAIN g, NEW j \in DOMAIN g, i < j,
                      g[i].status # None, g[j].status # None
               PROVE  Ahead(g[i].status, g[j].status)
    BY DEF InOrder
  <2>1. g[i] # l /\ g[j] # l
    OBVIOUS
  <2>2. i - 1 \in DOMAIN f /\ g[i] = f[i - 1] /\ j - 1 \in DOMAIN f /\ g[j] = f[j - 1]
    BY <1>4, <2>1
  <2> QED  BY <1>5, <2>2 DEF InOrder
<1> QED  BY <1>2, <1>4, <1>6 DEF g

(* One load moves on, without reading the run.                             *)
LEMMA LoadsChanged ==
  ASSUME NEW f \in Seq(Load), InOrder(f), NEW g \in Seq(Load), DOMAIN g = DOMAIN f,
         \A i \in DOMAIN f : g[i].status = f[i].status
  PROVE  InOrder(g)
BY DEF InOrder

-----------------------------------------------------------------------------
(* The others take a step.                                                 *)
LEMMA PageStays ==
  ASSUME RunsInv, RunsInv', PageInv, Forward, UNCHANGED <<page, loads>>
  PROVE  PageInv' /\ PageForward
<1> DEFINE now == status[Opened]
           then == status'[Opened]
<1>1. Opened \in Run /\ now \in Seen /\ then \in Seen /\ Ahead(now, then) /\ request' = request
  BY WatchersAssumption DEF RunsInv, Forward, Seen
<1>2. now \in Terminal => then = now
  BY <1>1, AheadAgain
<1> HIDE DEF now, then
<1>3. page.shown \in Seen /\ page.run \in {Opened, None}
  BY DEF PageInv, ShownInv, PageType
<1>4. page.run = Opened => Ahead(page.shown, now) /\ (~page.polling => now \in Terminal)
  BY DEF PageInv, ShownInv, now
<1>5. page.run = Opened => Ahead(page.shown, then) /\ (~page.polling => then \in Terminal)
  BY <1>1, <1>2, <1>3, <1>4, AheadAgain
<1>6. ShowsTheRun'
  <2>1. StoppedPageIsFinal'
    BY <1>2, <1>3, <1>4 DEF PageInv, ShownInv, ShowsTheRun, StoppedPageIsFinal, now, then
  <2>2. BadgesMatch'
    BY <1>1 DEF PageInv, ShownInv, ShowsTheRun, BadgesMatch
  <2>3. UnlistableIsNotShown'
    BY <1>1 DEF PageInv, ShownInv, ShowsTheRun, UnlistableIsNotShown, Listable
  <2> QED  BY <2>1, <2>2, <2>3 DEF ShowsTheRun
<1>7. ShownInv'
  BY <1>5, <1>6 DEF PageInv, ShownInv, then
<1>8. LoadsInv(loads)'
  <2>1. ASSUME NEW i \in DOMAIN loads
        PROVE  LoadOK(loads[i], page.shown, page.overwritten, page.polling)'
    <3>1. LoadOK(loads[i], page.shown, page.overwritten, page.polling) /\ loads[i] \in Load
      BY <2>1 DEF PageInv, LoadsInv
    <3>2. page.run = Opened
      BY <1>3, <2>1 DEF PageInv, ShownInv
    <3>3. loads[i].status \in Seen
      BY <3>1 DEF Load
    <3>4. Ahead(loads[i].status, now) => Ahead(loads[i].status, then)
      BY <1>1, <3>3, AheadAgain
    <3> QED  BY <1>1, <1>2, <1>4, <3>1, <3>2, <3>4 DEF LoadOK, now, then, Whole
  <2> QED  BY <2>1 DEF PageInv, LoadsInv, InOrder
<1>9. PageForward
  BY <1>3, AheadAgain DEF PageForward
<1> QED  BY <1>7, <1>8, <1>9 DEF PageInv

LEMMA LoadsKept ==
  ASSUME UNCHANGED runVars,
         loads' \in Seq(Load), Len(loads') <= MaxInFlight, InOrder(loads'),
         \A i \in DOMAIN loads' :
           LoadOK(loads'[i], page'.shown, page'.overwritten, page'.polling)
  PROVE  LoadsInv(loads)'
BY DEF LoadsInv, InOrder, LoadOK, Whole, runVars

(* The page shows what it did.                                             *)
LEMMA PageUnchanged ==
  ASSUME PageInv, UNCHANGED runVars, page' = page, page.run = Opened
  PROVE  ShownInv' /\ PageForward
<1>1. request' = request /\ status' = status
  BY DEF runVars
<1>2. Opened # None
  BY WatchersAssumption, NamesAssumption
<1>3. ShowsTheRun'
  BY <1>1 DEF PageInv, ShownInv, ShowsTheRun, StoppedPageIsFinal, BadgesMatch,
              UnlistableIsNotShown, Listable
<1>4. page.shown \in Seen
  BY DEF PageInv, ShownInv, PageType
<1> QED  BY <1>1, <1>2, <1>3, <1>4, AheadAgain DEF PageInv, ShownInv, PageForward

(* A load is shown: those left behind are stale, the later ones are ahead. *)
LEMMA ShowLoadNext ==
  ASSUME RunsInv, PageInv, UNCHANGED runVars, NEW k \in DOMAIN loads, ShowLoad(k)
  PROVE  PageInv' /\ PageForward
<1> DEFINE l == loads[k]
           now == status[Opened]
           marked == [i \in DOMAIN loads |->
                        [loads[i] EXCEPT !.stale = @ \/ (i < k /\ loads[i].status # None)]]
<1>1. /\ l.status # None /\ l.badges # None
      /\ page' = [page EXCEPT !.shown = l.status, !.badges = l.badges,
                              !.status_first = l.status_first, !.overwritten = l.stale,
                              !.polling = @ /\ l.status \notin Terminal]
      /\ loads' = RemoveAt(marked, k)
      /\ Listable(page.run)
  BY DEF ShowLoad, Answered, Shown, SetPage, LeftBehind
<1>2. /\ status' = status /\ request' = request
      /\ Opened \in Run /\ now \in Seen /\ Opened # None
  BY WatchersAssumption, NamesAssumption DEF runVars, RunsInv, Seen
<1>3. /\ loads \in Seq(Load) /\ Len(loads) <= MaxInFlight /\ InOrder(loads)
      /\ \A i \in DOMAIN loads : LoadOK(loads[i], page.shown, page.overwritten, page.polling)
  BY DEF PageInv, LoadsInv
<1>4. l \in Load /\ LoadOK(l, page.shown, page.overwritten, page.polling)
  BY <1>3
<1>5. page.run = Opened /\ page \in PageType
  BY DEF PageInv, ShownInv, PageType
<1>6. /\ page' \in PageType
      /\ page'.run = Opened /\ page'.shown = l.status /\ page'.badges = l.badges
      /\ page'.status_first = l.status_first /\ page'.overwritten = l.stale
      /\ page'.polling <=> (page.polling /\ l.status \notin Terminal)
  <2> HIDE DEF l
  <2> QED  BY <1>1, <1>4, <1>5 DEF PageType, Load
<1>7. Ahead(l.status, now) /\ l.status \in Seen
  BY <1>1, <1>4 DEF LoadOK, Load
<1>8. ~page'.polling => now \in Terminal
  <2>1. l.status \in Terminal => now = l.status
    BY <1>2, <1>7, AheadAgain
  <2> QED  BY <1>5, <1>6, <2>1 DEF PageInv, ShownInv
<1>9. StoppedPageIsFinal'
  <2>1. l.status \in Terminal => now = l.status
    BY <1>2, <1>7, AheadAgain
  <2>2. ~page.polling /\ ~l.stale => l.status = now
    BY <1>1, <1>4 DEF LoadOK
  <2> QED  BY <1>2, <1>6, <2>1, <2>2 DEF StoppedPageIsFinal
<1>10. BadgesMatch'
  <2>1. l.status = "completed" /\ l.status_first => Whole(Opened, l.badges)
    BY <1>1, <1>4 DEF LoadOK
  <2> HIDE DEF l
  <2> QED  BY <1>2, <1>6, <2>1 DEF BadgesMatch, Whole, Settles
<1>11. ShownInv'
  <2>1. UnlistableIsNotShown'
    BY <1>1, <1>2, <1>5, <1>6 DEF UnlistableIsNotShown, Listable
  <2> QED  BY <1>2, <1>5, <1>6, <1>7, <1>8, <1>9, <1>10, <2>1 DEF ShownInv, ShowsTheRun
<1>12. /\ marked \in Seq(Load) /\ Len(marked) = Len(loads) /\ DOMAIN marked = DOMAIN loads
       /\ \A i \in DOMAIN loads :
            /\ marked[i].status = loads[i].status /\ marked[i].badges = loads[i].badges
            /\ marked[i].status_first = loads[i].status_first
            /\ marked[i].stale <=> loads[i].stale \/ (i < k /\ loads[i].status # None)
  <2>1. \A i \in DOMAIN loads : loads[i] \in Load
    BY <1>3
  <2>2. \A i \in DOMAIN loads :
          /\ marked[i] \in Load
          /\ marked[i].status = loads[i].status /\ marked[i].badges = loads[i].badges
          /\ marked[i].status_first = loads[i].status_first
          /\ marked[i].stale <=> loads[i].stale \/ (i < k /\ loads[i].status # None)
    BY <2>1 DEF Load
  <2>3. DOMAIN loads = 1 .. Len(loads) /\ Len(loads) \in Nat /\ DOMAIN marked = 1 .. Len(loads)
    BY <1>3
  <2>4. marked = [i \in 1 .. Len(loads) |-> marked[i]]
    BY <2>3
  <2> HIDE DEF marked
  <2>5. marked \in [1 .. Len(loads) -> Load]
    BY <2>2, <2>3, <2>4
  <2>6. marked \in Seq(Load) /\ Len(marked) = Len(loads)
    BY <2>3, <2>5
  <2> QED  BY <2>2, <2>3, <2>6
<1> HIDE DEF marked
<1>13. InOrder(marked)
  BY <1>3, <1>12, LoadsChanged
<1>14. /\ loads' \in Seq(Load) /\ Len(loads') = Len(loads) - 1 /\ InOrder(loads')
       /\ \A i \in DOMAIN loads' : \E j \in DOMAIN marked \ {k} : loads'[i] = marked[j]
  <2>1. k \in DOMAIN marked /\ marked \in Seq(Load) /\ Len(marked) = Len(loads)
    BY <1>12
  <2>2. /\ RemoveAt(marked, k) \in Seq(Load)
        /\ Len(RemoveAt(marked, k)) = Len(marked) - 1
        /\ InOrder(RemoveAt(marked, k))
        /\ \A i \in DOMAIN RemoveAt(marked, k) :
              \E j \in DOMAIN marked \ {k} : RemoveAt(marked, k)[i] = marked[j]
    BY <1>13, <2>1, LoadsRemoved
  <2>3. loads' = RemoveAt(marked, k)
    BY <1>1
  <2> QED  BY <2>1, <2>2, <2>3
<1>15. ASSUME NEW j \in DOMAIN loads \ {k}
       PROVE  LoadOK(marked[j], page'.shown, page'.overwritten, page'.polling)
  <2> DEFINE m == loads[j]
  <2>1. m \in Load /\ LoadOK(m, page.shown, page.overwritten, page.polling)
    BY <1>3
  <2>2. /\ marked[j].status = m.status /\ marked[j].badges = m.badges
        /\ marked[j].status_first = m.status_first
        /\ marked[j].stale <=> m.stale \/ (j < k /\ m.status # None)
    BY <1>12
  <2>3. SUFFICES ASSUME m.status # None
                 PROVE  LoadOK(marked[j], page'.shown, page'.overwritten, page'.polling)
    BY <2>2 DEF LoadOK
  <2>4. /\ m.status \in Seen /\ Ahead(m.status, now)
        /\ m.status = "completed" /\ m.status_first /\ m.badges # None => Whole(Opened, m.badges)
    BY <2>1, <2>3 DEF LoadOK, Load
  <2>5. ~marked[j].stale => ~m.stale /\ Ahead(l.status, m.status)
    <3>1. j < k \/ k < j
      BY <1>3
    <3> QED  BY <1>1, <1>3, <2>2, <2>3, <3>1 DEF InOrder
  <2>6. ~marked[j].stale /\ ~page'.polling => m.status = now
    <3>1. CASE ~page.polling
      BY <2>1, <2>3, <2>5, <3>1 DEF LoadOK
    <3>2. CASE l.status \in Terminal
      BY <1>2, <1>7, <2>4, <2>5, <3>2, AheadAgain
    <3> QED  BY <1>6, <3>1, <3>2
  <2> HIDE DEF l, m
  <2> QED  BY <1>6, <2>2, <2>4, <2>5, <2>6 DEF LoadOK
<1>16. LoadsInv(loads)'
  <2>1. \A i \in DOMAIN loads' :
          LoadOK(loads'[i], page'.shown, page'.overwritten, page'.polling)
    BY <1>12, <1>14, <1>15
  <2>2. Len(loads') <= MaxInFlight
    BY <1>3, <1>14, InFlightBound
  <2> QED  BY <1>14, <2>1, <2>2, LoadsKept
<1>17. PageForward
  <2>1. ~page.overwritten /\ ~l.stale => Ahead(page.shown, l.status)
    BY <1>1, <1>4 DEF LoadOK
  <2> QED  BY <1>6, <2>1 DEF PageForward
<1> QED  BY <1>11, <1>16, <1>17 DEF PageInv

(* A load reads the run, and is the last to have done so.                  *)
LEMMA LoadRunNext ==
  ASSUME RunsInv, PageInv, UNCHANGED runVars, NEW k \in DOMAIN loads, LoadRun(k)
  PROVE  PageInv' /\ PageForward
<1> DEFINE now == status[Opened]
           l == loads[k]
           m == [l EXCEPT !.status = now, !.status_first = (l.badges = None)]
           rest == RemoveAt(loads, k)
<1>1. /\ page.run = Opened /\ page \in PageType
      /\ loads \in Seq(Load) /\ Len(loads) <= MaxInFlight /\ InOrder(loads)
      /\ \A i \in DOMAIN loads : LoadOK(loads[i], page.shown, page.overwritten, page.polling)
  BY DEF PageInv, ShownInv, LoadsInv, PageType
<1>2. page' = page /\ loads' = Append(rest, m) /\ l.status = None
  BY <1>1 DEF LoadRun, SetPage
<1>3. status' = status /\ Opened \in Run /\ now \in Statuses
  BY WatchersAssumption DEF runVars, RunsInv
<1>4. l \in Load /\ now \in Seen
  BY <1>1, <1>3 DEF Seen
<1>5. /\ m \in Load /\ m.status = now /\ m.badges = l.badges /\ m.stale = l.stale
      /\ m.status_first => l.badges = None
  <2> HIDE DEF l, now
  <2> QED  BY <1>4 DEF Load
<1> HIDE DEF m, l, rest
<1>6. /\ rest \in Seq(Load) /\ Len(rest) = Len(loads) - 1 /\ InOrder(rest)
      /\ \A i \in DOMAIN rest : \E j \in DOMAIN loads \ {k} : rest[i] = loads[j]
  BY <1>1, LoadsRemoved DEF rest
<1>7. \A i \in DOMAIN rest :
        /\ LoadOK(rest[i], page.shown, page.overwritten, page.polling)
        /\ rest[i].status # None => Ahead(rest[i].status, now)
  BY <1>1, <1>6 DEF LoadOK
<1>8. LoadOK(m, page.shown, page.overwritten, page.polling)
  <2>1. Ahead(now, now) /\ Ahead(page.shown, now)
    BY <1>1, <1>4, AheadAgain DEF PageInv, ShownInv
  <2> QED  BY <1>5, <2>1 DEF LoadOK
<1>9. /\ loads' \in Seq(Load) /\ Len(loads') = Len(rest) + 1 /\ InOrder(loads')
      /\ \A i \in DOMAIN loads' : loads'[i] = m \/ \E j \in DOMAIN rest : loads'[i] = rest[j]
  <2>1. /\ Append(rest, m) \in Seq(Load)
        /\ Len(Append(rest, m)) = Len(rest) + 1
        /\ InOrder(Append(rest, m))
        /\ \A i \in DOMAIN Append(rest, m) :
              Append(rest, m)[i] = m \/ \E j \in DOMAIN rest : Append(rest, m)[i] = rest[j]
    BY <1>5, <1>6, <1>7, LoadsAppended
  <2> QED  BY <1>2, <2>1
<1>10. \A i \in DOMAIN loads' : LoadOK(loads'[i], page'.shown, page'.overwritten, page'.polling)
  BY <1>2, <1>7, <1>8, <1>9
<1>11. Len(loads') <= MaxInFlight
  BY <1>1, <1>6, <1>9, InFlightBound
<1>12. LoadsInv(loads)'
  BY <1>9, <1>10, <1>11, LoadsKept
<1> QED  BY <1>1, <1>2, <1>12, PageUnchanged DEF PageInv

(* A load reads the stage runs.                                            *)
LEMMA LoadStageRunsNext ==
  ASSUME RunsInv, PageInv, UNCHANGED runVars, NEW k \in DOMAIN loads, LoadStageRuns(k)
  PROVE  PageInv' /\ PageForward
<1> DEFINE l == loads[k]
           read == progress[Opened]
           m == [l EXCEPT !.badges = read]
<1>1. /\ page.run = Opened /\ page \in PageType
      /\ loads \in Seq(Load) /\ Len(loads) <= MaxInFlight /\ InOrder(loads)
      /\ \A i \in DOMAIN loads : LoadOK(loads[i], page.shown, page.overwritten, page.polling)
  BY DEF PageInv, ShownInv, LoadsInv, PageType
<1>2. page' = page /\ loads' = [loads EXCEPT ![k] = m]
  BY <1>1 DEF LoadStageRuns, SetPage
<1>3. /\ Opened \in Run /\ read \in Badges /\ status[Opened] \in Seen
      /\ status[Opened] = "completed" => Whole(Opened, read)
  BY WatchersAssumption DEF RunsInv, Badges, Seen
<1>4. l \in Load
  BY <1>1
<1>5. /\ m \in Load /\ m.status = l.status /\ m.badges = read
      /\ m.status_first = l.status_first /\ m.stale = l.stale
  <2> HIDE DEF l, read
  <2> QED  BY <1>3, <1>4 DEF Load
<1>6. LoadOK(m, page.shown, page.overwritten, page.polling)
  <2>1. LoadOK(l, page.shown, page.overwritten, page.polling)
    BY <1>1
  <2>2. l.status = "completed" /\ l.status # None => status[Opened] = "completed"
    <3>1. "completed" \in Terminal /\ "completed" \in Seen
      BY DEF Terminal, Seen, Statuses
    <3> QED  BY <1>3, <2>1, <3>1, AheadAgain DEF LoadOK
  <2> HIDE DEF l, m, read
  <2> QED  BY <1>3, <1>5, <2>1, <2>2 DEF LoadOK
<1> HIDE DEF m
<1>7. /\ loads' \in Seq(Load) /\ Len(loads') = Len(loads) /\ DOMAIN loads' = DOMAIN loads
      /\ \A i \in DOMAIN loads : loads'[i] = IF i = k THEN m ELSE loads[i]
  BY <1>1, <1>2, <1>5
<1>8. InOrder(loads')
  <2>1. \A i \in DOMAIN loads : loads'[i].status = loads[i].status
    BY <1>5, <1>7
  <2> QED  BY <1>1, <1>7, <2>1, LoadsChanged
<1>9. \A i \in DOMAIN loads' : LoadOK(loads'[i], page'.shown, page'.overwritten, page'.polling)
  BY <1>1, <1>2, <1>6, <1>7
<1>10. LoadsInv(loads)'
  BY <1>1, <1>7, <1>8, <1>9, LoadsKept
<1> QED  BY <1>1, <1>2, <1>10, PageUnchanged DEF PageInv

(* A load begins: it has read nothing.                                     *)
LEMMA NewLoadIsNew ==
  /\ NewLoad \in Load /\ NewLoad.status = None
  /\ \A sh, ov, polls : LoadOK(NewLoad, sh, ov, polls)
BY DEF NewLoad, Load, Seen, LoadOK

LEMMA StartLoadNext ==
  ASSUME RunsInv, PageInv, UNCHANGED runVars, StartLoad
  PROVE  PageInv' /\ PageForward
<1>1. /\ page.run = Opened
      /\ loads \in Seq(Load) /\ Len(loads) < MaxInFlight /\ InOrder(loads)
      /\ \A i \in DOMAIN loads : LoadOK(loads[i], page.shown, page.overwritten, page.polling)
      /\ page' = page /\ loads' = <<NewLoad>> \o loads
  BY DEF PageInv, ShownInv, LoadsInv, PageType, StartLoad, SetPage
<1>2. /\ <<NewLoad>> \o loads \in Seq(Load)
      /\ Len(<<NewLoad>> \o loads) = Len(loads) + 1
      /\ InOrder(<<NewLoad>> \o loads)
      /\ \A i \in DOMAIN (<<NewLoad>> \o loads) :
           \/ (<<NewLoad>> \o loads)[i] = NewLoad
           \/ \E j \in DOMAIN loads : (<<NewLoad>> \o loads)[i] = loads[j]
  BY <1>1, NewLoadIsNew, LoadsPrepended
<1>3. \A i \in DOMAIN loads' : LoadOK(loads'[i], page'.shown, page'.overwritten, page'.polling)
  BY <1>1, <1>2, NewLoadIsNew
<1>4. Len(loads') <= MaxInFlight
  BY <1>1, <1>2, InFlightBound
<1>5. LoadsInv(loads)'
  BY <1>1, <1>2, <1>3, <1>4, LoadsKept
<1> QED  BY <1>1, <1>5, PageUnchanged DEF PageInv

LEMMA OpenPageNext ==
  ASSUME RunsInv, PageInv, UNCHANGED runVars, OpenPage
  PROVE  PageInv' /\ PageForward
<1>1. /\ page \in PageType /\ page.shown = None
      /\ page' = [page EXCEPT !.run = Opened, !.polling = TRUE] /\ loads' = <<NewLoad>>
  BY DEF PageInv, ShownInv, OpenPage, SetPage
<1>2. /\ page' \in PageType /\ page'.run = Opened /\ page'.polling = TRUE /\ page'.shown = None
  BY <1>1 DEF PageType
<1>3. /\ status' = status /\ status[Opened] \in Seen
      /\ None # Opened /\ None # "completed" /\ None \in Seen
  BY WatchersAssumption, NamesAssumption DEF runVars, RunsInv, Terminal, Seen
<1>4. Ahead(None, status[Opened]) /\ Ahead(None, None)
  BY <1>3, AheadAgain
<1>5. ShownInv' /\ PageForward
  BY <1>1, <1>2, <1>3, <1>4
     DEF ShownInv, ShowsTheRun, StoppedPageIsFinal, BadgesMatch, UnlistableIsNotShown,
         PageForward
<1>6. /\ <<NewLoad>> \in Seq(Load) /\ Len(<<NewLoad>>) = 1 /\ DOMAIN <<NewLoad>> = {1}
      /\ <<NewLoad>>[1] = NewLoad
  BY NewLoadIsNew
<1>7. InOrder(<<NewLoad>>)
  BY <1>6 DEF InOrder
<1>8. \A i \in DOMAIN loads' : LoadOK(loads'[i], page'.shown, page'.overwritten, page'.polling)
  <2> SUFFICES ASSUME NEW i \in DOMAIN loads'
               PROVE  LoadOK(loads'[i], page'.shown, page'.overwritten, page'.polling)
    OBVIOUS
  <2>1. loads' = <<NewLoad>>
    BY <1>1
  <2>2. i = 1
    BY <1>6, <2>1
  <2>3. loads'[i] = NewLoad
    BY <1>6, <2>1, <2>2
  <2> QED  BY <2>3, NewLoadIsNew
<1>9. LoadsInv(loads)'
  BY <1>1, <1>6, <1>7, <1>8, InFlightBound, LoadsKept
<1> QED  BY <1>5, <1>9 DEF PageInv

LEMMA LoadFailsNext ==
  ASSUME RunsInv, PageInv, UNCHANGED runVars, NEW k \in DOMAIN loads, LoadFails(k)
  PROVE  PageInv' /\ PageForward
<1>1. /\ page.run = Opened /\ page \in PageType
      /\ loads \in Seq(Load) /\ Len(loads) <= MaxInFlight /\ InOrder(loads)
      /\ \A i \in DOMAIN loads : LoadOK(loads[i], page.shown, page.overwritten, page.polling)
      /\ page' = [page EXCEPT !.error = TRUE] /\ loads' = RemoveAt(loads, k)
  <2>1. loads # <<>>
    OBVIOUS
  <2>2. page.run = Opened /\ page \in PageType
    BY <2>1 DEF PageInv, ShownInv, PageType
  <2>3. page' = [page EXCEPT !.error = TRUE] /\ loads' = RemoveAt(loads, k)
    BY DEF LoadFails, SetPage
  <2> QED  BY <2>2, <2>3 DEF PageInv, LoadsInv
<1>2. /\ page' \in PageType /\ page'.run = page.run /\ page'.polling = page.polling
      /\ page'.shown = page.shown /\ page'.overwritten = page.overwritten
      /\ page'.badges = page.badges /\ page'.status_first = page.status_first
  BY <1>1 DEF PageType
<1>3. request' = request /\ status' = status /\ Opened # None /\ page.shown \in Seen
  BY <1>1, WatchersAssumption, NamesAssumption DEF runVars, PageType
<1>4. ShownInv' /\ PageForward
  BY <1>1, <1>2, <1>3, AheadAgain
     DEF PageInv, ShownInv, ShowsTheRun, StoppedPageIsFinal, BadgesMatch,
         UnlistableIsNotShown, Listable, PageForward
<1>5. /\ RemoveAt(loads, k) \in Seq(Load)
      /\ Len(RemoveAt(loads, k)) = Len(loads) - 1
      /\ InOrder(RemoveAt(loads, k))
      /\ \A i \in DOMAIN RemoveAt(loads, k) :
           \E j \in DOMAIN loads \ {k} : RemoveAt(loads, k)[i] = loads[j]
  BY <1>1, LoadsRemoved
<1>6. \A i \in DOMAIN loads' : LoadOK(loads'[i], page'.shown, page'.overwritten, page'.polling)
  BY <1>1, <1>2, <1>5
<1>7. Len(loads') <= MaxInFlight
  BY <1>1, <1>5, InFlightBound
<1>8. LoadsInv(loads)'
  BY <1>1, <1>5, <1>6, <1>7, LoadsKept
<1> QED  BY <1>4, <1>8 DEF PageInv

LEMMA PageNext ==
  ASSUME RunsInv, RunsInv', PageInv, Forward, [Next]_vars
  PROVE  PageInv' /\ PageForward
<1>1. CASE UNCHANGED <<page, loads>>
  BY <1>1, PageStays
<1>2. CASE PageStep
  BY <1>2, OpenPageNext, StartLoadNext, LoadRunNext, LoadStageRunsNext, ShowLoadNext,
     LoadFailsNext DEF PageStep, Page, ListStagesFails
<1> QED
  BY <1>1, <1>2, Steps DEF vars, clientVars, Intake, CliStep, DashStep

-----------------------------------------------------------------------------
(* The theorems.                                                           *)

Inv == RunsInv /\ ScheduleInv /\ CliInv /\ DashInv /\ PageInv

LEMMA InvInit == Init => Inv
BY RunsInit, ScheduleInit, CliInit, DashInit, PageInit DEF Inv

LEMMA InvNext == Inv /\ [Next]_vars => Inv' /\ CliForward /\ PageForward
<1> SUFFICES ASSUME Inv, [Next]_vars PROVE Inv' /\ CliForward /\ PageForward
  OBVIOUS
<1>1. RunsInv' /\ Forward
  BY RunsNext DEF Inv
<1>2. ScheduleInv' /\ ScheduleForward
  BY ScheduleNext DEF Inv
<1>3. CliInv' /\ CliForward
  BY <1>1, <1>2, CliNext DEF Inv
<1>4. DashInv'
  BY <1>2, DashNext DEF Inv
<1>5. PageInv' /\ PageForward
  BY <1>1, PageNext DEF Inv
<1> QED  BY <1>1, <1>2, <1>3, <1>4, <1>5 DEF Inv

(* The inductive invariant of the runs, the intake of the schedule and     *)
(* what the CLI, the run page and the dashboard have been answered.        *)
THEOREM WatchersInvariant == Spec => []Inv
<1>1. Inv /\ [Next]_vars => Inv'
  BY InvNext
<1> QED  BY <1>1, InvInit, PTL DEF Spec

(* Every variable has its type, and no more loads of the run page overlap  *)
(* than MaxInFlight.                                                       *)
THEOREM TypesHold == Spec => []TypeOK
<1>1. ASSUME Inv PROVE TypeOK
  <2>1. ScheduleInv /\ cli \in CliType /\ page \in PageType /\ Len(loads) <= MaxInFlight
    BY <1>1 DEF Inv, CliInv, PageInv, ShownInv, LoadsInv
  <2>2. page.run \in Run \cup {None} /\ page.error \in BOOLEAN /\ page.shown \in Seen
    BY <2>1, WatchersAssumption DEF PageType
  <2> QED  BY <2>1, <2>2 DEF ScheduleInv, Schedule, CliType, Seen, TypeOK
<1> QED  BY <1>1, WatchersInvariant, PTL

(* `stagerunner run`: what it prints and returns is the end of the         *)
(* schedule's own run.  Or it is told of no run but a cancel, and then     *)
(* what runs there are were created by dropped ticks or, if a tick had     *)
(* selected the schedule before its cancel was written, by that tick.      *)
THEOREM CliTellsTheEnd == Spec => []CliIsToldTheEnd
<1>1. Inv => CliIsToldTheEnd
  BY CliIsTold DEF Inv
<1> QED  BY <1>1, WatchersInvariant, PTL

(* RunDetail, in whatever order its requests and loads are answered: a     *)
(* page that no load has failed for shows the end when it stops, and the   *)
(* stages that a completed run rests on.  With a workflow that cannot be   *)
(* listed it never shows the run, and never stops.                         *)
THEOREM PageTellsTheTruth == Spec => []PageIsTrue
<1>1. Inv => PageIsTrue
  BY DEF Inv, PageInv, ShownInv, ShowsTheRun, PageIsTrue
<1> QED  BY <1>1, WatchersInvariant, PTL

(* Dashboard: a request is in one of the two lists.                        *)
THEOREM DashboardMissesNone == Spec => []DashboardShowsRequest
<1>1. Inv => DashboardShowsRequest
  BY DEF Inv, DashInv
<1> QED  BY <1>1, WatchersInvariant, PTL

(* The CLI and the run page never show a run going back.                   *)
THEOREM NothingGoesBack == Spec => ShownForward
<1>1. Inv /\ [Next]_vars =>
        [/\ Rank(cli.shown) <= Rank(cli'.shown)
         /\ Rank(cli.shown) = 3 => cli'.shown = cli.shown
         /\ ~page'.overwritten /\ ~page.overwritten /\ ~page'.error =>
              /\ Rank(page.shown) <= Rank(page'.shown)
              /\ Rank(page.shown) = 3 => page'.shown = page.shown]_vars
  BY InvNext DEF CliForward, PageForward, Ahead
<1> QED  BY <1>1, WatchersInvariant, PTL DEF Spec, ShownForward
=============================================================================
