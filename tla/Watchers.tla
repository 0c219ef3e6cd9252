------------------------------- MODULE Watchers -------------------------------
(***************************************************************************)
(* What clients are told of a request and of its run while the scheduler   *)
(* works on them: `stagerunner run` of the CLI, which polls the schedule   *)
(* until its run has ended, and the pages RunDetail and Dashboard of the   *)
(* web UI, which poll the tables through workflow_service.                 *)
(*                                                                         *)
(* A run moves as RunLifecycle says.  A GET is one SELECT, except that of  *)
(* a schedule's status, which is two.  The requests of one load of a page  *)
(* are answered in any order, and so are the loads.                        *)
(***************************************************************************)
EXTENDS Workflow, FiniteSets, SequencesExt

CONSTANTS
  Watcher,    \* which of "cli", "run page" and "dashboard" watch
  Opened,     \* the run whose page is opened
  MaxRuns,    \* bound: runs that are created while each of them watches
  MaxInFlight \* bound: loads of the run page that overlap

ASSUME WatchersAssumption ==
  /\ Watcher \subseteq {"cli", "run page", "dashboard"}
  /\ Opened \in Run
  /\ None \notin Active \cup Terminal
  /\ MaxRuns \in [Watcher -> Nat]
  /\ MaxInFlight \in Nat \ {0}

VARIABLES
  request, status, asked, progress, \* the runs, as in RunLifecycle
  minted,     \* the runs that have a row
  schedule,   \* the row of schedules that is watched
  selected,   \* the scheduler's tick has the schedule in its snapshot
  created,    \* local of _intake: the run it has created, and not marked
  cancelling, \* the schedule's cancel passed its check and is not written yet
  orphans,    \* history: runs the schedule is not marked with
  crossed,    \* history: the cancel was written after a tick had selected it
  watcher,    \* who watches
  cli,        \* the CLI process
  page,       \* what the run page shows
  loads,      \* its loads in flight, in the order in which they read the run
  dash        \* the dashboard's load, and what it shows

runVars    == <<request, status, asked, progress>>
intakeVars == <<minted, schedule, selected, created, cancelling, orphans, crossed>>
clientVars == <<watcher, cli, page, loads, dash>>
vars == <<runVars, intakeVars, clientVars>>

Life == INSTANCE RunLifecycle

Statuses == Active \cup Terminal

(* The schedule's runs are requested as it is, and the page is opened on a *)
(* run that exists.                                                        *)
Init ==
  /\ Life!Init
  /\ \E q \in Request : request = [r \in Run |-> q]
  /\ watcher \in Watcher
  /\ \/ /\ watcher # "run page"
        /\ minted = {}
        /\ schedule = [dispatched |-> FALSE, run_id |-> None, cancel_requested |-> FALSE]
     \/ /\ watcher = "run page"
        /\ minted = {Opened}
        /\ schedule = [dispatched |-> TRUE, run_id |-> Opened, cancel_requested |-> FALSE]
  /\ selected = FALSE /\ created = None /\ cancelling = FALSE
  /\ orphans = {} /\ crossed = FALSE
  /\ cli = [at |-> "schedule", run_id |-> None, shown |-> None, code |-> None]
  /\ page = [run |-> None, polling |-> FALSE, shown |-> None, badges |-> None,
             status_first |-> FALSE, overwritten |-> FALSE, error |-> FALSE]
  /\ loads = <<>>
  /\ dash = [runs |-> None, pending |-> None, pending_first |-> FALSE, shown |-> None]

-----------------------------------------------------------------------------
(* The scheduler's intake of the schedule, and the runs.                   *)

(* Mutants of SelectPending: a dispatched one is drained; the schedule is  *)
(* marked with the id of a run that is still to be created.                *)
SelectDispatched ==
  /\ ~selected /\ ~schedule.cancel_requested
  /\ selected' = TRUE
  /\ UNCHANGED <<runVars, minted, schedule, created, cancelling, orphans, crossed, clientVars>>

SelectAndMark ==
  /\ ~selected /\ ~schedule.dispatched /\ ~schedule.cancel_requested
  /\ selected' = TRUE
  /\ \E r \in Run \ minted :
       schedule' = [schedule EXCEPT !.dispatched = TRUE, !.run_id = r]
  /\ UNCHANGED <<runVars, minted, created, cancelling, orphans, crossed, clientVars>>

SelectPending ==
  /\ ~selected /\ ~schedule.dispatched /\ ~schedule.cancel_requested
  /\ selected' = TRUE
  /\ UNCHANGED <<runVars, minted, schedule, created, cancelling, orphans, crossed, clientVars>>

CreateWorkflowRun(r) ==
  /\ selected /\ created = None
  /\ Cardinality(minted) < MaxRuns[watcher]
  /\ r \in Run \ minted
  /\ minted' = minted \cup {r}
  /\ created' = r
  /\ UNCHANGED <<runVars, schedule, selected, cancelling, orphans, crossed, clientVars>>

MarkDispatched ==
  /\ created # None
  /\ schedule' = [schedule EXCEPT !.dispatched = TRUE, !.run_id = created]
  /\ selected' = FALSE /\ created' = None
  /\ UNCHANGED <<runVars, minted, cancelling, orphans, crossed, clientVars>>

(* A statement raises, or the scheduler dies: the rest of the tick is      *)
(* dropped, and a run it has just created stays.                           *)
DropTick ==
  /\ selected
  /\ selected' = FALSE /\ created' = None
  /\ orphans' = IF created = None THEN orphans ELSE orphans \cup {created}
  /\ UNCHANGED <<runVars, minted, schedule, cancelling, crossed, clientVars>>

(* request_schedule_cancel looks at the row, and then updates it.          *)
RequestScheduleCancel ==
  /\ ~schedule.dispatched
  /\ cancelling' = TRUE
  /\ UNCHANGED <<runVars, minted, schedule, selected, created, orphans, crossed, clientVars>>

WriteScheduleCancel ==
  /\ cancelling
  /\ cancelling' = FALSE
  /\ schedule' = [schedule EXCEPT !.cancel_requested = TRUE]
  /\ crossed' = (crossed \/ selected \/ schedule.dispatched)
  /\ UNCHANGED <<runVars, minted, selected, created, orphans, clientVars>>

(* The rest of the scheduler, the workers and the clients who cancel runs. *)
RunMoves(r) ==
  /\ r \in minted
  /\ \/ Life!Start(r) \/ Life!Complete(r) \/ Life!Fail(r) \/ Life!Cancel(r) \/ Life!Ask(r)
     \/ \E s \in Stage : Life!Dispatch(r, s) \/ Life!Finish(r, s) \/ Life!Replace(r, s)
  /\ UNCHANGED <<intakeVars, clientVars>>

-----------------------------------------------------------------------------
(* `stagerunner run`: the loop of _poll_schedule.                          *)

SetCli(f) ==
  /\ watcher = "cli"
  /\ cli' = f
  /\ UNCHANGED <<runVars, intakeVars, watcher, page, loads, dash>>

(* Mutants of Waiting: a run that is running, or was cancelled.            *)
WaitingToStart == {"requested"}
WaitingOrCancelled == {"requested", "running", "cancelled"}

(* The statuses the loop goes on for.                                      *)
Waiting == {"requested", "running"}

(* Mutant of ExitCode: argparse's code of a usage error.                   *)
ExitUsage(st) == IF st = "failed" THEN 2 ELSE 0

ExitCode(st) == IF st = "failed" THEN 1 ELSE 0

(* The status is answered: the loop goes on, or the process exits.         *)
Told(st, r) ==
  IF st \in Waiting
  THEN [cli EXCEPT !.at = "schedule", !.run_id = None, !.shown = st]
  ELSE [at |-> "exited", run_id |-> r, shown |-> st, code |-> ExitCode(st)]

(* The two SELECTs of get_schedule_status.                                 *)
ReadSchedule ==
  /\ cli.at = "schedule"
  /\ SetCli(IF schedule.dispatched
            THEN [cli EXCEPT !.at = "run", !.run_id = schedule.run_id]
            ELSE Told(IF schedule.cancel_requested THEN "cancelled" ELSE "requested", None))

ReadRun ==
  /\ cli.at = "run"
  /\ SetCli(Told(status[cli.run_id], cli.run_id))

(* A GET fails: the exception ends the process.                            *)
PollFails ==
  /\ cli.at \in {"schedule", "run"}
  /\ SetCli([cli EXCEPT !.at = "crashed", !.code = 1])

Cli == ReadSchedule \/ ReadRun

-----------------------------------------------------------------------------
(* RunDetail.                                                              *)

SetPage(f, g) ==
  /\ watcher = "run page"
  /\ page' = f
  /\ loads' = g
  /\ UNCHANGED <<runVars, intakeVars, watcher, cli, dash>>

(* getRun, listStageRuns and listStages are sent together.  The answer of  *)
(* listStages never changes, so only that there is one matters.            *)
NewLoad == [status |-> None, badges |-> None, status_first |-> FALSE, stale |-> FALSE]

(* list_stages imports the workflow's module and orders its stages.        *)
Listable(r) == request[r].loads /\ Acyclic

(* Every request of the load has been answered.                            *)
Answered(l) == l.status # None /\ l.badges # None /\ Listable(page.run)

(* The first load, and then one at every turn of the interval.             *)
OpenPage ==
  /\ page.run = None
  /\ SetPage([page EXCEPT !.run = Opened, !.polling = TRUE], <<NewLoad>>)

StartLoad ==
  /\ page.polling
  /\ Len(loads) < MaxInFlight
  /\ SetPage(page, <<NewLoad>> \o loads)

LoadRun(k) ==
  /\ loads[k].status = None
  /\ SetPage(page, Append(RemoveAt(loads, k),
                          [loads[k] EXCEPT !.status = status[page.run],
                                           !.status_first = loads[k].badges = None]))

LoadStageRuns(k) ==
  /\ loads[k].badges = None
  /\ SetPage(page, [loads EXCEPT ![k].badges = progress[page.run]])

(* A request of the load fails, and the load with it: the page shows the   *)
(* error, for good.  The interval goes on.                                 *)
LoadFails(k) == SetPage([page EXCEPT !.error = TRUE], RemoveAt(loads, k))

(* list_stages raises, at every load of the page.                          *)
ListStagesFails(k) == ~Listable(page.run) /\ LoadFails(k)

(* The loads that are left when the k-th is shown: those that read the run *)
(* earlier are stale.                                                      *)
LeftBehind(k) ==
  RemoveAt([i \in DOMAIN loads |->
              [loads[i] EXCEPT !.stale = @ \/ (i < k /\ loads[i].status # None)]], k)

(* The page is set from the load l, and goes on polling if p.              *)
Shown(l, p) ==
  [page EXCEPT !.shown = l.status, !.badges = l.badges, !.status_first = l.status_first,
               !.overwritten = l.stale, !.polling = @ /\ p]

(* Mutants of ShowLoad: the interval is cleared when the run has started;  *)
(* only a completed run ends it.                                           *)
ShowAndStopEarly(k) ==
  /\ Answered(loads[k])
  /\ SetPage(Shown(loads[k], loads[k].status = "requested"), LeftBehind(k))
ShowAndStopCompleted(k) ==
  /\ Answered(loads[k])
  /\ SetPage(Shown(loads[k], loads[k].status # "completed"), LeftBehind(k))

ShowLoad(k) ==
  /\ Answered(loads[k])
  /\ SetPage(Shown(loads[k], loads[k].status \notin Terminal), LeftBehind(k))

Page ==
  \/ OpenPage
  \/ StartLoad
  \/ \E k \in DOMAIN loads :
       LoadRun(k) \/ LoadStageRuns(k) \/ ListStagesFails(k) \/ ShowLoad(k)

-----------------------------------------------------------------------------
(* Dashboard: the runs by status, and the pending schedules.               *)

SetDash(f) ==
  /\ watcher = "dashboard"
  /\ dash' = f
  /\ UNCHANGED <<runVars, intakeVars, watcher, cli, page, loads>>

ListRuns ==
  /\ dash.runs = None
  /\ SetDash([dash EXCEPT !.runs = minted, !.pending_first = dash.pending # None])

ListPending ==
  /\ dash.pending = None
  /\ SetDash([dash EXCEPT !.pending = ~schedule.dispatched /\ ~schedule.cancel_requested])

(* Every list has been answered.  The next load starts at the interval.    *)
ShowDashboard ==
  /\ dash.runs # None /\ dash.pending # None
  /\ SetDash([runs |-> None, pending |-> None, pending_first |-> FALSE,
              shown |-> [runs |-> dash.runs, pending |-> dash.pending,
                         pending_first |-> dash.pending_first]])

Dashboard == ListRuns \/ ListPending \/ ShowDashboard

-----------------------------------------------------------------------------
Next ==
  \/ SelectPending \/ MarkDispatched \/ DropTick
  \/ \E r \in Run : CreateWorkflowRun(r) \/ RunMoves(r)
  \/ RequestScheduleCancel \/ WriteScheduleCancel
  \/ Cli \/ PollFails
  \/ Page \/ \E k \in DOMAIN loads : LoadFails(k)
  \/ Dashboard

Spec == Init /\ [][Next]_vars

(* The CLI's loop and the page's interval go on, and a GET is answered or  *)
(* fails.  Nothing is asked of the run: whether it ends is Progression's.  *)
FairSpec == Spec /\ WF_vars(Cli) /\ WF_vars(Page)

-----------------------------------------------------------------------------
(* Every variable has its type.                                            *)
TypeOK ==
  /\ minted \subseteq Run /\ orphans \subseteq Run
  /\ schedule \in
       [dispatched : BOOLEAN, run_id : Run \cup {None}, cancel_requested : BOOLEAN]
  /\ selected \in BOOLEAN /\ cancelling \in BOOLEAN /\ crossed \in BOOLEAN
  /\ created \in Run \cup {None}
  /\ watcher \in Watcher
  /\ cli \in [at : {"schedule", "run", "exited", "crashed"}, run_id : Run \cup {None},
              shown : Statuses \cup {None}, code : {0, 1, None}]
  /\ page.run \in Run \cup {None} /\ page.error \in BOOLEAN /\ page.shown \in Statuses \cup {None}
  /\ Len(loads) <= MaxInFlight

(* `stagerunner run` ends with the final status of a run that was created  *)
(* for its schedule, and fails exactly if the run did; or it ends without  *)
(* a run, and then the schedule is cancelled.                              *)
ExitIsFinal ==
  cli.at = "exited" =>
    /\ cli.code = 1 <=> cli.shown = "failed"
    /\ IF cli.run_id \in Run
       THEN cli.run_id = schedule.run_id /\ cli.shown = status[cli.run_id]
       ELSE cli.shown = "cancelled" /\ schedule.cancel_requested

(* get_schedule_status, of a cancelled schedule: when the CLI is told that *)
(* it was cancelled, without a run, the schedule has no run and gets none  *)
(* but those of dropped ticks and, if a tick had selected the schedule     *)
(* before the cancel was written, the one run of that tick.                *)
CancelledHasNoOtherRun ==
  cli.at = "exited" /\ cli.run_id = None =>
    minted \ orphans \subseteq (IF crossed THEN {created, schedule.run_id} ELSE {})

(* What the CLI prints, and returns to the shell, is the end.              *)
CliIsToldTheEnd == ExitIsFinal /\ CancelledHasNoOtherRun

Rank(st) == CASE st = None -> 0 [] st = "requested" -> 1 [] st = "running" -> 2 [] OTHER -> 3

(* What a client is shown never goes back, from running to requested, or   *)
(* from an end to anything else: unless a load of the page is shown after  *)
(* one that had read the run later, or the page has come to show an error. *)
ShownForward ==
  [][/\ Rank(cli.shown) <= Rank(cli'.shown)
     /\ Rank(cli.shown) = 3 => cli'.shown = cli.shown
     /\ ~page'.overwritten /\ ~page.overwritten /\ ~page'.error =>
          /\ Rank(page.shown) <= Rank(page'.shown)
          /\ Rank(page.shown) = 3 => page'.shown = page.shown]_vars

(* RunDetail stops polling for good: what it shows then is the end of the  *)
(* run, unless a load that had read it earlier was shown last.             *)
StoppedPageIsFinal ==
  page.run # None /\ ~page.polling /\ ~page.overwritten => page.shown = status[page.run]

(* A page that shows a completed run shows what made it complete, if the   *)
(* run was read before its stage runs.                                     *)
BadgesMatch ==
  page.shown = "completed" /\ page.status_first =>
    LET q == request[page.run]
        settled(s) == page.badges[s] \in {"completed", "replaced"}
    IN
    \/ q.stop_after \in Stage /\ settled(q.stop_after)
    \/ \A s \in Reachable(q) : settled(s) \/ s \in Known(Overrides(q))

(* A run whose workflow cannot be listed is never shown: its page has an   *)
(* error or nothing, and polls for ever, also when the scheduler has       *)
(* marked the run failed for that very reason.                             *)
UnlistableIsNotShown ==
  page.run # None /\ ~Listable(page.run) => page.shown = None /\ page.polling

(* A page that no request has failed for shows one state of the run, and   *)
(* at the end its last one.                                                *)
PageIsTrue == (~page.error => StoppedPageIsFinal /\ BadgesMatch) /\ UnlistableIsNotShown

(* The dashboard shows a request that nobody has cancelled, as a pending   *)
(* schedule or as a run, if it read the schedules before the runs.         *)
DashboardShowsRequest ==
  dash.shown # None =>
    (dash.shown.pending_first =>
       dash.shown.pending \/ dash.shown.runs # {} \/ schedule.cancel_requested)

(* The CLI does not wait for a run that has ended.                         *)
CliStops ==
  watcher = "cli" /\ schedule.dispatched /\ status[schedule.run_id] \in Terminal
    ~> cli.at \in {"exited", "crashed"}

(* Nor does the page, if its workflow can be listed and requests do not go *)
(* on failing for ever; also when it shows an error by then.               *)
PageStops ==
  \/ []<><<\E k \in DOMAIN loads : LoadFails(k)>>_vars
  \/ page.run # None /\ Listable(Opened) /\ status[Opened] \in Terminal ~> ~page.polling
=============================================================================
