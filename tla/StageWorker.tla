------------------------------ MODULE StageWorker ------------------------------
(***************************************************************************)
(* How a stage run is executed: the runner's workers (services/runner),    *)
(* each with its retries, resource_store as they see it over HTTP, the     *)
(* reports they send to workflow_service, and the people who upload and    *)
(* promote versions of the same resources with the CLI or the web UI.      *)
(*                                                                         *)
(* One action is one call of a worker or one answer to it.  A call may go  *)
(* wrong in two ways: it is refused and has no effect, or the worker stops *)
(* waiting for its answer and the server handles it later, if at all.      *)
(***************************************************************************)
EXTENDS Naturals, Sequences, FiniteSets

CONSTANTS
  Worker,     \* runner processes
  StageRun,   \* ids of the stage runs that were dispatched
  Name,       \* resource names, all with a contract
  Stage,      \* the names that are a stage's output
  DependsOn,  \* StageDef.depends_on of each stage
  Retries,    \* StageDef.retries of each stage
  Message,    \* the messages a stage run may have been queued with
  Executor,   \* "in_process" or "docker"
  Preloads,   \* the sets of resources that may have a version at the start
  Edited,     \* the resources people upload to and promote
  None,       \* Python None
  MaxVersion, \* bound: people upload while there are fewer versions than this
  MaxLate,    \* bound: calls whose worker stops waiting for the answer
  Faults      \* the faults that may occur, out of FaultKind

FaultKind == {"death", "refusal", "unloadable"}

(* A dict from resource names to version numbers: 0 is not in the dict.    *)
Versions == [Name -> Nat]
NoVersions == [n \in Name |-> 0]
Known(f) == {n \in Name : f[n] # 0}

(* A queued message.  redis-py repeats a push whose answer is lost, so the *)
(* list may hold more than one copy of it.                                 *)
MessageType ==
  [stage : Stage, input_versions : Versions, promote : BOOLEAN, copies : Nat \ {0}]

ASSUME WorkerAssumption ==
  /\ Stage \subseteq Name /\ Edited \subseteq Name /\ Preloads \subseteq SUBSET Name
  /\ DependsOn \in [Stage -> SUBSET Name]
  /\ Retries \in [Stage -> Nat]
  /\ Message \subseteq MessageType
  /\ Executor \in {"in_process", "docker"}
  /\ None \notin StageRun
  /\ MaxVersion \in Nat /\ MaxLate \in Nat
  /\ Faults \subseteq FaultKind

VARIABLES
  message,  \* what each stage run was queued with
  queue,    \* number of copies of each stage run's message still in the list
  report,   \* the columns of each stage_runs row that the reports write
  log,      \* resource_store: the versions of each resource
  current,  \* resource_store: the current version of each, 0 if none
  work,     \* what each worker is doing
  late,     \* calls whose worker has gone on without the answer
  asks,     \* people's uploads that are still to be promoted
  made,     \* history: the promotions that stage runs made
  dropped,  \* history: messages a worker gave up without a report
  timeouts  \* number of calls that were not waited for, up to MaxLate

vars == <<message, queue, report, log, current, work, late, asks, made, dropped, timeouts>>

Status == {"requested", "running", "completed", "failed"}
Error == {"raised", "unparsed", "contract", "unanswered", "setup"}
Row == [status : Status, output : Nat, attempts : Nat, error : Error \cup {None}]

(* A version: did it meet the contract, is it marked a test, who uploaded  *)
(* it, the versions it was computed from (history) and those recorded.     *)
Version ==
  [ok : BOOLEAN, test : BOOLEAN, by : StageRun \cup {None}, read : Versions, deps : Versions]

(* What `resource upload` uploads.                                         *)
Uploaded(ok, promote) ==
  [ok |-> ok, test |-> ~promote, by |-> None, read |-> NoVersions, deps |-> NoVersions]

Place == {"idle", "start", "resolve", "run", "upload", "link", "promote", "report"}
Calls == {"start", "upload", "link", "promote", "report"}

(* The locals of process_message and run_stage.                            *)
Idle ==
  [at |-> "idle", sr |-> None, inputs |-> NoVersions, attempt |-> 0, ok |-> FALSE,
   version |-> 0, error |-> None]

Job == [at : Place, sr : StageRun \cup {None}, inputs : Versions, attempt : Nat,
        ok : BOOLEAN, version : Nat, error : Error \cup {None}]

Init ==
  /\ message \in [StageRun -> Message]
  /\ queue = [r \in StageRun |-> message[r].copies]
  /\ report =
       [r \in StageRun |-> [status |-> "requested", output |-> 0, attempts |-> 0, error |-> None]]
  /\ \E P \in Preloads :
       /\ log = [n \in Name |-> IF n \in P THEN <<Uploaded(TRUE, TRUE)>> ELSE <<>>]
       /\ current = [n \in Name |-> IF n \in P THEN 1 ELSE 0]
  /\ work = [w \in Worker |-> Idle]
  /\ late = {} /\ asks = {} /\ made = {} /\ dropped = {}
  /\ timeouts = 0

StageOf(r) == message[r].stage

Goto(w, j) == work' = [work EXCEPT ![w] = j]

-----------------------------------------------------------------------------
(* What the servers do with a call, j being the caller's locals.           *)

(* The value is recorded also when it does not meet the contract.          *)
RecordVersion(n, v) == log' = [log EXCEPT ![n] = Append(@, v)]

Upload(j) ==
  /\ RecordVersion(StageOf(j.sr),
       [ok |-> j.ok, test |-> ~message[j.sr].promote, by |-> j.sr, read |-> j.inputs,
        deps |-> NoVersions])
  /\ UNCHANGED <<report, current, made>>

UpdateDependencies(j) ==
  /\ log' = [log EXCEPT ![StageOf(j.sr)][j.version].deps = j.inputs]
  /\ UNCHANGED <<report, current, made>>

Promote(j, isLate) ==
  /\ current' = [current EXCEPT ![StageOf(j.sr)] = j.version]
  /\ made' = made \cup {[version |-> j.version, by |-> j.sr, late |-> isLate]}
  /\ UNCHANGED <<report, log>>

(* mark_running, mark_completed and mark_failed: UPDATEs by id, whatever   *)
(* the row's status is.                                                    *)
MarkRunning(j) ==
  /\ report' = [report EXCEPT ![j.sr].status = "running"]
  /\ UNCHANGED <<log, current, made>>

(* Mutants of MarkOutcome: a failure writes NULL to output_version; the    *)
(* retries are reported as attempts.                                       *)
MarkOutcomeNull(j) ==
  /\ report' =
       IF j.version # 0
       THEN [report EXCEPT ![j.sr] = [@ EXCEPT !.status = "completed", !.output = j.version,
                                               !.attempts = j.attempt]]
       ELSE [report EXCEPT ![j.sr] = [@ EXCEPT !.status = "failed", !.error = j.error,
                                               !.output = None, !.attempts = j.attempt]]
  /\ UNCHANGED <<log, current, made>>
MarkOutcomeRetries(j) ==
  /\ report' =
       IF j.version # 0
       THEN [report EXCEPT ![j.sr] = [@ EXCEPT !.status = "completed", !.output = j.version,
                                               !.attempts = j.attempt - 1]]
       ELSE [report EXCEPT ![j.sr] = [@ EXCEPT !.status = "failed", !.error = j.error,
                                               !.attempts = j.attempt - 1]]
  /\ UNCHANGED <<log, current, made>>

MarkOutcome(j) ==
  /\ report' =
       IF j.version # 0
       THEN [report EXCEPT ![j.sr] = [@ EXCEPT !.status = "completed", !.output = j.version,
                                               !.attempts = j.attempt]]
       ELSE [report EXCEPT ![j.sr] = [@ EXCEPT !.status = "failed", !.error = j.error,
                                               !.attempts = j.attempt]]
  /\ UNCHANGED <<log, current, made>>

Handle(j, isLate) ==
  \/ j.at = "start" /\ MarkRunning(j)
  \/ j.at = "upload" /\ Upload(j)
  \/ j.at = "link" /\ UpdateDependencies(j)
  \/ j.at = "promote" /\ Promote(j, isLate)
  \/ j.at = "report" /\ MarkOutcome(j)

-----------------------------------------------------------------------------
(* A worker.                                                               *)

(* BRPOP removes the message from Redis for good.                          *)
Pop(w, r) ==
  /\ work[w].at = "idle"
  /\ queue[r] > 0
  /\ queue' = [queue EXCEPT ![r] = @ - 1]
  /\ Goto(w, [Idle EXCEPT !.at = "start", !.sr = r])
  /\ UNCHANGED <<message, report, log, current, late, asks, made, dropped, timeouts>>

ReportStart(w) ==
  /\ work[w].at = "start"
  /\ Handle(work[w], FALSE)
  /\ Goto(w, [work[w] EXCEPT !.at = "resolve", !.attempt = 1])
  /\ UNCHANGED <<message, queue, late, asks, dropped, timeouts>>

(* The version of n to read: the pinned one, or the current one.           *)
Wanted(r, n) ==
  IF n \in Known(message[r].input_versions) THEN message[r].input_versions[n] ELSE current[n]

Unresolved(w) == DependsOn[StageOf(work[w].sr)] \ Known(work[w].inputs)

(* _resolve_input, of one dependency (their order is not kept).            *)
ResolveInput(w, n) ==
  LET j == work[w] IN
  /\ j.at = "resolve"
  /\ n \in Unresolved(w)
  /\ Wanted(j.sr, n) \in DOMAIN log[n]
  /\ Goto(w, [j EXCEPT !.inputs[n] = Wanted(j.sr, n)])
  /\ UNCHANGED <<message, queue, report, log, current, late, asks, made, dropped, timeouts>>

InputsResolved(w) ==
  /\ work[w].at = "resolve"
  /\ Unresolved(w) = {}
  /\ Goto(w, [work[w] EXCEPT !.at = "run"])
  /\ UNCHANGED <<message, queue, report, log, current, late, asks, made, dropped, timeouts>>

(* Mutant of SetupFails: it is not reported.                               *)
SetupFailsSilently(w) ==
  LET j == work[w] IN
  /\ j.at = "resolve"
  /\ \/ "unloadable" \in Faults \/ "refusal" \in Faults
     \/ \E n \in Unresolved(w) : Wanted(j.sr, n) \notin DOMAIN log[n]
  /\ Goto(w, Idle)
  /\ UNCHANGED <<message, queue, report, log, current, late, asks, made, dropped, timeouts>>

(* The workflow cannot be loaded, or run_stage raises: an input has no     *)
(* such version, or the store does not answer.  No attempt is made.        *)
SetupFails(w) ==
  LET j == work[w] IN
  /\ j.at = "resolve"
  /\ \/ "unloadable" \in Faults \/ "refusal" \in Faults
     \/ \E n \in Unresolved(w) : Wanted(j.sr, n) \notin DOMAIN log[n]
  /\ Goto(w, [j EXCEPT !.at = "report", !.error = "setup"])
  /\ UNCHANGED <<message, queue, report, log, current, late, asks, made, dropped, timeouts>>

(* The stage's function returns a value that meets its contract or not.    *)
ExecuteStage(w) ==
  /\ work[w].at = "run"
  /\ \E ok \in BOOLEAN : Goto(w, [work[w] EXCEPT !.at = "upload", !.ok = ok])
  /\ UNCHANGED <<message, queue, report, log, current, late, asks, made, dropped, timeouts>>

(* Mutant of NextAttempt: each attempt resolves the inputs again.          *)
ResolveAgain(w, e) ==
  LET j == work[w]
      last == j.attempt = Retries[StageOf(j.sr)] + 1
  IN
  Goto(w, [j EXCEPT !.at = IF last THEN "report" ELSE "resolve",
                    !.attempt = IF last THEN @ ELSE @ + 1, !.error = IF last THEN e ELSE None,
                    !.version = 0, !.ok = FALSE, !.inputs = NoVersions])

(* An attempt raises: there is another one, or its error is the stage's.   *)
NextAttempt(w, e) ==
  LET j == work[w]
      last == j.attempt = Retries[StageOf(j.sr)] + 1
  IN
  Goto(w, [j EXCEPT !.at = IF last THEN "report" ELSE "run",
                    !.attempt = IF last THEN @ ELSE @ + 1, !.error = IF last THEN e ELSE None,
                    !.version = 0, !.ok = FALSE])

(* execute_stage.py prints its JSON on stdout and exits with 1; the        *)
(* container's error carries stderr, where there is none to parse.         *)
ErrorSeen == IF Executor = "docker" THEN "unparsed" ELSE "raised"

StageRaises(w) ==
  /\ work[w].at = "run"
  /\ NextAttempt(w, ErrorSeen)
  /\ UNCHANGED <<message, queue, report, log, current, late, asks, made, dropped, timeouts>>

(* Mutant of UploadAnswered: the status code is not looked at.             *)
UploadAccepted(w) ==
  LET j == work[w] IN
  /\ j.at = "upload"
  /\ Handle(j, FALSE)
  /\ Goto(w, [j EXCEPT !.at = "link", !.version = Len(log[StageOf(j.sr)]) + 1])
  /\ UNCHANGED <<message, queue, late, asks, dropped, timeouts>>

(* The answer to upload_version: 201 with the version, or 400.             *)
UploadAnswered(w) ==
  LET j == work[w] IN
  /\ j.at = "upload"
  /\ Handle(j, FALSE)
  /\ IF j.ok
     THEN Goto(w, [j EXCEPT !.at = "link", !.version = Len(log[StageOf(j.sr)]) + 1])
     ELSE NextAttempt(w, "contract")
  /\ UNCHANGED <<message, queue, late, asks, dropped, timeouts>>

(* Mutant of LinkAnswered: every output is promoted.                       *)
LinkThenPromote(w) ==
  /\ work[w].at = "link"
  /\ Handle(work[w], FALSE)
  /\ Goto(w, [work[w] EXCEPT !.at = "promote"])
  /\ UNCHANGED <<message, queue, late, asks, dropped, timeouts>>

LinkAnswered(w) ==
  LET j == work[w] IN
  /\ j.at = "link"
  /\ Handle(j, FALSE)
  /\ Goto(w, [j EXCEPT !.at = IF message[j.sr].promote THEN "promote" ELSE "report"])
  /\ UNCHANGED <<message, queue, late, asks, dropped, timeouts>>

PromoteAnswered(w) ==
  /\ work[w].at = "promote"
  /\ Handle(work[w], FALSE)
  /\ Goto(w, [work[w] EXCEPT !.at = "report"])
  /\ UNCHANGED <<message, queue, late, asks, dropped, timeouts>>

ReportOutcome(w) ==
  /\ work[w].at = "report"
  /\ Handle(work[w], FALSE)
  /\ Goto(w, Idle)
  /\ UNCHANGED <<message, queue, late, asks, dropped, timeouts>>

(* Mutants of CallRaises: the report of the outcome is in the try block;   *)
(* a start that cannot be reported is ignored.                             *)
RetryReport(w) ==
  LET j == work[w] IN
  IF j.at = "start"
  THEN Goto(w, Idle) /\ dropped' = dropped \cup {j.sr}
  ELSE NextAttempt(w, "unanswered") /\ UNCHANGED dropped
IgnoreStart(w) ==
  LET j == work[w] IN
  CASE j.at = "start" -> Goto(w, [j EXCEPT !.at = "resolve", !.attempt = 1]) /\ UNCHANGED dropped
    [] j.at = "report" -> Goto(w, Idle) /\ dropped' = dropped \cup {j.sr}
    [] OTHER -> NextAttempt(w, "unanswered") /\ UNCHANGED dropped

(* The call raises.  A call to the store fails the attempt; a report that  *)
(* raises ends process_message, and main() goes on to the next message.    *)
CallRaises(w) ==
  LET j == work[w] IN
  IF j.at \in {"start", "report"}
  THEN Goto(w, Idle) /\ dropped' = dropped \cup {j.sr}
  ELSE NextAttempt(w, "unanswered") /\ UNCHANGED dropped

CallRefused(w) ==
  /\ "refusal" \in Faults
  /\ work[w].at \in Calls
  /\ CallRaises(w)
  /\ UNCHANGED <<message, queue, report, log, current, late, asks, made, timeouts>>

CallTimesOut(w) ==
  /\ timeouts < MaxLate
  /\ work[w].at \in Calls
  /\ late' = late \cup {work[w]}
  /\ timeouts' = timeouts + 1
  /\ CallRaises(w)
  /\ UNCHANGED <<message, queue, report, log, current, asks, made>>

(* The server handles a call after its caller has gone on.                 *)
HandleLate(j) ==
  /\ j \in late
  /\ Handle(j, TRUE)
  /\ late' = late \ {j}
  /\ UNCHANGED <<message, queue, work, asks, dropped, timeouts>>

(* The worker dies, or the pop's answer is lost.                           *)
Dies(w) ==
  /\ "death" \in Faults
  /\ work[w].at # "idle"
  /\ Goto(w, Idle)
  /\ dropped' = dropped \cup {work[w].sr}
  /\ UNCHANGED <<message, queue, report, log, current, late, asks, made, timeouts>>

Step(w) ==
  \/ \E r \in StageRun : Pop(w, r)
  \/ ReportStart(w)
  \/ \E n \in Name : ResolveInput(w, n)
  \/ InputsResolved(w) \/ SetupFails(w)
  \/ ExecuteStage(w) \/ StageRaises(w)
  \/ UploadAnswered(w) \/ LinkAnswered(w) \/ PromoteAnswered(w)
  \/ ReportOutcome(w)

-----------------------------------------------------------------------------
(* People.                                                                 *)

(* `resource upload`, with --promote a second request after the first.     *)
ResourceUpload(n, ok, promote) ==
  /\ n \in Edited
  /\ Len(log[n]) < MaxVersion
  /\ RecordVersion(n, Uploaded(ok, promote))
  /\ asks' = IF ok /\ promote THEN asks \cup {<<n, Len(log[n]) + 1>>} ELSE asks
  /\ UNCHANGED <<message, queue, report, current, work, late, made, dropped, timeouts>>

PromoteUploaded(n, k) ==
  /\ <<n, k>> \in asks
  /\ asks' = asks \ {<<n, k>>}
  /\ current' = [current EXCEPT ![n] = k]
  /\ UNCHANGED <<message, queue, report, log, work, late, made, dropped, timeouts>>

(* The web UI promotes any version that is not current.                    *)
ConfirmPromote(n, k) ==
  /\ n \in Edited
  /\ k \in DOMAIN log[n]
  /\ k # current[n]
  /\ current' = [current EXCEPT ![n] = k]
  /\ UNCHANGED <<message, queue, report, log, work, late, asks, made, dropped, timeouts>>

People ==
  \E n \in Name :
    \/ \E ok, promote \in BOOLEAN : ResourceUpload(n, ok, promote)
    \/ \E k \in DOMAIN log[n] : PromoteUploaded(n, k) \/ ConfirmPromote(n, k)

Next ==
  \/ \E w \in Worker : Step(w) \/ CallRefused(w) \/ CallTimesOut(w) \/ Dies(w)
  \/ \E j \in late : HandleLate(j)
  \/ People

Spec == Init /\ [][Next]_vars

(* main() loops for ever whatever a message raises, a call is answered or  *)
(* times out, and a stage's function returns.                              *)
Fairness == \A w \in Worker : WF_vars(Step(w))

FairSpec == Spec /\ Fairness

-----------------------------------------------------------------------------
(* Correctness.                                                            *)

(* Every variable has its type.                                            *)
TypeOK ==
  /\ message \in [StageRun -> Message]
  /\ queue \in [StageRun -> Nat]
  /\ report \in [StageRun -> Row]
  /\ log \in [Name -> Seq(Version)]
  /\ current \in [Name -> Nat]
  /\ work \in [Worker -> Job]
  /\ late \subseteq Job
  /\ asks \subseteq Name \X Nat
  /\ made \subseteq [version : Nat, by : StageRun, late : BOOLEAN]
  /\ dropped \subseteq StageRun
  /\ timeouts \in Nat

(* What the version k that stage run r uploaded must be for r to stand on  *)
(* it: valid, marked as r's run asks, and linked to what it was computed   *)
(* from, which for a pinned dependency is the pinned version.              *)
Sound(r, k) ==
  LET v == log[StageOf(r)][k]
      pins == message[r].input_versions
  IN
  /\ k \in DOMAIN log[StageOf(r)]
  /\ v.by = r /\ v.ok /\ v.test = ~message[r].promote
  /\ v.deps = v.read
  /\ DependsOn[StageOf(r)] \subseteq Known(v.read)
  /\ \A n \in DependsOn[StageOf(r)] \cap Known(pins) : v.read[n] = pins[n]

(* A completed stage run names a sound version of its own, and has made it *)
(* current at some time if its run promotes: also when its message was     *)
(* delivered twice, attempts failed, and calls were handled late.          *)
CompletedIsSound ==
  \A r \in StageRun :
    report[r].status = "completed" =>
      /\ Sound(r, report[r].output)
      /\ message[r].promote =>
           \E m \in made : m.version = report[r].output /\ m.by = r

(* Whatever is late, delivered twice or retried, a worker only ever makes  *)
(* a sound version current, and only in a run that promotes.               *)
PromotedIsSound ==
  \A m \in made : message[m.by].promote /\ Sound(m.by, m.version)

VersionsBy(r) == {k \in DOMAIN log[StageOf(r)] : log[StageOf(r)][k].by = r}

(* What a stage run has left in the store. The attempts it reports, and    *)
(* those allowed to a further copy of its message, account for every       *)
(* version it has uploaded or may yet upload: a retry repeats an upload,   *)
(* nothing else does.                                                      *)
AttemptsAccounted ==
  \A r \in StageRun :
    report[r].status \in {"completed", "failed"} =>
      Cardinality(VersionsBy(r)) + Cardinality({j \in late : j.sr = r /\ j.at = "upload"})
        <= report[r].attempts + (message[r].copies - 1) * (Retries[StageOf(r)] + 1)

(* Of a message delivered once, the attempts are all computed from the     *)
(* same inputs, although unpinned ones may be promoted over between two.   *)
AttemptsShareInputs ==
  \A r \in StageRun : \A k, l \in VersionsBy(r) :
    message[r].copies = 1 => log[StageOf(r)][k].read = log[StageOf(r)][l].read

(* And once it has an outcome, the only version it may have made current   *)
(* other than the output it reports is one whose promotion was handled     *)
(* late.                                                                   *)
PromotedIsReported ==
  \A m \in made :
    /\ ~m.late /\ message[m.by].copies = 1
    /\ report[m.by].status \in {"completed", "failed"}
    => report[m.by].status = "completed" /\ report[m.by].output = m.version

(* And its outcome never changes, although no report looks at the row and  *)
(* one of them may be handled late.                                        *)
OutcomeIsFinal ==
  [][\A r \in StageRun :
       message[r].copies = 1 /\ report[r].status \in {"completed", "failed"} =>
         report'[r] = report[r]]_vars

(* Every message gets a stage run its outcome, unless a worker died with   *)
(* it or could not report.                                                 *)
Served ==
  \A r \in StageRun :
    <>(report[r].status \in {"completed", "failed"} \/ r \in dropped)

(* execute_stage.py's result line is what DockerStageExecutor expects      *)
(* back: what a stage raised is not lost to a parse error.                 *)
StageErrorIsKept == \A r \in StageRun : report[r].error # "unparsed"
=============================================================================
