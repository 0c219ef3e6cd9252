--------------------------- MODULE StageWorkerProofs ---------------------------
(***************************************************************************)
(* Proofs about StageWorker, for any number of workers, stage runs,        *)
(* copies of a message, retries and calls that are handled late: types,    *)
(* and that what a stage run promotes or reports is sound.                 *)
(***************************************************************************)
EXTENDS StageWorker, TLAPS

(* The version that a job holds is the one it uploaded, from its inputs.   *)
Recorded(j) ==
  LET v == log[StageOf(j.sr)][j.version] IN
  /\ j.version \in DOMAIN log[StageOf(j.sr)]
  /\ v.by = j.sr /\ v.ok /\ v.test = ~message[j.sr].promote
  /\ v.read = j.inputs

PinsObeyed(j) ==
  LET pins == message[j.sr].input_versions IN
  \A n \in Known(j.inputs) : n \in Known(pins) => j.inputs[n] = pins[n]

Resolved(j) == DependsOn[StageOf(j.sr)] \subseteq Known(j.inputs)

PromotedOnce(r, k) == \E m \in made : m.version = k /\ m.by = r

(* What holds of a worker's locals, and still does when a call that it     *)
(* made with them is handled late.                                         *)
JobOK(j) ==
  /\ j.at # "idle" => j.sr \in StageRun /\ PinsObeyed(j)
  /\ j.at \in {"start", "resolve"} => j.version = 0
  /\ j.at \in {"run", "upload", "link", "promote"} => Resolved(j)
  /\ j.at \in {"link", "promote"} => Recorded(j)
  /\ j.at = "promote" => message[j.sr].promote /\ Sound(j.sr, j.version)
  /\ j.at = "report" /\ j.version # 0 =>
       /\ Sound(j.sr, j.version)
       /\ message[j.sr].promote => PromotedOnce(j.sr, j.version)

JobInv ==
  /\ \A w \in Worker : JobOK(work[w])
  /\ \A j \in late : JobOK(j)

Inv == TypeOK /\ JobInv /\ PromotedIsSound /\ CompletedIsSound

(* A step keeps the versions, and the dependencies of one that are the     *)
(* versions it was computed from.                                          *)
LogKept ==
  \A n \in Name : \A k \in DOMAIN log[n] :
    /\ k \in DOMAIN log'[n]
    /\ log'[n][k].by = log[n][k].by
    /\ log'[n][k].ok = log[n][k].ok
    /\ log'[n][k].test = log[n][k].test
    /\ log'[n][k].read = log[n][k].read
    /\ log[n][k].deps = log[n][k].read => log'[n][k].deps = log[n][k].read

Kept == LogKept /\ made \subseteq made' /\ message' = message

-----------------------------------------------------------------------------
(* A stage run's stage is a resource, with versions and dependencies.      *)
LEMMA StageOfRun ==
  ASSUME TypeOK, NEW r \in StageRun
  PROVE  /\ StageOf(r) \in Stage /\ StageOf(r) \in Name
         /\ log[StageOf(r)] \in Seq(Version)
         /\ message[r].promote \in BOOLEAN
         /\ message[r].input_versions \in Versions
         /\ DependsOn[StageOf(r)] \subseteq Name
         /\ Retries[StageOf(r)] \in Nat
BY WorkerAssumption DEF TypeOK, StageOf, MessageType

(* The versions of a job are what a dict of versions holds.                *)
LEMMA JobFields ==
  ASSUME NEW j \in Job
  PROVE  /\ j.at \in Place /\ j.sr \in StageRun \cup {None} /\ j.inputs \in Versions
         /\ j.attempt \in Nat /\ j.ok \in BOOLEAN /\ j.version \in Nat
         /\ j.error \in Error \cup {None}
BY DEF Job

(* Appending a version keeps those there are.                              *)
LEMMA AppendKeeps ==
  ASSUME TypeOK, NEW n \in Name, NEW v \in Version, RecordVersion(n, v)
  PROVE  /\ LogKept
         /\ log' \in [Name -> Seq(Version)]
         /\ Len(log[n]) + 1 \in DOMAIN log'[n]
         /\ log'[n][Len(log[n]) + 1] = v
<1>1. log[n] \in Seq(Version) /\ log' = [log EXCEPT ![n] = Append(log[n], v)]
  BY DEF TypeOK, RecordVersion
<1>2. log'[n] = Append(log[n], v) /\ \A m \in Name \ {n} : log'[m] = log[m]
  BY <1>1 DEF TypeOK
<1>3. /\ Append(log[n], v) \in Seq(Version)
      /\ DOMAIN log[n] = 1..Len(log[n])
      /\ DOMAIN Append(log[n], v) = 1..(Len(log[n]) + 1)
      /\ \A k \in 1..Len(log[n]) : Append(log[n], v)[k] = log[n][k]
      /\ Append(log[n], v)[Len(log[n]) + 1] = v
      /\ Len(log[n]) \in Nat
  BY <1>1
<1>4. \A k \in DOMAIN log[n] : k \in DOMAIN log'[n] /\ log'[n][k] = log[n][k]
  BY <1>2, <1>3
<1>5. LogKept
  BY <1>2, <1>4 DEF LogKept
<1>6. log' \in [Name -> Seq(Version)]
  BY <1>1, <1>3 DEF TypeOK
<1> QED  BY <1>2, <1>3, <1>5, <1>6

(* A kept version stays sound, and the one a job holds stays its own.      *)
LEMMA SoundKept ==
  ASSUME TypeOK, Kept, NEW r \in StageRun, NEW k, Sound(r, k)
  PROVE  Sound(r, k)'
<1>1. StageOf(r) \in Name /\ StageOf(r)' = StageOf(r)
  BY StageOfRun DEF Kept, StageOf
<1>2. /\ k \in DOMAIN log[StageOf(r)] /\ k \in DOMAIN log'[StageOf(r)]
      /\ log'[StageOf(r)][k].by = r /\ log'[StageOf(r)][k].ok
      /\ log'[StageOf(r)][k].test = ~message[r].promote
      /\ log'[StageOf(r)][k].read = log[StageOf(r)][k].read
      /\ log'[StageOf(r)][k].deps = log[StageOf(r)][k].read
  BY <1>1 DEF Kept, LogKept, Sound
<1> QED
  BY <1>1, <1>2 DEF Kept, Sound, Known

LEMMA RecordedKept ==
  ASSUME TypeOK, Kept, NEW j \in Job, j.sr \in StageRun, Recorded(j)
  PROVE  Recorded(j)'
<1>1. StageOf(j.sr) \in Name /\ StageOf(j.sr)' = StageOf(j.sr)
  BY StageOfRun DEF Kept, StageOf
<1> QED
  BY <1>1 DEF Kept, LogKept, Recorded

(* What holds of a job goes on holding of it.                              *)
LEMMA JobKept ==
  ASSUME TypeOK, Kept, NEW j \in Job, JobOK(j)
  PROVE  JobOK(j)'
<1>1. message' = message /\ made \subseteq made'
  BY DEF Kept
<1>2. j.at # "idle" => j.sr \in StageRun /\ PinsObeyed(j)'
  BY <1>1 DEF JobOK, PinsObeyed, Known
<1>3. j.at \in {"run", "upload", "link", "promote"} => Resolved(j)'
  BY <1>1 DEF JobOK, Resolved, StageOf, Known
<1>4. j.at \in {"link", "promote"} => Recorded(j)'
  BY <1>2, RecordedKept DEF JobOK
<1>5. j.at = "promote" => message'[j.sr].promote /\ Sound(j.sr, j.version)'
  BY <1>1, <1>2, SoundKept DEF JobOK
<1>6. j.at = "report" /\ j.version # 0 =>
        /\ Sound(j.sr, j.version)'
        /\ message'[j.sr].promote => PromotedOnce(j.sr, j.version)'
  BY <1>1, <1>2, SoundKept DEF JobOK, PromotedOnce
<1> QED
  BY <1>2, <1>3, <1>4, <1>5, <1>6 DEF JobOK

-----------------------------------------------------------------------------
(* What the servers do with a call keeps the types, the versions and the   *)
(* promotions.                                                             *)
HandleTypes ==
  /\ report' \in [StageRun -> Row]
  /\ log' \in [Name -> Seq(Version)]
  /\ current' \in [Name -> Nat]
  /\ made' \subseteq [version : Nat, by : StageRun, late : BOOLEAN]

(* The new row of an upload.                                               *)
NewVersion(j) ==
  [ok |-> j.ok, test |-> ~message[j.sr].promote, by |-> j.sr, read |-> j.inputs,
   deps |-> NoVersions]

LEMMA UploadKeeps ==
  ASSUME TypeOK, NEW j \in Job, j.sr \in StageRun, Upload(j), message' = message
  PROVE  /\ HandleTypes /\ Kept
         /\ Len(log[StageOf(j.sr)]) + 1 \in DOMAIN log'[StageOf(j.sr)]
         /\ log'[StageOf(j.sr)][Len(log[StageOf(j.sr)]) + 1] = NewVersion(j)
<1>1. StageOf(j.sr) \in Name /\ message[j.sr].promote \in BOOLEAN
  BY StageOfRun
<1>2. NewVersion(j) \in Version
  BY <1>1, JobFields DEF NewVersion, Version, NoVersions, Versions
<1>3. RecordVersion(StageOf(j.sr), NewVersion(j)) /\ UNCHANGED <<report, current, made>>
  BY DEF Upload, NewVersion
<1> QED
  BY <1>1, <1>2, <1>3, AppendKeeps DEF HandleTypes, Kept, TypeOK

LEMMA LinkKeeps ==
  ASSUME TypeOK, NEW j \in Job, j.sr \in StageRun, Recorded(j), UpdateDependencies(j),
         message' = message
  PROVE  /\ HandleTypes /\ Kept
         /\ log'[StageOf(j.sr)][j.version].deps = j.inputs
<1> DEFINE s == StageOf(j.sr)
           new == [log[s][j.version] EXCEPT !.deps = j.inputs]
<1>1. s \in Name /\ log[s] \in Seq(Version) /\ j.version \in DOMAIN log[s]
  BY StageOfRun DEF Recorded
<1>2. log[s][j.version] \in Version /\ log[s][j.version].read = j.inputs
  BY <1>1 DEF Recorded
<1>3. /\ new \in Version /\ new.deps = j.inputs
      /\ new.by = log[s][j.version].by /\ new.ok = log[s][j.version].ok
      /\ new.test = log[s][j.version].test /\ new.read = log[s][j.version].read
  BY <1>2, JobFields DEF Version
<1>4. log' = [log EXCEPT ![s] = [log[s] EXCEPT ![j.version] = new]]
  BY <1>1, <1>2 DEF UpdateDependencies, TypeOK, Version
<1>5. /\ log'[s] = [log[s] EXCEPT ![j.version] = new]
      /\ \A m \in Name \ {s} : log'[m] = log[m]
  BY <1>1, <1>4 DEF TypeOK
<1>6. /\ [log[s] EXCEPT ![j.version] = new] \in Seq(Version)
      /\ DOMAIN log'[s] = DOMAIN log[s]
      /\ log'[s][j.version] = new
      /\ \A k \in DOMAIN log[s] : k # j.version => log'[s][k] = log[s][k]
  BY <1>1, <1>3, <1>5
<1>7. log' \in [Name -> Seq(Version)]
  BY <1>4, <1>6 DEF TypeOK
<1>8. LogKept
  BY <1>2, <1>3, <1>5, <1>6 DEF LogKept
<1>9. UNCHANGED <<report, current, made>>
  BY DEF UpdateDependencies
<1> QED
  BY <1>3, <1>6, <1>7, <1>8, <1>9 DEF HandleTypes, Kept, TypeOK

LEMMA PromoteKeeps ==
  ASSUME TypeOK, NEW j \in Job, j.sr \in StageRun, NEW b \in BOOLEAN, Promote(j, b),
         message' = message
  PROVE  /\ HandleTypes /\ Kept
         /\ made' = made \cup {[version |-> j.version, by |-> j.sr, late |-> b]}
<1>1. StageOf(j.sr) \in Name
  BY StageOfRun
<1>2. /\ UNCHANGED <<report, log>>
      /\ current' = [current EXCEPT ![StageOf(j.sr)] = j.version]
      /\ made' = made \cup {[version |-> j.version, by |-> j.sr, late |-> b]}
  BY DEF Promote
<1>3. current' \in [Name -> Nat]
  BY <1>1, <1>2, JobFields DEF TypeOK
<1>4. made' \subseteq [version : Nat, by : StageRun, late : BOOLEAN]
  BY <1>2, JobFields DEF TypeOK
<1> QED
  BY <1>2, <1>3, <1>4 DEF HandleTypes, Kept, LogKept, TypeOK

(* The row that a report of the outcome writes.                            *)
LEMMA ReportKeeps ==
  ASSUME TypeOK, NEW j \in Job, j.sr \in StageRun, MarkRunning(j) \/ MarkOutcome(j),
         message' = message
  PROVE  /\ HandleTypes /\ Kept
         /\ \A r \in StageRun \ {j.sr} : report'[r] = report[r]
         /\ MarkRunning(j) => report'[j.sr].status = "running"
         /\ MarkOutcome(j) =>
              IF j.version = 0 THEN report'[j.sr].status = "failed"
              ELSE report'[j.sr].output = j.version
<1> DEFINE old == report[j.sr]
<1>1. /\ UNCHANGED <<log, current, made>>
      /\ old \in Row
  BY DEF MarkRunning, MarkOutcome, TypeOK
<1>2. PICK row \in Row :
        /\ report' = [report EXCEPT ![j.sr] = row]
        /\ MarkRunning(j) => row.status = "running"
        /\ MarkOutcome(j) => IF j.version = 0 THEN row.status = "failed"
                             ELSE row.output = j.version
  <2>1. CASE MarkRunning(j) /\ ~MarkOutcome(j)
    <3>1. [old EXCEPT !.status = "running"] \in Row
      BY <1>1 DEF Row, Status
    <3> QED  BY <1>1, <3>1, <2>1 DEF MarkRunning, Row
  <2>2. CASE MarkOutcome(j) /\ j.version # 0
    <3> DEFINE row == [old EXCEPT !.status = "completed", !.output = j.version,
                                  !.attempts = j.attempt]
    <3>1. row \in Row /\ row.output = j.version
      BY <1>1, JobFields DEF Row, Status
    <3>2. report' = [report EXCEPT ![j.sr] = row]
      BY <2>2 DEF MarkOutcome
    <3>3. report'[j.sr] = row
      BY <3>2 DEF TypeOK
    <3>4. ~MarkRunning(j)
      <4>1. row.status = "completed"
        BY <1>1 DEF Row
      <4>2. SUFFICES ASSUME MarkRunning(j) PROVE FALSE
        OBVIOUS
      <4>3. report'[j.sr].status = "running"
        BY <1>1, <4>2 DEF MarkRunning, TypeOK, Row
      <4> QED  BY <3>3, <4>1, <4>3
    <3> QED  BY <2>2, <3>1, <3>2, <3>4
  <2>3. CASE MarkOutcome(j) /\ j.version = 0
    <3> DEFINE row == [old EXCEPT !.status = "failed", !.error = j.error,
                                  !.attempts = j.attempt]
    <3>1. row \in Row /\ row.status = "failed"
      BY <1>1, JobFields DEF Row, Status
    <3>2. report' = [report EXCEPT ![j.sr] = row]
      BY <2>3 DEF MarkOutcome
    <3>3. ~MarkRunning(j)
      <4>1. SUFFICES ASSUME MarkRunning(j) PROVE FALSE
        OBVIOUS
      <4>2. report'[j.sr].status = "running"
        BY <1>1, <4>1 DEF MarkRunning, TypeOK, Row
      <4> QED  BY <3>1, <3>2, <4>2 DEF TypeOK
    <3> QED  BY <2>3, <3>1, <3>2, <3>3
  <2> QED  BY <2>1, <2>2, <2>3
<1>3. report' \in [StageRun -> Row] /\ report'[j.sr] = row
  BY <1>2 DEF TypeOK
<1>4. \A r \in StageRun \ {j.sr} : report'[r] = report[r]
  BY <1>2 DEF TypeOK
<1> QED
  BY <1>1, <1>2, <1>3, <1>4 DEF HandleTypes, Kept, LogKept, TypeOK

-----------------------------------------------------------------------------
(* What was promoted stays sound, if what is promoted now is.              *)
LEMMA PromotionsStaySound ==
  ASSUME TypeOK, Kept, PromotedIsSound, made' \subseteq [version : Nat, by : StageRun, late : BOOLEAN],
         \A m \in made' \ made : message[m.by].promote /\ Sound(m.by, m.version)
  PROVE  PromotedIsSound'
<1>1. ASSUME NEW m \in made' PROVE (message'[m.by].promote /\ Sound(m.by, m.version)')
  <2>1. message[m.by].promote /\ Sound(m.by, m.version)
    BY <1>1 DEF PromotedIsSound
  <2>2. m.by \in StageRun
    BY <1>1
  <2> QED  BY <2>1, <2>2, SoundKept DEF Kept
<1> QED
  BY <1>1 DEF PromotedIsSound

(* CompletedIsSound, of one stage run.                                     *)
CompletedOf(r) ==
  report[r].status = "completed" =>
    /\ Sound(r, report[r].output)
    /\ message[r].promote =>
         \E m \in made : m.version = report[r].output /\ m.by = r

(* What was reported completed stays sound, if what is reported now is.    *)
LEMMA OutcomesStaySound ==
  ASSUME TypeOK, Kept, CompletedIsSound,
         \A r \in StageRun : report'[r].status = "completed" =>
           \/ report'[r] = report[r]
           \/ /\ Sound(r, report'[r].output)
              /\ message[r].promote => PromotedOnce(r, report'[r].output)
  PROVE  CompletedIsSound'
<1>1. ASSUME NEW r \in StageRun, report'[r].status = "completed",
             NEW k, k = report'[r].output
      PROVE  /\ Sound(r, k)'
             /\ message'[r].promote => \E m \in made' : m.version = k /\ m.by = r
  <2>1. /\ Sound(r, k)
        /\ message[r].promote => \E m \in made : m.version = k /\ m.by = r
    BY <1>1 DEF CompletedIsSound, PromotedOnce
  <2>2. made \subseteq made' /\ message' = message
    BY DEF Kept
  <2> QED  BY <2>1, <2>2, SoundKept
<1>2. ASSUME NEW r \in StageRun PROVE (CompletedOf(r))'
  <2>1. PICK k : k = report'[r].output
    OBVIOUS
  <2> QED  BY <1>1, <2>1 DEF CompletedOf, Sound
<1> QED
  BY <1>2 DEF CompletedIsSound, CompletedOf

(* The servers' part of a step that preserves the invariant.               *)
ServersKeep == HandleTypes /\ Kept /\ PromotedIsSound' /\ CompletedIsSound'

LEMMA NothingHandled ==
  ASSUME Inv, UNCHANGED <<report, log, current, made, message>>
  PROVE  ServersKeep
<1>1. HandleTypes /\ Kept
  BY DEF Inv, TypeOK, HandleTypes, Kept, LogKept
<1> QED
  BY <1>1, PromotionsStaySound, OutcomesStaySound DEF Inv, ServersKeep, HandleTypes

(* A call, whenever it is handled, keeps promotions and outcomes sound.    *)
LEMMA HandleKeeps ==
  ASSUME Inv, NEW j \in Job, JobOK(j), NEW b \in BOOLEAN, Handle(j, b), message' = message
  PROVE  ServersKeep
<1> USE DEF Inv
<1>0. j.sr \in StageRun
  BY DEF JobOK, Handle
<1>1. CASE j.at \in {"start", "report"}
  <2>1. HandleTypes /\ Kept /\ made' = made
    BY <1>0, <1>1, ReportKeeps DEF Handle, MarkRunning, MarkOutcome
  <2>2. \A r \in StageRun : report'[r].status = "completed" =>
           \/ report'[r] = report[r]
           \/ /\ Sound(r, report'[r].output)
              /\ message[r].promote => PromotedOnce(r, report'[r].output)
    BY <1>0, <1>1, ReportKeeps DEF Handle, JobOK
  <2> QED  BY <2>1, <2>2, PromotionsStaySound, OutcomesStaySound DEF ServersKeep, HandleTypes
<1>2. CASE j.at = "upload"
  <2>1. HandleTypes /\ Kept /\ UNCHANGED <<report, made>>
    BY <1>0, <1>2, UploadKeeps DEF Handle, Upload
  <2> QED  BY <2>1, PromotionsStaySound, OutcomesStaySound DEF ServersKeep, HandleTypes
<1>3. CASE j.at = "link"
  <2>1. HandleTypes /\ Kept /\ UNCHANGED <<report, made>>
    BY <1>0, <1>3, LinkKeeps DEF Handle, UpdateDependencies, JobOK
  <2> QED  BY <2>1, PromotionsStaySound, OutcomesStaySound DEF ServersKeep, HandleTypes
<1>4. CASE j.at = "promote"
  <2>1. /\ HandleTypes /\ Kept /\ UNCHANGED report
        /\ made' = made \cup {[version |-> j.version, by |-> j.sr, late |-> b]}
    BY <1>0, <1>4, PromoteKeeps DEF Handle, Promote
  <2>2. \A m \in made' \ made : m.by = j.sr /\ m.version = j.version
    BY <2>1
  <2> QED
    BY <1>4, <2>1, <2>2, PromotionsStaySound, OutcomesStaySound
       DEF ServersKeep, HandleTypes, JobOK
<1> QED
  BY <1>1, <1>2, <1>3, <1>4 DEF Handle

(* A step of a worker, whose new locals are j.                             *)
LEMMA WorkerMoves ==
  ASSUME Inv, ServersKeep, NEW w \in Worker, NEW j \in Job, Goto(w, j), JobOK(j)',
         late' \subseteq late \cup {work[w]}, UNCHANGED asks,
         queue' \in [StageRun -> Nat], dropped' \subseteq StageRun, timeouts' \in Nat
  PROVE  Inv'
<1> USE DEF Inv
<1>1. work' = [work EXCEPT ![w] = j] /\ work' \in [Worker -> Job] /\ work[w] \in Job
  BY DEF Goto, TypeOK
<1>2. TypeOK'
  BY <1>1 DEF TypeOK, ServersKeep, HandleTypes, Kept
<1>3. Kept
  BY DEF ServersKeep
<1>4. ASSUME NEW v \in Worker PROVE JobOK(work[v])'
  <2>1. CASE v = w
    <3>1. work'[v] = j
      BY <1>1, <2>1 DEF TypeOK
    <3> QED  BY <3>1 DEF JobOK, PinsObeyed, Resolved, Recorded, Sound, PromotedOnce
  <2>2. CASE v # w
    <3>1. work'[v] = work[v] /\ work[v] \in Job /\ JobOK(work[v])
      BY <1>1, <2>2 DEF TypeOK, JobInv
    <3> QED  BY <1>3, <3>1, JobKept
  <2> QED  BY <2>1, <2>2
<1>5. ASSUME NEW i \in late' PROVE JobOK(i)'
  <2>1. i \in Job /\ JobOK(i)
    BY <1>1, <1>5 DEF TypeOK, JobInv
  <2> QED  BY <1>3, <2>1, JobKept
<1>6. JobInv'
  BY <1>4, <1>5 DEF JobInv
<1> QED
  BY <1>2, <1>6 DEF ServersKeep

-----------------------------------------------------------------------------
(* The worker's steps.                                                     *)

(* A job that goes on with the same stage run and inputs.                  *)
LEMMA SameInputs ==
  ASSUME TypeOK, Kept, NEW i \in Job, JobOK(i), i.at # "idle",
         NEW j \in Job, j.sr = i.sr, j.inputs = i.inputs
  PROVE  /\ j.sr \in StageRun /\ PinsObeyed(j)'
         /\ Resolved(i) => Resolved(j)'
BY DEF Kept, JobOK, PinsObeyed, Resolved, StageOf, Known

(* An attempt that raises: the next one starts from the same inputs, or    *)
(* there is no version to report.                                          *)
LEMMA NextAttemptOK ==
  ASSUME Inv, Kept, NEW w \in Worker, NEW e \in Error, NextAttempt(w, e),
         work[w].at \in {"run", "upload", "link", "promote"}
  PROVE  \E j \in Job : Goto(w, j) /\ JobOK(j)'
<1>1. PICK i \in Job : i = work[w] /\ JobOK(i) /\ Resolved(i) /\ i.at # "idle"
  BY DEF Inv, TypeOK, JobInv, JobOK
<1>2. PICK last \in BOOLEAN : last = (i.attempt = Retries[StageOf(i.sr)] + 1)
  OBVIOUS
<1> DEFINE at == IF last THEN "report" ELSE "run"
           attempt == IF last THEN i.attempt ELSE i.attempt + 1
           error == IF last THEN e ELSE None
           j == [i EXCEPT !.at = at, !.attempt = attempt, !.error = error,
                          !.version = 0, !.ok = FALSE]
<1>3. at \in {"report", "run"} /\ attempt \in Nat /\ error \in Error \cup {None}
  BY JobFields
<1> HIDE DEF at, attempt, error
<1>4. /\ j \in Job /\ j.at \in {"report", "run"} /\ j.version = 0
      /\ j.sr = i.sr /\ j.inputs = i.inputs
  BY <1>3 DEF Job, Place
<1>5. JobOK(j)'
  BY <1>1, <1>4, SameInputs DEF JobOK, Inv
<1>6. Goto(w, j)
  BY <1>1, <1>2 DEF NextAttempt, Goto, at, attempt, error
<1> QED  BY <1>4, <1>5, <1>6

(* A worker that has given its message up.                                 *)
LEMMA IdleOK ==
  /\ Idle \in Job
  /\ JobOK(Idle)'
BY DEF Idle, Job, Place, NoVersions, Versions, JobOK

LEMMA PopKeeps ==
  ASSUME Inv, NEW w \in Worker, NEW r \in StageRun, Pop(w, r)
  PROVE  Inv'
<1> DEFINE j == [Idle EXCEPT !.at = "start", !.sr = r]
<1>1. /\ j \in Job /\ j.at = "start" /\ j.sr = r /\ j.version = 0 /\ j.inputs = NoVersions
  BY IdleOK DEF Idle, Job, Place
<1>2. JobOK(j)'
  BY <1>1 DEF JobOK, PinsObeyed, Known, NoVersions
<1>3. ServersKeep
  BY NothingHandled DEF Pop
<1>4. queue' \in [StageRun -> Nat]
  BY DEF Pop, Inv, TypeOK
<1> QED
  BY <1>1, <1>2, <1>3, <1>4, WorkerMoves DEF Pop, Inv, TypeOK

LEMMA ReportStartKeeps ==
  ASSUME Inv, NEW w \in Worker, ReportStart(w)
  PROVE  Inv'
<1>1. PICK i \in Job : i = work[w] /\ JobOK(i) /\ i.at = "start"
  BY DEF Inv, TypeOK, JobInv, ReportStart
<1> DEFINE j == [i EXCEPT !.at = "resolve", !.attempt = 1]
<1>2. /\ j \in Job /\ j.at = "resolve" /\ j.sr = i.sr /\ j.inputs = i.inputs
      /\ j.version = i.version
  BY <1>1 DEF Job, Place
<1>3. ServersKeep
  BY <1>1, HandleKeeps DEF ReportStart
<1>4. JobOK(j)'
  BY <1>1, <1>2, <1>3, SameInputs DEF JobOK, ServersKeep, Inv
<1> QED
  BY <1>1, <1>2, <1>3, <1>4, WorkerMoves DEF ReportStart, Inv, TypeOK

LEMMA ResolveInputKeeps ==
  ASSUME Inv, NEW w \in Worker, NEW n \in Name, ResolveInput(w, n)
  PROVE  Inv'
<1>1. PICK i \in Job : /\ i = work[w] /\ JobOK(i)
                      /\ i.at = "resolve" /\ i.sr \in StageRun
  BY DEF Inv, TypeOK, JobInv, JobOK, ResolveInput
<1>2. PICK k \in Nat : k = Wanted(i.sr, n)
  BY <1>1, StageOfRun DEF Inv, TypeOK, Wanted, Versions
<1> DEFINE j == [i EXCEPT !.inputs[n] = k]
<1>3. /\ j \in Job /\ j.at = "resolve" /\ j.sr = i.sr /\ j.version = i.version
      /\ j.inputs[n] = k
      /\ \A m \in Name \ {n} : j.inputs[m] = i.inputs[m]
  BY <1>1, <1>2 DEF Job, Versions
<1>4. ServersKeep
  BY NothingHandled DEF ResolveInput
<1>5. PinsObeyed(j)
  BY <1>1, <1>2, <1>3 DEF JobOK, PinsObeyed, Known, Wanted
<1>6. PinsObeyed(j)'
  BY <1>5 DEF PinsObeyed, ResolveInput, Known
<1>7. JobOK(j)'
  BY <1>1, <1>3, <1>6 DEF JobOK
<1> QED
  BY <1>1, <1>2, <1>3, <1>4, <1>7, WorkerMoves DEF ResolveInput, Inv, TypeOK

LEMMA InputsResolvedKeeps ==
  ASSUME Inv, NEW w \in Worker, InputsResolved(w)
  PROVE  Inv'
<1>1. PICK i \in Job : i = work[w] /\ JobOK(i) /\ i.at = "resolve"
  BY DEF Inv, TypeOK, JobInv, InputsResolved
<1> DEFINE j == [i EXCEPT !.at = "run"]
<1>2. Resolved(i)
  BY <1>1 DEF InputsResolved, Unresolved, Resolved
<1>3. j \in Job /\ j.at = "run" /\ j.sr = i.sr /\ j.inputs = i.inputs
  BY <1>1 DEF Job, Place
<1>4. ServersKeep
  BY NothingHandled DEF InputsResolved
<1>5. JobOK(j)'
  BY <1>1, <1>2, <1>3, <1>4, SameInputs DEF JobOK, ServersKeep, Inv
<1> QED
  BY <1>1, <1>3, <1>4, <1>5, WorkerMoves DEF InputsResolved, Inv, TypeOK

LEMMA SetupFailsKeeps ==
  ASSUME Inv, NEW w \in Worker, SetupFails(w)
  PROVE  Inv'
<1>1. PICK i \in Job : i = work[w] /\ JobOK(i) /\ i.at = "resolve"
  BY DEF Inv, TypeOK, JobInv, SetupFails
<1> DEFINE j == [i EXCEPT !.at = "report", !.error = "setup"]
<1>2. /\ j \in Job /\ j.at = "report" /\ j.sr = i.sr /\ j.inputs = i.inputs
      /\ j.version = i.version
  BY <1>1 DEF Job, Place, Error
<1>3. ServersKeep
  BY NothingHandled DEF SetupFails
<1>4. JobOK(j)'
  BY <1>1, <1>2, <1>3, SameInputs DEF JobOK, ServersKeep, Inv
<1> QED
  BY <1>1, <1>2, <1>3, <1>4, WorkerMoves DEF SetupFails, Inv, TypeOK

LEMMA ExecuteStageKeeps ==
  ASSUME Inv, NEW w \in Worker, ExecuteStage(w)
  PROVE  Inv'
<1>1. PICK i \in Job : i = work[w] /\ JobOK(i) /\ i.at = "run"
  BY DEF Inv, TypeOK, JobInv, ExecuteStage
<1> DEFINE j(ok) == [i EXCEPT !.at = "upload", !.ok = ok]
<1>2. PICK ok \in BOOLEAN : Goto(w, j(ok))
  BY <1>1 DEF ExecuteStage
<1>3. j(ok) \in Job /\ j(ok).at = "upload" /\ j(ok).sr = i.sr /\ j(ok).inputs = i.inputs
  BY <1>1 DEF Job, Place
<1>4. ServersKeep
  BY NothingHandled DEF ExecuteStage
<1>5. JobOK(j(ok))'
  BY <1>1, <1>3, <1>4, SameInputs DEF JobOK, ServersKeep, Inv
<1> QED
  BY <1>1, <1>2, <1>3, <1>4, <1>5, WorkerMoves DEF ExecuteStage, Inv, TypeOK

LEMMA StageRaisesKeeps ==
  ASSUME Inv, NEW w \in Worker, StageRaises(w)
  PROVE  Inv'
<1>1. ServersKeep
  BY NothingHandled DEF StageRaises
<1>2. ErrorSeen \in Error
  BY DEF ErrorSeen, Error
<1>3. \E j \in Job : Goto(w, j) /\ JobOK(j)'
  BY <1>1, <1>2, NextAttemptOK DEF StageRaises, ServersKeep
<1> QED
  BY <1>1, <1>3, WorkerMoves DEF StageRaises, Inv, TypeOK

LEMMA UploadAnsweredKeeps ==
  ASSUME Inv, NEW w \in Worker, UploadAnswered(w)
  PROVE  Inv'
<1>1. PICK i \in Job : i = work[w] /\ JobOK(i) /\ i.at = "upload" /\ i.sr \in StageRun
  BY DEF Inv, TypeOK, JobInv, JobOK, UploadAnswered
<1>2. PICK k \in Nat : k = Len(log[StageOf(i.sr)]) + 1
  BY <1>1, StageOfRun DEF Inv
<1>3. Handle(i, FALSE) /\ UNCHANGED <<message, queue, late, asks, dropped, timeouts>>
  BY <1>1 DEF UploadAnswered
<1>4. ServersKeep
  BY <1>1, <1>3, HandleKeeps
<1>5. \E j \in Job : Goto(w, j) /\ JobOK(j)'
  <2>1. CASE i.ok
    <3> DEFINE j == [i EXCEPT !.at = "link", !.version = k]
    <3>1. /\ j \in Job /\ j.at = "link" /\ j.sr = i.sr /\ j.inputs = i.inputs
          /\ j.version = k
      BY DEF Job, Place
    <3>2. PinsObeyed(j)' /\ Resolved(j)' /\ StageOf(i.sr)' = StageOf(i.sr)
      BY <1>1, <1>4, <3>1, SameInputs DEF JobOK, ServersKeep, Kept, StageOf, Inv
    <3>3. k \in DOMAIN log'[StageOf(i.sr)] /\ log'[StageOf(i.sr)][k] = NewVersion(i)
      BY <1>1, <1>2, <1>3, UploadKeeps DEF Handle, Inv
    <3>4. Recorded(j)'
      BY <1>3, <2>1, <3>1, <3>2, <3>3 DEF Recorded, NewVersion
    <3>5. JobOK(j)'
      BY <1>1, <3>1, <3>2, <3>4 DEF JobOK
    <3>6. Goto(w, j)
      BY <1>1, <1>2, <2>1 DEF UploadAnswered
    <3> QED  BY <3>1, <3>5, <3>6
  <2>2. CASE ~i.ok
    <3>1. NextAttempt(w, "contract") /\ "contract" \in Error
      BY <1>1, <2>2 DEF UploadAnswered, Error
    <3> QED  BY <1>1, <1>4, <3>1, NextAttemptOK DEF ServersKeep
  <2> QED  BY <2>1, <2>2
<1> QED
  BY <1>3, <1>4, <1>5, WorkerMoves DEF Inv, TypeOK

(* Once its inputs are recorded as its dependencies, a version is sound.   *)
LEMMA LinkAnsweredKeeps ==
  ASSUME Inv, NEW w \in Worker, LinkAnswered(w)
  PROVE  Inv'
<1>1. PICK i \in Job : /\ i = work[w] /\ JobOK(i) /\ i.at = "link" /\ i.sr \in StageRun
                      /\ Recorded(i) /\ Resolved(i)
  BY DEF Inv, TypeOK, JobInv, JobOK, LinkAnswered
<1>2. PICK promote \in BOOLEAN : promote = message[i.sr].promote
  BY <1>1, StageOfRun DEF Inv
<1> DEFINE j == [i EXCEPT !.at = IF promote THEN "promote" ELSE "report"]
<1>3. /\ Handle(i, FALSE) /\ UNCHANGED <<message, queue, late, asks, dropped, timeouts>>
      /\ Goto(w, j)
  BY <1>1, <1>2 DEF LinkAnswered
<1>4. ServersKeep
  BY <1>1, <1>3, HandleKeeps
<1>5. /\ j \in Job /\ j.at = IF promote THEN "promote" ELSE "report"
      /\ j.sr = i.sr /\ j.inputs = i.inputs /\ j.version = i.version
  BY DEF Job, Place
<1>6. PinsObeyed(j)' /\ Resolved(j)' /\ StageOf(i.sr)' = StageOf(i.sr)
  BY <1>1, <1>4, <1>5, SameInputs DEF ServersKeep, Kept, StageOf, Inv
<1>7. Recorded(j)'
  <2>1. Recorded(i)'
    BY <1>1, <1>4, RecordedKept DEF ServersKeep, Inv
  <2> QED  BY <1>5, <2>1 DEF Recorded
<1>8. log'[StageOf(i.sr)][i.version].deps = i.inputs
  BY <1>1, <1>3, LinkKeeps DEF Handle, Inv
<1>9. Sound(j.sr, j.version)'
  BY <1>5, <1>6, <1>7, <1>8 DEF Sound, Recorded, PinsObeyed, Resolved, Known
<1>10. JobOK(j)'
  BY <1>1, <1>2, <1>3, <1>5, <1>6, <1>7, <1>9 DEF JobOK
<1> QED
  BY <1>3, <1>4, <1>5, <1>10, WorkerMoves DEF Inv, TypeOK

LEMMA PromoteAnsweredKeeps ==
  ASSUME Inv, NEW w \in Worker, PromoteAnswered(w)
  PROVE  Inv'
<1>1. PICK i \in Job : /\ i = work[w] /\ JobOK(i) /\ i.at = "promote" /\ i.sr \in StageRun
                      /\ Sound(i.sr, i.version)
  BY DEF Inv, TypeOK, JobInv, JobOK, PromoteAnswered
<1> DEFINE j == [i EXCEPT !.at = "report"]
<1>2. /\ Handle(i, FALSE) /\ UNCHANGED <<message, queue, late, asks, dropped, timeouts>>
      /\ Goto(w, j)
  BY <1>1 DEF PromoteAnswered
<1>3. ServersKeep
  BY <1>1, <1>2, HandleKeeps
<1>4. /\ j \in Job /\ j.at = "report"
      /\ j.sr = i.sr /\ j.inputs = i.inputs /\ j.version = i.version
  BY DEF Job, Place
<1>5. PinsObeyed(j)'
  BY <1>1, <1>3, <1>4, SameInputs DEF ServersKeep, Inv
<1>6. Sound(j.sr, j.version)'
  BY <1>1, <1>3, <1>4, SoundKept DEF ServersKeep, Inv
<1>7. PromotedOnce(j.sr, j.version)'
  <2> DEFINE m == [version |-> i.version, by |-> i.sr, late |-> FALSE]
  <2>1. m \in made' /\ m.version = j.version /\ m.by = j.sr
    BY <1>1, <1>2, <1>4, PromoteKeeps DEF Handle, Inv
  <2> QED  BY <2>1 DEF PromotedOnce
<1>8. JobOK(j)'
  BY <1>1, <1>4, <1>5, <1>6, <1>7 DEF JobOK
<1> QED
  BY <1>2, <1>3, <1>4, <1>8, WorkerMoves DEF Inv, TypeOK

LEMMA ReportOutcomeKeeps ==
  ASSUME Inv, NEW w \in Worker, ReportOutcome(w)
  PROVE  Inv'
<1>1. PICK i \in Job : i = work[w] /\ JobOK(i)
  BY DEF Inv, TypeOK, JobInv
<1>2. /\ Handle(i, FALSE) /\ UNCHANGED <<message, queue, late, asks, dropped, timeouts>>
      /\ Goto(w, Idle)
  BY <1>1 DEF ReportOutcome
<1>3. ServersKeep
  BY <1>1, <1>2, HandleKeeps
<1> QED
  BY <1>2, <1>3, IdleOK, WorkerMoves DEF Inv, TypeOK

(* The worker goes on without the call's effect, or before it.             *)
LEMMA CallRaisesOK ==
  ASSUME Inv, Kept, NEW w \in Worker, work[w].at \in Calls, CallRaises(w)
  PROVE  /\ \E j \in Job : Goto(w, j) /\ JobOK(j)'
         /\ dropped' \subseteq StageRun
<1>1. work[w] \in Job /\ JobOK(work[w])
  BY DEF Inv, TypeOK, JobInv
<1>2. CASE work[w].at \in {"start", "report"}
  <2>1. Goto(w, Idle) /\ dropped' = dropped \cup {work[w].sr}
    BY <1>2 DEF CallRaises
  <2> QED  BY <1>1, <1>2, <2>1, IdleOK DEF JobOK, Inv, TypeOK
<1>3. CASE work[w].at \notin {"start", "report"}
  <2>1. NextAttempt(w, "unanswered") /\ dropped' = dropped /\ "unanswered" \in Error
    BY <1>3 DEF CallRaises, Error
  <2>2. work[w].at \in {"run", "upload", "link", "promote"}
    BY <1>3 DEF Calls
  <2> QED  BY <2>1, <2>2, NextAttemptOK DEF Inv, TypeOK
<1> QED  BY <1>2, <1>3

LEMMA CallRefusedKeeps ==
  ASSUME Inv, NEW w \in Worker, CallRefused(w)
  PROVE  Inv'
<1>1. ServersKeep
  BY NothingHandled DEF CallRefused
<1>2. /\ \E j \in Job : Goto(w, j) /\ JobOK(j)'
      /\ dropped' \subseteq StageRun
  BY <1>1, CallRaisesOK DEF CallRefused, ServersKeep
<1> QED
  BY <1>1, <1>2, WorkerMoves DEF CallRefused, Inv, TypeOK

LEMMA CallTimesOutKeeps ==
  ASSUME Inv, NEW w \in Worker, CallTimesOut(w)
  PROVE  Inv'
<1>1. ServersKeep
  BY NothingHandled DEF CallTimesOut
<1>2. /\ \E j \in Job : Goto(w, j) /\ JobOK(j)'
      /\ dropped' \subseteq StageRun
  BY <1>1, CallRaisesOK DEF CallTimesOut, ServersKeep
<1>3. late' = late \cup {work[w]} /\ timeouts' \in Nat /\ UNCHANGED <<queue, asks>>
  BY DEF CallTimesOut, Inv, TypeOK
<1> QED
  BY <1>1, <1>2, <1>3, WorkerMoves DEF Inv, TypeOK

LEMMA DiesKeeps ==
  ASSUME Inv, NEW w \in Worker, Dies(w)
  PROVE  Inv'
<1>1. ServersKeep
  BY NothingHandled DEF Dies
<1>2. work[w].sr \in StageRun
  BY DEF Dies, Inv, JobInv, JobOK
<1>3. dropped' \subseteq StageRun
  BY <1>2 DEF Dies, Inv, TypeOK
<1> QED
  BY <1>1, <1>3, IdleOK, WorkerMoves DEF Dies, Inv, TypeOK

(* The steps in which no worker moves.                                     *)
LEMMA WorkersStay ==
  ASSUME Inv, ServersKeep, UNCHANGED <<queue, work, dropped, timeouts>>, late' \subseteq late,
         asks' \subseteq Name \X Nat
  PROVE  Inv'
<1> USE DEF Inv
<1>1. TypeOK'
  BY DEF TypeOK, ServersKeep, HandleTypes, Kept
<1>2. Kept
  BY DEF ServersKeep
<1>3. ASSUME NEW w \in Worker PROVE JobOK(work[w])'
  <2>1. PICK i \in Job : i = work[w] /\ JobOK(i)
    BY DEF TypeOK, JobInv
  <2>2. JobOK(i)'
    BY <1>2, <2>1, JobKept
  <2>3. i = work'[w]
    BY <2>1
  <2> QED  BY <2>2, <2>3 DEF JobOK, PinsObeyed, Resolved, Recorded, Sound, PromotedOnce
<1>4. ASSUME NEW i \in late' PROVE JobOK(i)'
  BY <1>2, <1>4, JobKept DEF TypeOK, JobInv
<1> QED
  BY <1>1, <1>3, <1>4 DEF JobInv, ServersKeep

LEMMA HandleLateKeeps ==
  ASSUME Inv, NEW j \in late, HandleLate(j)
  PROVE  Inv'
<1>1. j \in Job /\ JobOK(j)
  BY DEF Inv, TypeOK, JobInv
<1>2. ServersKeep
  BY <1>1, HandleKeeps DEF HandleLate
<1> QED
  BY <1>2, WorkersStay DEF HandleLate, Inv, TypeOK

LEMMA PeopleKeep ==
  ASSUME Inv, NEW n \in Name, NEW ok \in BOOLEAN, NEW promote \in BOOLEAN, NEW k,
         \/ ResourceUpload(n, ok, promote)
         \/ PromoteUploaded(n, k)
         \/ k \in DOMAIN log[n] /\ ConfirmPromote(n, k)
  PROVE  Inv'
<1>1. CASE ResourceUpload(n, ok, promote)
  <2>1. Uploaded(ok, promote) \in Version
    BY DEF Uploaded, Version, NoVersions, Versions
  <2>2. HandleTypes /\ Kept
    BY <1>1, <2>1, AppendKeeps DEF ResourceUpload, HandleTypes, Kept, Inv, TypeOK
  <2>3. ServersKeep
    BY <1>1, <2>2, PromotionsStaySound, OutcomesStaySound
       DEF ResourceUpload, ServersKeep, HandleTypes, Inv
  <2>4. asks' \subseteq Name \X Nat
    BY <1>1 DEF ResourceUpload, Inv, TypeOK
  <2> QED  BY <1>1, <2>3, <2>4, WorkersStay DEF ResourceUpload
<1>2. CASE \/ PromoteUploaded(n, k)
           \/ k \in DOMAIN log[n] /\ ConfirmPromote(n, k)
  <2>1. k \in Nat
    BY <1>2 DEF PromoteUploaded, Inv, TypeOK
  <2>2. /\ UNCHANGED <<message, queue, report, log, work, late, made, dropped, timeouts>>
        /\ current' = [current EXCEPT ![n] = k] /\ asks' \subseteq asks
    BY <1>2 DEF PromoteUploaded, ConfirmPromote
  <2>3. HandleTypes /\ Kept
    BY <2>1, <2>2 DEF HandleTypes, Kept, LogKept, Inv, TypeOK
  <2>4. ServersKeep
    BY <2>2, <2>3, PromotionsStaySound, OutcomesStaySound DEF ServersKeep, HandleTypes, Inv
  <2> QED  BY <2>2, <2>4, WorkersStay DEF Inv, TypeOK
<1> QED  BY <1>1, <1>2

LEMMA StepKeeps ==
  ASSUME Inv, NEW w \in Worker, Step(w)
  PROVE  Inv'
BY PopKeeps, ReportStartKeeps, ResolveInputKeeps, InputsResolvedKeeps, SetupFailsKeeps,
   ExecuteStageKeeps, StageRaisesKeeps, UploadAnsweredKeeps, LinkAnsweredKeeps,
   PromoteAnsweredKeeps, ReportOutcomeKeeps DEF Step

LEMMA NextKeeps ==
  ASSUME Inv, Next
  PROVE  Inv'
<1>1. CASE \E w \in Worker : Step(w) \/ CallRefused(w) \/ CallTimesOut(w) \/ Dies(w)
  BY <1>1, StepKeeps, CallRefusedKeeps, CallTimesOutKeeps, DiesKeeps
<1>2. CASE \E j \in late : HandleLate(j)
  BY <1>2, HandleLateKeeps
<1>3. CASE People
  BY <1>3, PeopleKeep DEF People
<1> QED
  BY <1>1, <1>2, <1>3 DEF Next

LEMMA InitInv ==
  ASSUME Init
  PROVE  Inv
<1>1. Uploaded(TRUE, TRUE) \in Version /\ NoVersions \in Versions
  BY DEF Uploaded, Version, NoVersions, Versions
<1>2. PICK P \in Preloads :
        /\ log = [n \in Name |-> IF n \in P THEN <<Uploaded(TRUE, TRUE)>> ELSE <<>>]
        /\ current = [n \in Name |-> IF n \in P THEN 1 ELSE 0]
  BY DEF Init
<1>3. log \in [Name -> Seq(Version)] /\ current \in [Name -> Nat]
  <2>1. <<Uploaded(TRUE, TRUE)>> \in Seq(Version) /\ <<>> \in Seq(Version)
    <3>1. PICK v \in Version : v = Uploaded(TRUE, TRUE)
      BY <1>1
    <3>2. <<v>> \in Seq(Version) /\ <<>> \in Seq(Version)
      OBVIOUS
    <3> QED  BY <3>1, <3>2
  <2> QED  BY <1>2, <2>1
<1>4. queue \in [StageRun -> Nat]
  BY WorkerAssumption DEF Init, MessageType
<1>5. report \in [StageRun -> Row]
  BY DEF Init, Row, Status
<1>6. Idle \in Job /\ Idle.at = "idle"
  BY IdleOK DEF Idle
<1>7. TypeOK
  BY <1>3, <1>4, <1>5, <1>6 DEF Init, TypeOK
<1>8. JobInv
  BY <1>6 DEF Init, JobInv, JobOK
<1>9. PromotedIsSound /\ CompletedIsSound
  BY DEF Init, PromotedIsSound, CompletedIsSound
<1> QED  BY <1>7, <1>8, <1>9 DEF Inv

-----------------------------------------------------------------------------
(* The invariant of run_stage and of the calls it has left behind.         *)
THEOREM WorkerInvariant == Spec => []Inv
<1>1. Init => Inv
  BY InitInv
<1>2. Inv /\ [Next]_vars => Inv'
  <2> SUFFICES ASSUME Inv, [Next]_vars PROVE Inv'
    OBVIOUS
  <2>1. CASE Next
    BY <2>1, NextKeeps
  <2>2. CASE UNCHANGED vars
    <3>1. ServersKeep
      BY <2>2, NothingHandled DEF vars
    <3> QED  BY <2>2, <3>1, WorkersStay DEF vars, Inv, TypeOK
  <2> QED  BY <2>1, <2>2
<1> QED  BY <1>1, <1>2, PTL DEF Spec

(* Every variable keeps its type.                                          *)
THEOREM TypesHold == Spec => []TypeOK
<1>1. Inv => TypeOK
  BY DEF Inv
<1> QED  BY <1>1, WorkerInvariant, PTL

(* Runner.run_stage and promote of resource_store: only sound versions are *)
(* made current by stage runs, and only in runs that promote.              *)
THEOREM OnlySoundIsPromoted == Spec => []PromotedIsSound
<1>1. Inv => PromotedIsSound
  BY DEF Inv
<1> QED  BY <1>1, WorkerInvariant, PTL

(* complete_stage_run: a completed stage run names a sound version of its  *)
(* own, which it has promoted if its run promotes.                         *)
THEOREM OnlySoundIsCompleted == Spec => []CompletedIsSound
<1>1. Inv => CompletedIsSound
  BY DEF Inv
<1> QED  BY <1>1, WorkerInvariant, PTL
=============================================================================
