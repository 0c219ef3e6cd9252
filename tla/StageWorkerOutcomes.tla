-------------------------- MODULE StageWorkerOutcomes --------------------------
(***************************************************************************)
(* Proofs about StageWorker: what a stage run's executions leave behind.   *)
(* Of a message that is queued once, its outcome is final although reports *)
(* may be handled late, its attempts are computed from the same inputs     *)
(* although these may be promoted over, and what was promoted is reported. *)
(* Of any number of copies, the attempts account for the versions.         *)
(***************************************************************************)
EXTENDS StageWorkerProofs, FiniteSetTheorems

On(w, r) == work[w].at # "idle" /\ work[w].sr = r
Reporting(j) == j.at \in {"start", "report"}
Computed(j) == j.at \in {"run", "upload", "link", "promote"}
HasOutcome(r) == report[r].status \in {"completed", "failed"}

(* Nothing has been computed for r.                                        *)
Fresh(r) ==
  /\ \A j \in late : j.sr = r => ~Computed(j)
  /\ VersionsBy(r) = {}

(* All that was or will be computed for r has the inputs f.                *)
Uses(r, f) ==
  /\ \A w \in Worker : On(w, r) /\ Computed(work[w]) => work[w].inputs = f
  /\ \A j \in late : j.sr = r /\ Computed(j) => j.inputs = f
  /\ \A k \in VersionsBy(r) : log[StageOf(r)][k].read = f

(* One worker has the message, or the list has it and nothing has happened *)
(* yet; a report that is still to be handled is the last thing that will.  *)
OnceOf(r) ==
  /\ \/ queue[r] = 0
     \/ /\ queue[r] = 1 /\ Fresh(r) /\ ~HasOutcome(r)
        /\ \A w \in Worker : ~On(w, r)
        /\ \A j \in late : j.sr # r
  /\ \A v, w \in Worker : On(v, r) /\ On(w, r) => v = w
  /\ \A w \in Worker : On(w, r) => ~HasOutcome(r)
  /\ \A w \in Worker : On(w, r) => \A j \in late : j.sr = r => ~Reporting(j)
  /\ \A w \in Worker : On(w, r) /\ work[w].at \in {"start", "resolve"} => Fresh(r)
  /\ \A i, j \in late : i.sr = r /\ j.sr = r /\ Reporting(i) /\ Reporting(j) => i = j
  /\ \A j \in late : j.sr = r /\ Reporting(j) => ~HasOutcome(r)
  /\ \E f \in Versions : Uses(r, f)

OnceInv == \A r \in StageRun : message[r].copies = 1 => OnceOf(r)

-----------------------------------------------------------------------------
(* What a step may do to the versions of r and to its row.                 *)
VersionsStay(r) ==
  \A k \in VersionsBy(r)' :
    k \in VersionsBy(r) /\ log'[StageOf(r)][k].read = log[StageOf(r)][k].read

(* A step that concerns another stage run.                                 *)
LEMMA OthersKeep ==
  ASSUME Inv, NEW r \in StageRun, OnceOf(r), message' = message, VersionsStay(r),
         \A w \in Worker : On(w, r)' => On(w, r) /\ work'[w] = work[w],
         \A j \in late' : j.sr = r => j \in late,
         report'[r] = report[r], queue'[r] = queue[r]
  PROVE  OnceOf(r)'
<1>1. StageOf(r)' = StageOf(r) /\ HasOutcome(r)' = HasOutcome(r)
  BY DEF StageOf, HasOutcome
<1>2. VersionsBy(r)' \subseteq VersionsBy(r)
  BY DEF VersionsStay
<1>3. Fresh(r) => Fresh(r)'
  BY <1>2 DEF Fresh, Computed
<1>4. ASSUME NEW f, Uses(r, f) PROVE Uses(r, f)'
  <2>1. \A w \in Worker : On(w, r)' /\ Computed(work'[w]) => work'[w].inputs = f
    BY <1>4 DEF Uses, Computed
  <2>2. \A j \in late' : j.sr = r /\ Computed(j) => j.inputs = f
    BY <1>4 DEF Uses
  <2>3. \A k \in VersionsBy(r)' : log'[StageOf(r)][k].read = f
    BY <1>4 DEF Uses, VersionsStay
  <2> QED  BY <1>1, <2>1, <2>2, <2>3 DEF Uses, Computed, On
<1>5. \E f \in Versions : Uses(r, f)'
  BY <1>4 DEF OnceOf
<1>6. \/ queue'[r] = 0
      \/ /\ queue'[r] = 1 /\ Fresh(r)' /\ ~HasOutcome(r)'
         /\ \A w \in Worker : ~On(w, r)'
         /\ \A j \in late' : j.sr # r
  BY <1>1, <1>3 DEF OnceOf
<1>7. /\ \A v, w \in Worker : On(v, r)' /\ On(w, r)' => v = w
      /\ \A w \in Worker : On(w, r)' => ~HasOutcome(r)'
      /\ \A w \in Worker : On(w, r)' => \A j \in late' : j.sr = r => ~Reporting(j)
      /\ \A w \in Worker : On(w, r)' /\ work'[w].at \in {"start", "resolve"} => Fresh(r)'
  BY <1>1, <1>3 DEF OnceOf
<1>8. /\ \A i, j \in late' :
           i.sr = r /\ j.sr = r /\ Reporting(i) /\ Reporting(j) => i = j
      /\ \A j \in late' : j.sr = r /\ Reporting(j) => ~HasOutcome(r)'
  BY <1>1 DEF OnceOf
<1> QED
  BY <1>5, <1>6, <1>7, <1>8 DEF OnceOf, Reporting

(* A step of the worker that has r: its new locals are j.                  *)
Moves(w, i, j, r) ==
  /\ Goto(w, j) /\ UNCHANGED <<message, queue>>
  /\ j.at = "idle" \/ j.sr = r
  /\ \A l \in late' : l \in late \/ l = i
  /\ \A k \in VersionsBy(r)' :
       \/ k \in VersionsBy(r) /\ log'[StageOf(r)][k].read = log[StageOf(r)][k].read
       \/ Computed(i) /\ log'[StageOf(r)][k].read = i.inputs
  /\ HasOutcome(r)' => \/ HasOutcome(r)
                       \/ j.at = "idle" /\ late' = late
  /\ Reporting(i) /\ late' # late => j.at = "idle"
  /\ j.at \in {"start", "resolve"} =>
       i.at \in {"start", "resolve"} /\ late' = late
  /\ Computed(j) => \/ Computed(i) /\ j.inputs = i.inputs
                    \/ i.at = "resolve" /\ late' = late

LEMMA MoverKeeps ==
  ASSUME Inv, NEW r \in StageRun, OnceOf(r), NEW w \in Worker, On(w, r),
         NEW i \in Job, i = work[w], NEW j \in Job, Moves(w, i, j, r)
  PROVE  OnceOf(r)'
<1>1. /\ work'[w] = j /\ \A v \in Worker \ {w} : work'[v] = work[v]
      /\ StageOf(r)' = StageOf(r)
  BY DEF Moves, Goto, Inv, TypeOK, StageOf
<1>2. queue[r] = 0 /\ queue'[r] = 0
  BY DEF OnceOf, Moves
<1>3. ~HasOutcome(r) /\ \A l \in late : l.sr = r => ~Reporting(l)
  BY DEF OnceOf
<1>4. \A v \in Worker : On(v, r)' => v = w /\ j.at # "idle"
  BY <1>1 DEF OnceOf, On
<1>5. \A l \in late' : l.sr = r /\ Reporting(l) => l = i /\ late' # late /\ j.at = "idle"
  BY <1>3 DEF Moves
<1>6. \A v \in Worker : On(v, r)' => ~HasOutcome(r)'
  BY <1>3, <1>4 DEF Moves
<1>7. \A v \in Worker : On(v, r)' => \A l \in late' : l.sr = r => ~Reporting(l)
  BY <1>4, <1>5
<1>8. \A l \in late' : l.sr = r /\ Reporting(l) => ~HasOutcome(r)'
  BY <1>3, <1>5 DEF Moves
<1>9. ASSUME i.at \in {"start", "resolve"}, late' = late PROVE Fresh(r)'
  <2>1. Fresh(r) /\ ~Computed(i)
    BY <1>9 DEF OnceOf, Computed
  <2>2. VersionsBy(r)' = {}
    BY <2>1 DEF Moves, Fresh
  <2> QED  BY <1>9, <2>1, <2>2 DEF Fresh
<1>10. \A v \in Worker : On(v, r)' /\ work'[v].at \in {"start", "resolve"} => Fresh(r)'
  BY <1>1, <1>4, <1>9 DEF Moves
<1>11. \E f \in Versions : Uses(r, f)'
  <2>1. CASE Computed(j) /\ i.at = "resolve" /\ late' = late
    <3>1. Fresh(r)'
      BY <1>9, <2>1
    <3>2. Uses(r, j.inputs)'
      BY <1>1, <1>4, <3>1 DEF Uses, Fresh
    <3> QED  BY <3>2, JobFields
  <2>2. CASE ~(Computed(j) /\ i.at = "resolve" /\ late' = late)
    <3>1. PICK f \in Versions : Uses(r, f)
      BY DEF OnceOf
    <3>2. Computed(i) => i.inputs = f
      BY <3>1 DEF Uses
    <3>3. \A v \in Worker : On(v, r)' /\ Computed(work'[v]) => work'[v].inputs = f
      BY <1>1, <1>4, <2>2, <3>2 DEF Moves
    <3>4. \A l \in late' : l.sr = r /\ Computed(l) => l.inputs = f
      BY <3>1, <3>2 DEF Moves, Uses
    <3>5. \A k \in VersionsBy(r)' : log'[StageOf(r)][k].read = f
      BY <3>1, <3>2 DEF Moves, Uses
    <3>6. Uses(r, f)'
      BY <1>1, <3>3, <3>4, <3>5 DEF Uses, Computed
    <3> QED  BY <3>6
  <2> QED  BY <2>1, <2>2
<1>12. \A v, u \in Worker : On(v, r)' /\ On(u, r)' => v = u
  BY <1>4
<1>13. \A l, m \in late' : l.sr = r /\ m.sr = r /\ Reporting(l) /\ Reporting(m) => l = m
  BY <1>5
<1> QED
  BY <1>2, <1>6, <1>7, <1>8, <1>10, <1>11, <1>12, <1>13 DEF OnceOf, Reporting

(* A worker that moves disturbs no other stage run.                        *)
LEMMA WorkerOnce ==
  ASSUME Inv, OnceInv, NEW w \in Worker, NEW i \in Job, i = work[w], i.at # "idle",
         NEW j \in Job, Moves(w, i, j, i.sr),
         \A r \in StageRun \ {i.sr} : VersionsStay(r) /\ report'[r] = report[r]
  PROVE  OnceInv'
<1>1. message' = message /\ queue' = queue
  BY DEF Moves
<1>2. work'[w] = j /\ \A v \in Worker \ {w} : work'[v] = work[v]
  BY DEF Moves, Goto, Inv, TypeOK
<1>3. ASSUME NEW r \in StageRun, message[r].copies = 1 PROVE OnceOf(r)'
  <2>1. OnceOf(r)
    BY <1>3 DEF OnceInv
  <2>2. CASE r = i.sr
    BY <2>1, <2>2, MoverKeeps DEF On
  <2>3. CASE r # i.sr
    <3>1. \A v \in Worker : On(v, r)' => On(v, r) /\ work'[v] = work[v]
      BY <1>2, <2>3 DEF Moves, On
    <3>2. \A l \in late' : l.sr = r => l \in late
      BY <2>3 DEF Moves
    <3> QED  BY <1>1, <2>1, <2>3, <3>1, <3>2, OthersKeep
  <2> QED  BY <2>2, <2>3
<1> QED  BY <1>1, <1>3 DEF OnceInv

(* A step of the servers or of people alone.                               *)
LEMMA NoWorkerOnce ==
  ASSUME Inv, OnceInv, UNCHANGED <<message, queue, work, report>>, late' \subseteq late,
         \A r \in StageRun : VersionsStay(r)
  PROVE  OnceInv'
<1>1. ASSUME NEW r \in StageRun, message[r].copies = 1 PROVE OnceOf(r)'
  <2>1. OnceOf(r)
    BY <1>1 DEF OnceInv
  <2>2. \A v \in Worker : On(v, r)' => On(v, r) /\ work'[v] = work[v]
    BY DEF On
  <2> QED  BY <2>1, <2>2, OthersKeep
<1> QED  BY <1>1 DEF OnceInv

LEMMA SameLog ==
  ASSUME UNCHANGED <<log, message>>, NEW r \in StageRun
  PROVE  VersionsStay(r)
BY DEF VersionsStay, VersionsBy, StageOf

(* A step that keeps the log, but for a version of by's, or nobody's.      *)
LEMMA OneMore ==
  ASSUME TypeOK, NEW n \in Name, NEW v \in Version, RecordVersion(n, v), message' = message,
         NEW r \in StageRun
  PROVE  \A k \in VersionsBy(r)' :
           \/ k \in VersionsBy(r) /\ log'[StageOf(r)][k].read = log[StageOf(r)][k].read
           \/ v.by = r /\ log'[StageOf(r)][k].read = v.read
<1>1. StageOf(r) \in Name /\ StageOf(r)' = StageOf(r)
  BY StageOfRun DEF StageOf
<1>2. log[n] \in Seq(Version) /\ log' = [log EXCEPT ![n] = Append(log[n], v)]
  BY DEF TypeOK, RecordVersion
<1>3. log'[n] = Append(log[n], v) /\ \A m \in Name \ {n} : log'[m] = log[m]
  BY <1>2 DEF TypeOK
<1>4. \A k \in DOMAIN log'[n] :
        \/ k \in DOMAIN log[n] /\ log'[n][k] = log[n][k]
        \/ log'[n][k] = v
  BY <1>2, <1>3
<1> QED
  BY <1>1, <1>3, <1>4 DEF VersionsBy

(* What handling a call does to the rows and the versions.                 *)
LEMMA HandleOnly ==
  ASSUME Inv, NEW j \in Job, JobOK(j), NEW b \in BOOLEAN, Handle(j, b), message' = message
  PROVE  /\ j.sr \in StageRun
         /\ \A r \in StageRun \ {j.sr} : VersionsStay(r) /\ report'[r] = report[r]
         /\ \A k \in VersionsBy(j.sr)' :
              \/ /\ k \in VersionsBy(j.sr)
                 /\ log'[StageOf(j.sr)][k].read = log[StageOf(j.sr)][k].read
              \/ j.at = "upload" /\ log'[StageOf(j.sr)][k].read = j.inputs
         /\ j.at = "start" => ~HasOutcome(j.sr)'
         /\ ~Reporting(j) => report' = report
<1>1. j.sr \in StageRun
  BY DEF JobOK, Handle
<1>2. CASE Reporting(j)
  <2>1. MarkRunning(j) \/ MarkOutcome(j)
    BY <1>2 DEF Handle, Reporting
  <2>2. log' = log
    BY <2>1 DEF MarkRunning, MarkOutcome
  <2>3. \A r \in StageRun : VersionsStay(r)
    BY <2>2, SameLog
  <2>4. \A r \in StageRun \ {j.sr} : report'[r] = report[r]
    BY <1>1, <2>1, ReportKeeps DEF Inv
  <2>5. j.at = "start" => ~HasOutcome(j.sr)'
    BY <1>1, ReportKeeps DEF Handle, HasOutcome, Inv
  <2> QED  BY <1>1, <1>2, <2>3, <2>4, <2>5 DEF VersionsStay
<1>3. CASE j.at = "upload"
  <2>1. StageOf(j.sr) \in Name /\ message[j.sr].promote \in BOOLEAN
    BY <1>1, StageOfRun DEF Inv
  <2>2. NewVersion(j) \in Version /\ NewVersion(j).by = j.sr /\ NewVersion(j).read = j.inputs
    BY <1>1, <2>1, JobFields DEF NewVersion, Version, NoVersions, Versions
  <2>3. RecordVersion(StageOf(j.sr), NewVersion(j)) /\ report' = report
    BY <1>3 DEF Handle, Upload, NewVersion
  <2> QED
    BY <1>1, <1>3, <2>1, <2>2, <2>3, OneMore DEF VersionsStay, Reporting, Inv
<1>4. CASE j.at \in {"link", "promote"}
  <2>1. report' = report
    BY <1>4 DEF Handle, UpdateDependencies, Promote
  <2>2. \A r \in StageRun : VersionsStay(r)
    <3>1. CASE j.at = "promote"
      BY <3>1, SameLog DEF Handle, Promote
    <3>2. CASE j.at = "link"
      <4>1. LogKept
        BY <1>1, <3>2, LinkKeeps DEF Handle, JobOK, Kept, Inv
      <4>2. \A n \in Name : DOMAIN log'[n] = DOMAIN log[n]
        BY <1>1, <3>2, StageOfRun DEF Handle, UpdateDependencies, Inv, TypeOK
      <4>3. ASSUME NEW r \in StageRun PROVE StageOf(r) \in Name /\ StageOf(r)' = StageOf(r)
        BY StageOfRun DEF StageOf, Inv
      <4> QED  BY <4>1, <4>2, <4>3 DEF VersionsStay, VersionsBy, LogKept
    <3> QED  BY <1>4, <3>1, <3>2
  <2> QED  BY <1>1, <1>4, <2>1, <2>2 DEF VersionsStay, Reporting
<1> QED
  BY <1>2, <1>3, <1>4 DEF Handle, Reporting

(* A worker whose call is answered.                                        *)
LEMMA AnsweredOnce ==
  ASSUME Inv, OnceInv, NEW w \in Worker, NEW i \in Job, i = work[w],
         Handle(i, FALSE), UNCHANGED <<message, queue, late>>,
         NEW j \in Job, Goto(w, j), j.at = "idle" \/ j.sr = i.sr,
         i.at = "report" => j.at = "idle",
         j.at \in {"start", "resolve"} => i.at \in {"start", "resolve"},
         Computed(j) => Computed(i) /\ j.inputs = i.inputs
  PROVE  OnceInv'
<1>1. JobOK(i) /\ i.at # "idle"
  BY DEF Inv, JobInv, Handle
<1>2. HasOutcome(i.sr)' => HasOutcome(i.sr) \/ j.at = "idle"
  BY <1>1, HandleOnly DEF HasOutcome, Reporting
<1>3. Moves(w, i, j, i.sr)
  BY <1>1, <1>2, HandleOnly DEF Moves, Computed
<1> QED
  BY <1>1, <1>3, HandleOnly, WorkerOnce

(* A worker that goes on without an answer.                                *)
LEMMA UnansweredOnce ==
  ASSUME Inv, OnceInv, NEW w \in Worker, NEW i \in Job, i = work[w], i.at # "idle",
         UNCHANGED <<message, queue, report, log>>,
         NEW j \in Job, Goto(w, j), j.at = "idle" \/ j.sr = i.sr,
         \/ late' = late
         \/ /\ late' = late \cup {i} /\ j.at \notin {"start", "resolve"}
            /\ Reporting(i) => j.at = "idle",
         j.at \in {"start", "resolve"} => i.at \in {"start", "resolve"},
         Computed(j) => \/ Computed(i) /\ j.inputs = i.inputs
                        \/ i.at = "resolve" /\ late' = late
  PROVE  OnceInv'
<1>1. i.sr \in StageRun
  BY DEF Inv, JobInv, JobOK
<1>2. \A r \in StageRun : VersionsStay(r) /\ report'[r] = report[r]
  BY SameLog
<1>3. HasOutcome(i.sr)' => HasOutcome(i.sr)
  BY DEF HasOutcome
<1>4. /\ \A l \in late' : l \in late \/ l = i
      /\ Reporting(i) /\ late' # late => j.at = "idle"
      /\ j.at \in {"start", "resolve"} => late' = late
  OBVIOUS
<1>5. Moves(w, i, j, i.sr)
  BY <1>1, <1>2, <1>3, <1>4 DEF Moves, VersionsStay
<1> QED
  BY <1>2, <1>5, WorkerOnce

(* The next attempt, or the report that there is none.                     *)
LEMMA NextAttemptFields ==
  ASSUME Inv, NEW w \in Worker, NEW e \in Error, NextAttempt(w, e),
         Computed(work[w])
  PROVE  LET i == work[w] IN
         \E j \in Job :
           /\ Goto(w, j) /\ j.sr = i.sr /\ j.inputs = i.inputs /\ j.at \in {"run", "report"}
           /\ j.at = "run" =>
                i.attempt # Retries[StageOf(i.sr)] + 1 /\ j.attempt = i.attempt + 1
           /\ j.at = "report" => j.attempt = i.attempt
<1>1. PICK i \in Job : i = work[w]
  BY DEF Inv, TypeOK
<1>2. PICK last \in BOOLEAN : last = (i.attempt = Retries[StageOf(i.sr)] + 1)
  OBVIOUS
<1> DEFINE at == IF last THEN "report" ELSE "run"
           attempt == IF last THEN i.attempt ELSE i.attempt + 1
           error == IF last THEN e ELSE None
           j == [i EXCEPT !.at = at, !.attempt = attempt, !.error = error,
                          !.version = 0, !.ok = FALSE]
<1>3. /\ at \in {"report", "run"} /\ attempt \in Nat /\ error \in Error \cup {None}
      /\ at = "run" => i.attempt # Retries[StageOf(i.sr)] + 1 /\ attempt = i.attempt + 1
      /\ at = "report" => attempt = i.attempt
  <2>1. i.attempt \in Nat
    BY JobFields
  <2>2. CASE last
    BY <2>1, <2>2
  <2>3. CASE ~last
    <3>1. i.attempt # Retries[StageOf(i.sr)] + 1
      BY <1>2, <2>3
    <3>2. at = "run" /\ attempt = i.attempt + 1 /\ error = None
      BY <2>3
    <3> QED  BY <2>1, <3>1, <3>2
  <2> QED  BY <2>2, <2>3
<1> HIDE DEF at, attempt, error
<1>4. /\ j \in Job /\ j.at = at /\ j.sr = i.sr /\ j.inputs = i.inputs /\ j.attempt = attempt
  BY <1>3 DEF Job, Place
<1>5. Goto(w, j)
  BY <1>1, <1>2 DEF NextAttempt, Goto, at, attempt, error
<1> QED  BY <1>1, <1>3, <1>4, <1>5

LEMMA PopOnce ==
  ASSUME Inv, OnceInv, NEW w \in Worker, NEW r \in StageRun, Pop(w, r)
  PROVE  OnceInv'
<1> DEFINE j == [Idle EXCEPT !.at = "start", !.sr = r]
<1>1. j.at = "start" /\ j.sr = r
  BY DEF Idle
<1>2. /\ work'[w] = j /\ \A v \in Worker \ {w} : work'[v] = work[v]
      /\ UNCHANGED <<message, report, log, late>>
      /\ \A q \in StageRun \ {r} : queue'[q] = queue[q]
      /\ queue'[r] = queue[r] - 1 /\ queue[r] > 0
      /\ work[w].at = "idle"
  BY DEF Pop, Goto, Inv, TypeOK
<1>3. ASSUME NEW q \in StageRun, message[q].copies = 1 PROVE OnceOf(q)'
  <2>1. OnceOf(q)
    BY <1>3 DEF OnceInv
  <2>2. CASE q # r
    <3>1. \A v \in Worker : On(v, q)' => On(v, q) /\ work'[v] = work[v]
      BY <1>1, <1>2, <2>2 DEF On
    <3> QED  BY <1>2, <2>1, <2>2, <3>1, SameLog, OthersKeep
  <2>3. CASE q = r
    <3>1. /\ queue'[r] = 0 /\ Fresh(r) /\ ~HasOutcome(r)
          /\ \A v \in Worker : ~On(v, r)
          /\ \A l \in late : l.sr # r
      BY <1>2, <2>1, <2>3 DEF OnceOf
    <3>2. \A v \in Worker : On(v, r)' => v = w
      BY <1>2, <3>1 DEF On
    <3>3. Fresh(r)' /\ ~HasOutcome(r)'
      BY <1>2, <3>1 DEF Fresh, HasOutcome, VersionsBy, StageOf
    <3>4. Uses(r, NoVersions)'
      BY <1>1, <1>2, <3>1, <3>2, <3>3 DEF Uses, Fresh, Computed
    <3>5. NoVersions \in Versions
      BY DEF NoVersions, Versions
    <3> QED
      BY <1>2, <2>3, <3>1, <3>2, <3>3, <3>4, <3>5 DEF OnceOf
  <2> QED  BY <2>2, <2>3
<1> QED  BY <1>2, <1>3 DEF OnceInv

LEMMA AnswersOnce ==
  ASSUME Inv, OnceInv, NEW w \in Worker,
         \/ ReportStart(w) \/ UploadAnswered(w) \/ LinkAnswered(w)
         \/ PromoteAnswered(w) \/ ReportOutcome(w)
  PROVE  OnceInv'
<1>1. PICK i \in Job : i = work[w] /\ JobOK(i)
  BY DEF Inv, TypeOK, JobInv
<1>2. CASE ReportStart(w)
  <2> DEFINE j == [i EXCEPT !.at = "resolve", !.attempt = 1]
  <2>1. j \in Job /\ j.at = "resolve" /\ j.sr = i.sr
    BY DEF Job, Place
  <2> QED  BY <1>1, <1>2, <2>1, AnsweredOnce DEF ReportStart, Computed
<1>3. CASE UploadAnswered(w)
  <2>1. PICK j \in Job : /\ Goto(w, j) /\ j.sr = i.sr /\ j.inputs = i.inputs
                         /\ j.at \in {"link", "run", "report"}
    <3>1. CASE i.ok
      <4>1. PICK k \in Nat : k = Len(log[StageOf(i.sr)]) + 1
        BY <1>1, <1>3, StageOfRun DEF Inv, JobOK, UploadAnswered
      <4> DEFINE j == [i EXCEPT !.at = "link", !.version = k]
      <4>2. j \in Job /\ j.at = "link" /\ j.sr = i.sr /\ j.inputs = i.inputs
        BY DEF Job, Place
      <4>3. Goto(w, j)
        BY <1>1, <1>3, <3>1, <4>1 DEF UploadAnswered
      <4> QED  BY <4>2, <4>3
    <3>2. CASE ~i.ok
      <4>1. NextAttempt(w, "contract") /\ "contract" \in Error /\ Computed(i)
        BY <1>1, <1>3, <3>2 DEF UploadAnswered, Error, Computed
      <4> QED  BY <1>1, <4>1, NextAttemptFields
    <3> QED  BY <3>1, <3>2
  <2> QED  BY <1>1, <1>3, <2>1, AnsweredOnce DEF UploadAnswered, Computed
<1>4. CASE LinkAnswered(w)
  <2>1. PICK at \in {"promote", "report"} :
          at = IF message[i.sr].promote THEN "promote" ELSE "report"
    OBVIOUS
  <2> DEFINE j == [i EXCEPT !.at = at]
  <2>2. j \in Job /\ j.at = at /\ j.sr = i.sr /\ j.inputs = i.inputs
    BY <2>1 DEF Job, Place
  <2>3. Goto(w, j)
    BY <1>1, <1>4, <2>1 DEF LinkAnswered
  <2> QED  BY <1>1, <1>4, <2>1, <2>2, <2>3, AnsweredOnce DEF LinkAnswered, Computed
<1>5. CASE PromoteAnswered(w)
  <2> DEFINE j == [i EXCEPT !.at = "report"]
  <2>1. j \in Job /\ j.at = "report" /\ j.sr = i.sr
    BY DEF Job, Place
  <2> QED  BY <1>1, <1>5, <2>1, AnsweredOnce DEF PromoteAnswered, Computed
<1>6. CASE ReportOutcome(w)
  <2>1. Idle \in Job /\ Idle.at = "idle"
    BY IdleOK DEF Idle
  <2> QED  BY <1>1, <1>6, <2>1, AnsweredOnce DEF ReportOutcome, Computed
<1> QED  BY <1>2, <1>3, <1>4, <1>5, <1>6

LEMMA QuietStepsOnce ==
  ASSUME Inv, OnceInv, NEW w \in Worker,
         \/ \E n \in Name : ResolveInput(w, n)
         \/ InputsResolved(w) \/ SetupFails(w) \/ ExecuteStage(w) \/ StageRaises(w)
  PROVE  OnceInv'
<1>1. PICK i \in Job : i = work[w] /\ JobOK(i)
  BY DEF Inv, TypeOK, JobInv
<1>2. ASSUME NEW n \in Name, ResolveInput(w, n) PROVE OnceInv'
  <2>1. PICK k \in Nat : k = Wanted(i.sr, n)
    <3>1. i.sr \in StageRun
      BY <1>1, <1>2 DEF JobOK, ResolveInput
    <3> QED  BY <3>1, StageOfRun DEF Inv, TypeOK, Wanted, Versions
  <2> DEFINE j == [i EXCEPT !.inputs[n] = k]
  <2>2. j \in Job /\ j.at = i.at /\ j.sr = i.sr
    BY <2>1 DEF Job, Versions
  <2> QED  BY <1>1, <1>2, <2>1, <2>2, UnansweredOnce DEF ResolveInput, Computed
<1>3. CASE InputsResolved(w)
  <2> DEFINE j == [i EXCEPT !.at = "run"]
  <2>1. j \in Job /\ j.at = "run" /\ j.sr = i.sr
    BY DEF Job, Place
  <2> QED  BY <1>1, <1>3, <2>1, UnansweredOnce DEF InputsResolved
<1>4. CASE SetupFails(w)
  <2> DEFINE j == [i EXCEPT !.at = "report", !.error = "setup"]
  <2>1. j \in Job /\ j.at = "report" /\ j.sr = i.sr
    BY DEF Job, Place, Error
  <2> QED  BY <1>1, <1>4, <2>1, UnansweredOnce DEF SetupFails, Computed
<1>5. CASE ExecuteStage(w)
  <2>1. PICK ok \in BOOLEAN : Goto(w, [i EXCEPT !.at = "upload", !.ok = ok])
    BY <1>1, <1>5 DEF ExecuteStage
  <2> DEFINE j == [i EXCEPT !.at = "upload", !.ok = ok]
  <2>2. j \in Job /\ j.at = "upload" /\ j.sr = i.sr /\ j.inputs = i.inputs
    BY DEF Job, Place
  <2> QED  BY <1>1, <1>5, <2>1, <2>2, UnansweredOnce DEF ExecuteStage, Computed
<1>6. CASE StageRaises(w)
  <2>1. ErrorSeen \in Error /\ Computed(i)
    BY <1>1, <1>6 DEF ErrorSeen, Error, StageRaises, Computed
  <2>2. PICK j \in Job : /\ Goto(w, j) /\ j.sr = i.sr /\ j.inputs = i.inputs
                         /\ j.at \in {"run", "report"}
    BY <1>1, <1>6, <2>1, NextAttemptFields DEF StageRaises
  <2> QED  BY <1>1, <1>6, <2>1, <2>2, UnansweredOnce DEF StageRaises, Computed
<1> QED  BY <1>2, <1>3, <1>4, <1>5, <1>6

LEMMA FaultsOnce ==
  ASSUME Inv, OnceInv, NEW w \in Worker, CallRefused(w) \/ CallTimesOut(w) \/ Dies(w)
  PROVE  OnceInv'
<1>1. PICK i \in Job : i = work[w] /\ JobOK(i)
  BY DEF Inv, TypeOK, JobInv
<1>2. Idle \in Job /\ Idle.at = "idle"
  BY IdleOK DEF Idle
<1>3. CASE Dies(w)
  BY <1>1, <1>2, <1>3, UnansweredOnce DEF Dies, Computed
<1>4. CASE CallRefused(w) \/ CallTimesOut(w)
  <2>1. /\ i.at \in Calls /\ CallRaises(w)
        /\ UNCHANGED <<message, queue, report, log>>
        /\ late' = late \/ late' = late \cup {i}
    BY <1>1, <1>4 DEF CallRefused, CallTimesOut
  <2>2. CASE i.at \in {"start", "report"}
    <3>1. Goto(w, Idle)
      BY <1>1, <2>1, <2>2 DEF CallRaises
    <3> QED  BY <1>1, <1>2, <2>1, <2>2, <3>1, UnansweredOnce DEF Computed
  <2>3. CASE i.at \notin {"start", "report"}
    <3>1. Computed(i) /\ ~Reporting(i) /\ i.at # "idle"
      BY <2>1, <2>3 DEF Calls, Computed, Reporting
    <3>2. NextAttempt(w, "unanswered") /\ "unanswered" \in Error
      BY <1>1, <2>1, <2>3 DEF CallRaises, Error
    <3>3. PICK j \in Job : /\ Goto(w, j) /\ j.sr = i.sr /\ j.inputs = i.inputs
                           /\ j.at \in {"run", "report"}
      BY <1>1, <3>1, <3>2, NextAttemptFields
    <3> QED  BY <1>1, <2>1, <3>1, <3>3, UnansweredOnce
  <2> QED  BY <2>2, <2>3
<1> QED  BY <1>3, <1>4

(* A call that is handled late: it is the stage run's last report, or one  *)
(* of the calls its attempts have left behind.                             *)
LEMMA HandleLateOnce ==
  ASSUME Inv, OnceInv, NEW j \in late, HandleLate(j)
  PROVE  OnceInv'
<1>1. j \in Job /\ JobOK(j)
  BY DEF Inv, TypeOK, JobInv
<1>2. /\ Handle(j, TRUE) /\ late' = late \ {j}
      /\ UNCHANGED <<message, queue, work>>
  BY DEF HandleLate
<1>3. /\ j.sr \in StageRun
      /\ \A r \in StageRun \ {j.sr} : VersionsStay(r) /\ report'[r] = report[r]
      /\ \A k \in VersionsBy(j.sr)' :
           \/ /\ k \in VersionsBy(j.sr)
              /\ log'[StageOf(j.sr)][k].read = log[StageOf(j.sr)][k].read
           \/ j.at = "upload" /\ log'[StageOf(j.sr)][k].read = j.inputs
      /\ j.at = "start" => ~HasOutcome(j.sr)'
      /\ ~Reporting(j) => report' = report
  BY <1>1, <1>2, HandleOnly
<1>4. ASSUME NEW r \in StageRun, message[r].copies = 1 PROVE OnceOf(r)'
  <2>1. OnceOf(r)
    BY <1>4 DEF OnceInv
  <2>2. CASE r # j.sr
    <3>1. \A v \in Worker : On(v, r)' => On(v, r) /\ work'[v] = work[v]
      BY <1>2 DEF On
    <3> QED  BY <1>2, <1>3, <2>1, <2>2, <3>1, OthersKeep
  <2>3. CASE r = j.sr
    <3>1. queue'[r] = 0 /\ StageOf(r)' = StageOf(r)
      BY <1>2, <2>1, <2>3 DEF OnceOf, StageOf
    <3>2. \A v \in Worker : On(v, r)' => On(v, r)
      BY <1>2 DEF On
    <3>3. HasOutcome(r)' => HasOutcome(r) \/ Reporting(j)
      BY <1>3 DEF HasOutcome
    <3>4. \A v \in Worker : On(v, r) => ~HasOutcome(r)'
      BY <2>1, <2>3, <3>3 DEF OnceOf
    <3>5. Fresh(r) => Fresh(r)'
      BY <1>2, <1>3, <2>3 DEF Fresh, Computed
    <3>6. \A l \in late' : l.sr = r /\ Reporting(l) => ~HasOutcome(r)'
      BY <1>2, <2>1, <2>3, <3>3 DEF OnceOf
    <3>7. \E f \in Versions : Uses(r, f)'
      <4>1. PICK f \in Versions : Uses(r, f)
        BY <2>1 DEF OnceOf
      <4>2. \A v \in Worker : On(v, r)' /\ Computed(work'[v]) => work'[v].inputs = f
        BY <1>2, <3>2, <4>1 DEF Uses, Computed
      <4>3. \A l \in late' : l.sr = r /\ Computed(l) => l.inputs = f
        BY <1>2, <4>1 DEF Uses
      <4>4. j.at = "upload" => j.inputs = f
        BY <2>3, <4>1 DEF Uses, Computed
      <4>5. \A k \in VersionsBy(r)' : log'[StageOf(r)][k].read = f
        BY <1>3, <2>3, <4>1, <4>4 DEF Uses
      <4>6. Uses(r, f)'
        BY <3>1, <4>2, <4>3, <4>5 DEF Uses, Computed
      <4> QED  BY <4>6
    <3>8. /\ \A v, w \in Worker : On(v, r)' /\ On(w, r)' => v = w
          /\ \A w \in Worker : On(w, r)' => \A l \in late' : l.sr = r => ~Reporting(l)
          /\ \A w \in Worker : On(w, r)' /\ work'[w].at \in {"start", "resolve"} => Fresh(r)'
          /\ \A l, m \in late' :
               l.sr = r /\ m.sr = r /\ Reporting(l) /\ Reporting(m) => l = m
      BY <1>2, <2>1, <3>2, <3>5 DEF OnceOf
    <3> QED
      BY <3>1, <3>2, <3>4, <3>6, <3>7, <3>8 DEF OnceOf, Reporting
  <2> QED  BY <2>2, <2>3
<1> QED  BY <1>2, <1>4 DEF OnceInv

LEMMA PeopleOnce ==
  ASSUME Inv, OnceInv, People
  PROVE  OnceInv'
<1>1. PICK n \in Name, ok \in BOOLEAN, promote \in BOOLEAN :
        \/ ResourceUpload(n, ok, promote)
        \/ \E k \in DOMAIN log[n] : PromoteUploaded(n, k) \/ ConfirmPromote(n, k)
  BY DEF People
<1>2. CASE ResourceUpload(n, ok, promote)
  <2>1. Uploaded(ok, promote) \in Version /\ Uploaded(ok, promote).by = None
    BY DEF Uploaded, Version, NoVersions, Versions
  <2>2. /\ RecordVersion(n, Uploaded(ok, promote))
        /\ UNCHANGED <<message, queue, work, report, late>>
    BY <1>2 DEF ResourceUpload
  <2>3. \A r \in StageRun : VersionsStay(r)
    BY <2>1, <2>2, OneMore, WorkerAssumption DEF VersionsStay, Inv
  <2> QED  BY <2>2, <2>3, NoWorkerOnce
<1>3. CASE \E k \in DOMAIN log[n] : PromoteUploaded(n, k) \/ ConfirmPromote(n, k)
  <2>1. UNCHANGED <<message, queue, work, report, late, log>>
    BY <1>3 DEF PromoteUploaded, ConfirmPromote
  <2> QED  BY <2>1, SameLog, NoWorkerOnce
<1> QED  BY <1>1, <1>2, <1>3

(* Before anything has happened there is no version of a stage run's own.  *)
LEMMA NoVersionsYet ==
  ASSUME Init, NEW r \in StageRun
  PROVE  VersionsBy(r) = {}
<1>1. StageOf(r) \in Name
  BY InitInv, StageOfRun DEF Inv
<1>2. PICK P \in Preloads :
        log = [n \in Name |-> IF n \in P THEN <<Uploaded(TRUE, TRUE)>> ELSE <<>>]
  BY DEF Init
<1>3. PICK v : v = Uploaded(TRUE, TRUE)
  OBVIOUS
<1>4. v.by = None
  BY <1>3 DEF Uploaded
<1>5. \A k \in DOMAIN log[StageOf(r)] : log[StageOf(r)][k] = v
  <2>1. log[StageOf(r)] = IF StageOf(r) \in P THEN <<v>> ELSE <<>>
    BY <1>1, <1>2, <1>3
  <2>2. CASE StageOf(r) \in P
    BY <2>1, <2>2
  <2>3. CASE StageOf(r) \notin P
    BY <2>1, <2>3
  <2> QED  BY <2>2, <2>3
<1> QED  BY <1>4, <1>5, WorkerAssumption DEF VersionsBy

LEMMA InitOnce ==
  ASSUME Init
  PROVE  OnceInv
<1>1. ASSUME NEW r \in StageRun, message[r].copies = 1 PROVE OnceOf(r)
  <2>1. /\ queue[r] = 1 /\ late = {} /\ ~HasOutcome(r)
        /\ \A w \in Worker : ~On(w, r)
    BY <1>1 DEF Init, HasOutcome, On, Idle
  <2>2. VersionsBy(r) = {}
    BY NoVersionsYet
  <2>3. Uses(r, NoVersions) /\ NoVersions \in Versions
    BY <2>1, <2>2 DEF Uses, NoVersions, Versions
  <2> QED  BY <2>1, <2>2, <2>3 DEF OnceOf, Fresh
<1> QED  BY <1>1 DEF OnceInv

LEMMA NextOnce ==
  ASSUME Inv, OnceInv, Next
  PROVE  OnceInv'
<1>1. ASSUME NEW w \in Worker, Step(w) PROVE OnceInv'
  BY <1>1, PopOnce, AnswersOnce, QuietStepsOnce DEF Step
<1>2. CASE \E w \in Worker : Step(w) \/ CallRefused(w) \/ CallTimesOut(w) \/ Dies(w)
  BY <1>1, <1>2, FaultsOnce
<1>3. CASE \E j \in late : HandleLate(j)
  BY <1>3, HandleLateOnce
<1>4. CASE People
  BY <1>4, PeopleOnce
<1> QED  BY <1>2, <1>3, <1>4 DEF Next

-----------------------------------------------------------------------------
(* Of a message queued once: one worker has it at a time, and a report     *)
(* that is left behind is its last.                                        *)
THEOREM OnceHolds == Spec => [](Inv /\ OnceInv)
<1>1. Init => Inv /\ OnceInv
  BY InitInv, InitOnce
<1>2. Inv /\ OnceInv /\ [Next]_vars => (Inv /\ OnceInv)'
  <2> SUFFICES ASSUME Inv, OnceInv, [Next]_vars PROVE (Inv /\ OnceInv)'
    OBVIOUS
  <2>1. CASE Next
    BY <2>1, NextKeeps, NextOnce
  <2>2. CASE UNCHANGED vars
    <3>1. ServersKeep
      BY <2>2, NothingHandled DEF vars
    <3>2. Inv'
      BY <2>2, <3>1, WorkersStay DEF vars, Inv, TypeOK
    <3>3. OnceInv'
      BY <2>2, SameLog, NoWorkerOnce DEF vars
    <3> QED  BY <3>2, <3>3
  <2> QED  BY <2>1, <2>2
<1> QED  BY <1>1, <1>2, PTL DEF Spec

(* Runner.run_stage: the attempts of one execution, and what they have     *)
(* left in the store, are computed from the same inputs.                   *)
THEOREM InputsAreShared == Spec => []AttemptsShareInputs
<1>1. Inv /\ OnceInv => AttemptsShareInputs
  BY DEF OnceInv, OnceOf, Uses, AttemptsShareInputs
<1> QED  BY <1>1, OnceHolds, PTL

(* start_stage_run, complete_stage_run and fail_stage_run: no report, in   *)
(* time or late, changes an outcome that is recorded.                      *)
THEOREM OutcomesStay == Spec => OutcomeIsFinal
<1> DEFINE Stays ==
      \A r \in StageRun :
        message[r].copies = 1 /\ report[r].status \in {"completed", "failed"} =>
          report'[r] = report[r]
<1>1. Inv /\ OnceInv /\ [Next]_vars => [Stays]_vars
  <2> SUFFICES ASSUME Inv, OnceInv, [Next]_vars PROVE Stays
    OBVIOUS
  <2>1. ASSUME NEW r \in StageRun, message[r].copies = 1, HasOutcome(r)
        PROVE  report'[r] = report[r]
    <3>1. OnceOf(r)
      BY <2>1 DEF OnceInv
    <3>2. ASSUME NEW j \in Job, JobOK(j), NEW b \in BOOLEAN, Handle(j, b), message' = message,
                 j.sr = r => ~Reporting(j)
          PROVE  report'[r] = report[r]
      BY <3>2, HandleOnly
    <3>3. ASSUME NEW w \in Worker, Step(w) PROVE report'[r] = report[r]
      <4>1. PICK j \in Job : j = work[w] /\ JobOK(j)
        BY DEF Inv, TypeOK, JobInv
      <4>2. CASE Handle(j, FALSE) /\ message' = message
        <5>1. j.sr = r => ~Reporting(j)
          BY <2>1, <3>1, <4>1 DEF OnceOf, On, Reporting
        <5> QED  BY <3>2, <4>1, <4>2, <5>1
      <4>3. CASE report' = report
        BY <4>3
      <4> QED
        BY <3>3, <4>1, <4>2, <4>3
           DEF Step, Pop, ReportStart, ResolveInput, InputsResolved, SetupFails, ExecuteStage,
               StageRaises, UploadAnswered, LinkAnswered, PromoteAnswered, ReportOutcome
    <3>4. ASSUME NEW j \in late, HandleLate(j) PROVE report'[r] = report[r]
      <4>1. j \in Job /\ JobOK(j)
        BY DEF Inv, TypeOK, JobInv
      <4>2. j.sr = r => ~Reporting(j)
        BY <2>1, <3>1 DEF OnceOf
      <4> QED  BY <3>2, <3>4, <4>1, <4>2 DEF HandleLate
    <3>5. CASE People
      BY <3>5 DEF People, ResourceUpload, PromoteUploaded, ConfirmPromote
    <3>6. ASSUME NEW w \in Worker, CallRefused(w) \/ CallTimesOut(w) \/ Dies(w)
          PROVE  report'[r] = report[r]
      BY <3>6 DEF CallRefused, CallTimesOut, Dies
    <3>7. CASE UNCHANGED vars
      BY <3>7 DEF vars
    <3> QED  BY <3>3, <3>4, <3>5, <3>6, <3>7 DEF Next
  <2> QED  BY <2>1 DEF HasOutcome
<1> QED
  BY <1>1, OnceHolds, PTL DEF Spec, OutcomeIsFinal

-----------------------------------------------------------------------------
(* Of a promotion that was answered: the stage run's message is with the   *)
(* worker that made it, which has only the report left to do, or that      *)
(* report is late, or is in the row.                                       *)
Told(m) ==
  LET r == m.by IN
  /\ queue[r] = 0
  /\ \A w \in Worker : On(w, r) => work[w].at = "report" /\ work[w].version = m.version
  /\ \A j \in late : j.sr = r /\ Reporting(j) => j.at = "report" /\ j.version = m.version
  /\ HasOutcome(r) => report[r].status = "completed" /\ report[r].output = m.version

Answered(m) == ~m.late /\ message[m.by].copies = 1

ToldInv == \A m \in made : Answered(m) => Told(m)

(* A promotion names a version.                                            *)
LEMMA MadeFields ==
  ASSUME Inv, NEW m \in made
  PROVE  m.by \in StageRun /\ m.version \in Nat /\ m.version # 0
<1>1. m.by \in StageRun /\ m.version \in Nat
  BY DEF Inv, TypeOK
<1>2. m.version \in DOMAIN log[StageOf(m.by)] /\ log[StageOf(m.by)] \in Seq(Version)
  BY <1>1, StageOfRun DEF Inv, PromotedIsSound, Sound
<1> QED  BY <1>1, <1>2

(* The report of an outcome with a version.                                *)
LEMMA ReportsVersion ==
  ASSUME TypeOK, NEW j \in Job, j.sr \in StageRun, MarkOutcome(j), j.version # 0
  PROVE  report'[j.sr].status = "completed" /\ report'[j.sr].output = j.version
<1> DEFINE row == [report[j.sr] EXCEPT !.status = "completed", !.output = j.version,
                                       !.attempts = j.attempt]
<1>1. report[j.sr] \in Row
  BY DEF TypeOK
<1>2. row.status = "completed" /\ row.output = j.version
  BY <1>1 DEF Row
<1>3. report' = [report EXCEPT ![j.sr] = row]
  BY DEF MarkOutcome
<1> QED  BY <1>2, <1>3 DEF TypeOK

(* What a step does to the row of an answered promotion.                   *)
RowKept(m) ==
  \/ report'[m.by] = report[m.by]
  \/ report'[m.by].status = "completed" /\ report'[m.by].output = m.version

LEMMA ToldStays ==
  ASSUME NEW m, Told(m), queue'[m.by] = 0, RowKept(m),
         \A w \in Worker : On(w, m.by)' => On(w, m.by) /\ work'[w] = work[w],
         \A j \in late' : j.sr = m.by /\ Reporting(j) =>
           j \in late \/ (j.at = "report" /\ j.version = m.version)
  PROVE  Told(m)'
<1>1. \A w \in Worker :
        On(w, m.by)' => work'[w].at = "report" /\ work'[w].version = m.version
  BY DEF Told
<1>2. \A j \in late' :
        j.sr = m.by /\ Reporting(j) => j.at = "report" /\ j.version = m.version
  BY DEF Told
<1>3. HasOutcome(m.by)' =>
        report'[m.by].status = "completed" /\ report'[m.by].output = m.version
  BY DEF Told, RowKept, HasOutcome
<1> QED  BY <1>1, <1>2, <1>3 DEF Told, Reporting

(* What a call does to the row of an answered promotion.                   *)
LEMMA HandleTold ==
  ASSUME Inv, NEW m \in made, NEW j \in Job, JobOK(j), NEW b \in BOOLEAN, Handle(j, b),
         message' = message,
         j.sr = m.by /\ Reporting(j) => j.at = "report" /\ j.version = m.version
  PROVE  RowKept(m)
<1>1. m.by \in StageRun /\ m.version # 0
  BY MadeFields
<1>2. CASE j.sr = m.by /\ Reporting(j)
  <2>1. MarkOutcome(j) /\ j.version # 0
    BY <1>1, <1>2 DEF Handle
  <2> QED  BY <1>1, <1>2, <2>1, ReportsVersion DEF Inv, RowKept
<1>3. CASE ~(j.sr = m.by /\ Reporting(j))
  BY <1>1, <1>3, HandleOnly DEF RowKept
<1> QED  BY <1>2, <1>3

(* A worker's step, of the promotions that are answered already.           *)
LEMMA WorkerTold ==
  ASSUME Inv, NEW m \in made, Told(m), NEW w \in Worker, NEW i \in Job, i = work[w],
         JobOK(i), i.at # "idle", NEW j \in Job, Goto(w, j),
         j.at = "idle" \/ (j.sr = i.sr /\ i.at # "report"),
         UNCHANGED <<message, queue>>, late' \subseteq late \cup {i},
         Handle(i, FALSE) \/ report' = report
  PROVE  Told(m)'
<1>1. work'[w] = j /\ \A v \in Worker \ {w} : work'[v] = work[v]
  BY DEF Goto, Inv, TypeOK
<1>2. i.sr = m.by => i.at = "report" /\ i.version = m.version
  BY DEF Told, On
<1>3. RowKept(m)
  BY <1>2, HandleTold DEF RowKept
<1>4. \A v \in Worker : On(v, m.by)' => On(v, m.by) /\ work'[v] = work[v]
  BY <1>1, <1>2 DEF On
<1>5. \A l \in late' : l.sr = m.by /\ Reporting(l) =>
        l \in late \/ (l.at = "report" /\ l.version = m.version)
  <2>1. \A l \in late' : l \in late \/ l = i
    OBVIOUS
  <2> QED  BY <1>2, <2>1
<1>6. queue'[m.by] = 0
  BY DEF Told
<1> QED  BY <1>3, <1>4, <1>5, <1>6, ToldStays

LEMMA PromoteAnsweredTold ==
  ASSUME Inv, OnceInv, ToldInv, NEW w \in Worker, PromoteAnswered(w)
  PROVE  ToldInv'
<1>1. PICK i \in Job : i = work[w] /\ JobOK(i)
  BY DEF Inv, TypeOK, JobInv
<1> DEFINE j == [i EXCEPT !.at = "report"]
           new == [version |-> i.version, by |-> i.sr, late |-> FALSE]
<1>2. j \in Job /\ j.at = "report" /\ j.sr = i.sr /\ j.version = i.version
  BY DEF Job, Place
<1>3. /\ i.at = "promote" /\ i.sr \in StageRun /\ Handle(i, FALSE) /\ Goto(w, j)
      /\ UNCHANGED <<message, queue, late, report>>
      /\ made' = made \cup {new}
  BY <1>1 DEF PromoteAnswered, Handle, Promote, JobOK
<1>4. work'[w] = j /\ \A v \in Worker \ {w} : work'[v] = work[v]
  BY <1>3 DEF Goto, Inv, TypeOK
<1>5. ASSUME NEW m \in made, Answered(m) PROVE Told(m)'
  BY <1>1, <1>2, <1>3, <1>5, WorkerTold DEF ToldInv
<1>6. ASSUME Answered(new) PROVE Told(new)'
  <2>1. OnceOf(i.sr)
    BY <1>3, <1>6 DEF OnceInv, Answered
  <2>2. On(w, i.sr)
    BY <1>1, <1>3 DEF On
  <2>3. /\ queue[i.sr] = 0 /\ ~HasOutcome(i.sr)
        /\ \A v \in Worker : On(v, i.sr) => v = w
        /\ \A l \in late : l.sr = i.sr => ~Reporting(l)
    BY <2>1, <2>2 DEF OnceOf
  <2>4. \A v \in Worker : On(v, i.sr)' => v = w
    BY <1>4, <2>3 DEF On
  <2> QED
    BY <1>2, <1>3, <1>4, <2>3, <2>4 DEF Told, HasOutcome, Reporting
<1> QED  BY <1>3, <1>5, <1>6 DEF ToldInv, Answered

(* A step of a worker that promotes nothing.                               *)
LEMMA WorkersTold ==
  ASSUME Inv, ToldInv, NEW w \in Worker, NEW i \in Job, i = work[w], i.at # "idle",
         NEW j \in Job, Goto(w, j), j.at = "idle" \/ (j.sr = i.sr /\ i.at # "report"),
         UNCHANGED <<message, queue>>, late' \subseteq late \cup {i},
         \/ Handle(i, FALSE) /\ i.at # "promote"
         \/ UNCHANGED <<report, made>>
  PROVE  ToldInv'
<1>1. JobOK(i)
  BY DEF Inv, JobInv
<1>2. made' = made
  BY DEF Handle, MarkRunning, Upload, UpdateDependencies, MarkOutcome
<1>3. ASSUME NEW m \in made, Answered(m) PROVE Told(m)'
  BY <1>1, <1>3, WorkerTold DEF ToldInv, Handle
<1> QED  BY <1>2, <1>3 DEF ToldInv, Answered

LEMMA StepsTold ==
  ASSUME Inv, OnceInv, ToldInv, NEW w \in Worker, Step(w)
  PROVE  ToldInv'
<1>1. PICK i \in Job : i = work[w] /\ JobOK(i)
  BY DEF Inv, TypeOK, JobInv
<1>2. ASSUME NEW r \in StageRun, Pop(w, r) PROVE ToldInv'
  <2> DEFINE j == [Idle EXCEPT !.at = "start", !.sr = r]
  <2>1. j.sr = r
    BY DEF Idle
  <2>2. /\ work'[w] = j /\ \A v \in Worker \ {w} : work'[v] = work[v]
        /\ \A q \in StageRun \ {r} : queue'[q] = queue[q]
        /\ queue[r] > 0 /\ UNCHANGED <<message, report, late, made>>
    BY <1>2 DEF Pop, Goto, Inv, TypeOK
  <2>3. ASSUME NEW m \in made, Answered(m) PROVE Told(m)'
    <3>1. Told(m) /\ m.by \in StageRun
      BY <2>3, MadeFields DEF ToldInv
    <3>2. m.by # r /\ queue'[m.by] = 0
      BY <2>2, <3>1 DEF Told
    <3>3. \A v \in Worker : On(v, m.by)' => On(v, m.by) /\ work'[v] = work[v]
      BY <2>1, <2>2, <3>2 DEF On
    <3> QED  BY <2>2, <3>1, <3>2, <3>3, ToldStays DEF RowKept
  <2> QED  BY <2>2, <2>3 DEF ToldInv, Answered
<1>3. CASE ReportStart(w)
  <2> DEFINE j == [i EXCEPT !.at = "resolve", !.attempt = 1]
  <2>1. j \in Job /\ j.sr = i.sr
    BY DEF Job, Place
  <2> QED  BY <1>1, <1>3, <2>1, WorkersTold DEF ReportStart
<1>4. ASSUME NEW n \in Name, ResolveInput(w, n) PROVE ToldInv'
  <2>1. PICK k \in Nat : k = Wanted(i.sr, n)
    <3>1. i.sr \in StageRun
      BY <1>1, <1>4 DEF JobOK, ResolveInput
    <3> QED  BY <3>1, StageOfRun DEF Inv, TypeOK, Wanted, Versions
  <2> DEFINE j == [i EXCEPT !.inputs[n] = k]
  <2>2. j \in Job /\ j.sr = i.sr
    BY <2>1 DEF Job, Versions
  <2> QED  BY <1>1, <1>4, <2>1, <2>2, WorkersTold DEF ResolveInput
<1>5. CASE InputsResolved(w)
  <2> DEFINE j == [i EXCEPT !.at = "run"]
  <2>1. j \in Job /\ j.sr = i.sr
    BY DEF Job, Place
  <2> QED  BY <1>1, <1>5, <2>1, WorkersTold DEF InputsResolved
<1>6. CASE SetupFails(w)
  <2> DEFINE j == [i EXCEPT !.at = "report", !.error = "setup"]
  <2>1. j \in Job /\ j.sr = i.sr
    BY DEF Job, Place, Error
  <2> QED  BY <1>1, <1>6, <2>1, WorkersTold DEF SetupFails
<1>7. CASE ExecuteStage(w)
  <2>1. PICK ok \in BOOLEAN : Goto(w, [i EXCEPT !.at = "upload", !.ok = ok])
    BY <1>1, <1>7 DEF ExecuteStage
  <2> DEFINE j == [i EXCEPT !.at = "upload", !.ok = ok]
  <2>2. j \in Job /\ j.sr = i.sr
    BY DEF Job, Place
  <2> QED  BY <1>1, <1>7, <2>1, <2>2, WorkersTold DEF ExecuteStage
<1>8. CASE StageRaises(w)
  <2>1. ErrorSeen \in Error /\ Computed(i)
    BY <1>1, <1>8 DEF ErrorSeen, Error, StageRaises, Computed
  <2>2. PICK j \in Job : Goto(w, j) /\ j.sr = i.sr
    BY <1>1, <1>8, <2>1, NextAttemptFields DEF StageRaises
  <2> QED  BY <1>1, <1>8, <2>2, WorkersTold DEF StageRaises
<1>9. CASE UploadAnswered(w)
  <2>1. PICK j \in Job : Goto(w, j) /\ j.sr = i.sr
    <3>1. CASE i.ok
      <4>1. PICK k \in Nat : k = Len(log[StageOf(i.sr)]) + 1
        BY <1>1, <1>9, StageOfRun DEF Inv, JobOK, UploadAnswered
      <4> DEFINE j == [i EXCEPT !.at = "link", !.version = k]
      <4>2. j \in Job /\ j.sr = i.sr
        BY DEF Job, Place
      <4>3. Goto(w, j)
        BY <1>1, <1>9, <3>1, <4>1 DEF UploadAnswered
      <4> QED  BY <4>2, <4>3
    <3>2. CASE ~i.ok
      <4>1. NextAttempt(w, "contract") /\ "contract" \in Error /\ Computed(i)
        BY <1>1, <1>9, <3>2 DEF UploadAnswered, Error, Computed
      <4> QED  BY <1>1, <4>1, NextAttemptFields
    <3> QED  BY <3>1, <3>2
  <2> QED  BY <1>1, <1>9, <2>1, WorkersTold DEF UploadAnswered
<1>10. CASE LinkAnswered(w)
  <2>1. PICK at \in {"promote", "report"} :
          at = IF message[i.sr].promote THEN "promote" ELSE "report"
    OBVIOUS
  <2> DEFINE j == [i EXCEPT !.at = at]
  <2>2. j \in Job /\ j.sr = i.sr
    BY <2>1 DEF Job, Place
  <2>3. Goto(w, j)
    BY <1>1, <1>10, <2>1 DEF LinkAnswered
  <2> QED  BY <1>1, <1>10, <2>2, <2>3, WorkersTold DEF LinkAnswered
<1>11. CASE ReportOutcome(w)
  <2>1. Idle \in Job /\ Idle.at = "idle"
    BY IdleOK DEF Idle
  <2> QED  BY <1>1, <1>11, <2>1, WorkersTold DEF ReportOutcome
<1> QED
  BY <1>2, <1>3, <1>4, <1>5, <1>6, <1>7, <1>8, <1>9, <1>10, <1>11, PromoteAnsweredTold
     DEF Step

LEMMA FaultsTold ==
  ASSUME Inv, ToldInv, NEW w \in Worker, CallRefused(w) \/ CallTimesOut(w) \/ Dies(w)
  PROVE  ToldInv'
<1>1. PICK i \in Job : i = work[w] /\ JobOK(i)
  BY DEF Inv, TypeOK, JobInv
<1>2. Idle \in Job /\ Idle.at = "idle"
  BY IdleOK DEF Idle
<1>3. CASE Dies(w)
  BY <1>1, <1>2, <1>3, WorkersTold DEF Dies
<1>4. CASE CallRefused(w) \/ CallTimesOut(w)
  <2>1. /\ i.at \in Calls /\ CallRaises(w)
        /\ UNCHANGED <<message, queue, report, made>>
        /\ late' \subseteq late \cup {i}
    BY <1>1, <1>4 DEF CallRefused, CallTimesOut
  <2>2. CASE i.at \in {"start", "report"}
    <3>1. Goto(w, Idle)
      BY <1>1, <2>1, <2>2 DEF CallRaises
    <3> QED  BY <1>1, <1>2, <2>1, <2>2, <3>1, WorkersTold
  <2>3. CASE i.at \notin {"start", "report"}
    <3>1. Computed(i) /\ i.at # "idle"
      BY <2>1, <2>3 DEF Calls, Computed
    <3>2. NextAttempt(w, "unanswered") /\ "unanswered" \in Error
      BY <1>1, <2>1, <2>3 DEF CallRaises, Error
    <3>3. PICK j \in Job : Goto(w, j) /\ j.sr = i.sr
      BY <1>1, <3>1, <3>2, NextAttemptFields
    <3> QED  BY <1>1, <2>1, <2>3, <3>1, <3>3, WorkersTold
  <2> QED  BY <2>2, <2>3
<1> QED  BY <1>3, <1>4

LEMMA HandleLateTold ==
  ASSUME Inv, ToldInv, NEW j \in late, HandleLate(j)
  PROVE  ToldInv'
<1>1. j \in Job /\ JobOK(j)
  BY DEF Inv, TypeOK, JobInv
<1>2. /\ Handle(j, TRUE) /\ late' \subseteq late
      /\ UNCHANGED <<message, queue, work>>
  BY DEF HandleLate
<1>3. \A m \in made' : m \in made \/ m.late
  BY <1>2 DEF Handle, MarkRunning, Upload, UpdateDependencies, Promote, MarkOutcome
<1>4. ASSUME NEW m \in made, Answered(m) PROVE Told(m)'
  <2>1. Told(m)
    BY <1>4 DEF ToldInv
  <2>2. j.sr = m.by /\ Reporting(j) => j.at = "report" /\ j.version = m.version
    BY <2>1 DEF Told
  <2>3. RowKept(m)
    BY <1>1, <1>2, <2>2, HandleTold
  <2>4. /\ queue'[m.by] = 0
        /\ \A v \in Worker : On(v, m.by)' => On(v, m.by) /\ work'[v] = work[v]
    BY <1>2, <2>1 DEF Told, On
  <2> QED  BY <1>2, <2>1, <2>3, <2>4, ToldStays
<1> QED  BY <1>2, <1>3, <1>4 DEF ToldInv, Answered

(* A step that concerns no stage run.                                      *)
LEMMA SameTold ==
  ASSUME ToldInv, UNCHANGED <<message, queue, report, work, late, made>>
  PROVE  ToldInv'
BY DEF ToldInv, Told, Answered, On, Reporting, HasOutcome

LEMMA NextTold ==
  ASSUME Inv, OnceInv, ToldInv, Next
  PROVE  ToldInv'
<1>1. CASE \E w \in Worker : Step(w) \/ CallRefused(w) \/ CallTimesOut(w) \/ Dies(w)
  BY <1>1, StepsTold, FaultsTold
<1>2. CASE \E j \in late : HandleLate(j)
  BY <1>2, HandleLateTold
<1>3. CASE People
  BY <1>3, SameTold DEF People, ResourceUpload, PromoteUploaded, ConfirmPromote
<1> QED  BY <1>1, <1>2, <1>3 DEF Next

(* Runner.run_stage and process_message: of a message that is queued once, *)
(* what was promoted and answered is what the row says, also when calls of *)
(* earlier attempts and the report itself are handled late.                *)
THEOREM ReportNamesPromoted == Spec => []PromotedIsReported
<1>1. Init => ToldInv
  BY DEF Init, ToldInv
<1>2. Inv /\ OnceInv /\ ToldInv /\ [Next]_vars => ToldInv'
  BY NextTold, SameTold DEF vars
<1>3. ToldInv => PromotedIsReported
  BY DEF ToldInv, Told, Answered, HasOutcome, PromotedIsReported
<1> QED  BY <1>1, <1>2, <1>3, OnceHolds, PTL DEF Spec

-----------------------------------------------------------------------------
(* The attempts that a stage run's message allows each of its copies.      *)
Allowed(r) == Retries[StageOf(r)] + 1

(* The attempts that cannot upload any more.                               *)
Spent(j) == IF j.at \in {"resolve", "run", "upload"} THEN j.attempt - 1 ELSE j.attempt

Counted(j) ==
  /\ j.at = "start" => j.attempt = 0
  /\ j.at \notin {"idle", "start"} => j.attempt \in 1..Allowed(j.sr)

(* The attempts that are left to the workers that have r's message.        *)
Ahead(r) ==
  {s \in Worker \X Nat : On(s[1], r) /\ Spent(work[s[1]]) < s[2] /\ s[2] <= Allowed(r)}

LateUploads(r) == {j \in late : j.sr = r /\ j.at = "upload"}

(* The versions that r has uploaded and may yet upload.                    *)
Potential(r) ==
  Cardinality(VersionsBy(r)) + Cardinality(LateUploads(r)) + Cardinality(Ahead(r))
    + queue[r] * Allowed(r)

Total(r) == message[r].copies * Allowed(r)

(* An execution that ended with its a-th attempt makes no other.           *)
Ended(r, a) == Potential(r) + Allowed(r) <= Total(r) + a

AccountOf(r) ==
  /\ IsFiniteSet(Ahead(r))
  /\ Potential(r) <= Total(r)
  /\ HasOutcome(r) => Ended(r, report[r].attempts)
  /\ \A j \in late : j.sr = r /\ j.at = "report" => Ended(r, j.attempt)

CountInv ==
  /\ IsFiniteSet(late)
  /\ \A w \in Worker : Counted(work[w])
  /\ \A j \in late : Counted(j)
  /\ \A r \in StageRun : AccountOf(r)

-----------------------------------------------------------------------------
(* A copy of the message is as many attempts as another.                   *)
LEMMA CopiesTimesAttempts == \A a, b \in Nat : a * b \in Nat
OBVIOUS

LEMMA OneCopyLess == \A a, b \in Nat : a > 0 => (a - 1) * b + b = a * b
OBVIOUS

LEMMA VersionsFinite ==
  ASSUME Inv, NEW r \in StageRun
  PROVE  IsFiniteSet(VersionsBy(r))
<1>1. log[StageOf(r)] \in Seq(Version)
  BY StageOfRun DEF Inv
<1>2. Len(log[StageOf(r)]) \in Nat /\ DOMAIN log[StageOf(r)] = 1..Len(log[StageOf(r)])
  BY <1>1
<1>3. VersionsBy(r) \in SUBSET (1..Len(log[StageOf(r)]))
  BY <1>2 DEF VersionsBy
<1>4. IsFiniteSet(1..Len(log[StageOf(r)]))
  BY <1>2, FS_Interval
<1> QED  BY <1>3, <1>4, FS_Subset

(* The counts are numbers.                                                 *)
LEMMA CountTypes ==
  ASSUME Inv, IsFiniteSet(late), NEW r \in StageRun, IsFiniteSet(Ahead(r))
  PROVE  /\ Allowed(r) \in Nat /\ Allowed(r) > 0
         /\ Total(r) \in Nat /\ queue[r] * Allowed(r) \in Nat
         /\ IsFiniteSet(VersionsBy(r)) /\ Cardinality(VersionsBy(r)) \in Nat
         /\ IsFiniteSet(LateUploads(r)) /\ Cardinality(LateUploads(r)) \in Nat
         /\ Cardinality(Ahead(r)) \in Nat
         /\ Potential(r) \in Nat
<1>1. Allowed(r) \in Nat /\ Allowed(r) > 0
  BY StageOfRun DEF Inv, Allowed
<1>2. queue[r] \in Nat /\ message[r].copies \in Nat
  BY WorkerAssumption DEF Inv, TypeOK, MessageType
<1>3. Total(r) \in Nat /\ queue[r] * Allowed(r) \in Nat
  BY <1>1, <1>2, CopiesTimesAttempts DEF Total
<1>4. IsFiniteSet(VersionsBy(r))
  BY VersionsFinite
<1>5. IsFiniteSet(LateUploads(r))
  <2>1. LateUploads(r) \in SUBSET late
    BY DEF LateUploads
  <2> QED  BY <2>1, FS_Subset
<1>6. /\ Cardinality(VersionsBy(r)) \in Nat /\ Cardinality(LateUploads(r)) \in Nat
      /\ Cardinality(Ahead(r)) \in Nat
  BY <1>4, <1>5, FS_CardinalityType
<1> QED  BY <1>1, <1>3, <1>4, <1>5, <1>6 DEF Potential

CountTyped ==
  \A r \in StageRun : IsFiniteSet(Ahead(r)) =>
    /\ IsFiniteSet(VersionsBy(r)) /\ Cardinality(VersionsBy(r)) \in Nat
    /\ IsFiniteSet(LateUploads(r)) /\ Cardinality(LateUploads(r)) \in Nat
    /\ Cardinality(Ahead(r)) \in Nat
    /\ Potential(r) \in Nat

LEMMA CountTypesNext == (Inv /\ IsFiniteSet(late) => CountTyped)'
<1>1. Inv /\ IsFiniteSet(late) => CountTyped
  BY CountTypes DEF CountTyped
<1> QED  BY <1>1, PTL

(* What is left of r's attempts to a worker with the locals j.             *)
Left(j, r) == IF j.at # "idle" /\ j.sr = r THEN Allowed(r) - Spent(j) ELSE 0

LEMMA SpentBounds ==
  ASSUME Inv, NEW j \in Job, j.sr \in StageRun, Counted(j), j.at # "idle"
  PROVE  Spent(j) \in Nat /\ Spent(j) <= Allowed(j.sr)
<1>1. j.sr \in StageRun /\ Allowed(j.sr) \in Nat
  BY StageOfRun DEF Inv, Allowed
<1>2. j.attempt \in Nat
  BY JobFields
<1>3. CASE j.at = "start"
  BY <1>1, <1>3 DEF Counted, Spent
<1>4. CASE j.at # "start"
  BY <1>1, <1>2, <1>4 DEF Counted, Spent
<1> QED  BY <1>3, <1>4

(* The numbers of the attempts left to a worker.                           *)
LEMMA BlockCount ==
  ASSUME NEW w, NEW a \in Nat, NEW b \in Nat, a <= b
  PROVE  /\ IsFiniteSet({w} \X ((a + 1)..b))
         /\ Cardinality({w} \X ((a + 1)..b)) = b - a
<1>1. IsFiniteSet({w}) /\ Cardinality({w}) = 1
  BY FS_Singleton
<1>2. IsFiniteSet((a + 1)..b) /\ Cardinality((a + 1)..b) = b - a
  <2>1. a + 1 \in Int /\ b \in Int
    OBVIOUS
  <2>2. /\ IsFiniteSet((a + 1)..b)
        /\ Cardinality((a + 1)..b) = IF a + 1 > b THEN 0 ELSE b - (a + 1) + 1
    BY <2>1, FS_Interval
  <2> QED  BY <2>2
<1>3. /\ IsFiniteSet({w} \X ((a + 1)..b))
      /\ Cardinality({w} \X ((a + 1)..b)) = Cardinality({w}) * Cardinality((a + 1)..b)
  BY <1>1, <1>2, FS_Product
<1> QED  BY <1>1, <1>2, <1>3

(* A worker that moves changes what is left to itself alone.               *)
LEMMA AheadMoves ==
  ASSUME Inv, NEW r \in StageRun, IsFiniteSet(Ahead(r)), message' = message,
         NEW w \in Worker, NEW i \in Job, i = work[w], Counted(i), i.at # "idle" => i.sr \in StageRun,
         NEW j \in Job, Goto(w, j), Counted(j), j.at # "idle" => j.sr \in StageRun
  PROVE  /\ IsFiniteSet(Ahead(r)')
         /\ Left(i, r) \in Nat /\ Left(j, r) \in Nat
         /\ Cardinality(Ahead(r)') + Left(i, r) = Cardinality(Ahead(r)) + Left(j, r)
<1> DEFINE mine(l) == IF l.at # "idle" /\ l.sr = r THEN {w} \X ((Spent(l) + 1)..Allowed(r)) ELSE {}
           others == {s \in Ahead(r) : s[1] # w}
<1>1. Allowed(r) \in Nat /\ Allowed(r)' = Allowed(r)
  BY CountTypes, StageOfRun DEF Inv, Allowed, StageOf
<1>2. work'[w] = j /\ \A v \in Worker \ {w} : work'[v] = work[v]
  BY DEF Goto, Inv, TypeOK
<1>3. ASSUME NEW l \in Job, Counted(l), l.at # "idle" => l.sr \in StageRun
      PROVE  /\ IsFiniteSet(mine(l)) /\ Left(l, r) \in Nat
             /\ Cardinality(mine(l)) = Left(l, r)
             /\ mine(l) = {s \in {w} \X Nat : /\ l.at # "idle" /\ l.sr = r
                                              /\ Spent(l) < s[2] /\ s[2] <= Allowed(r)}
  <2>1. CASE l.at # "idle" /\ l.sr = r
    <3>1. Spent(l) \in Nat /\ Spent(l) <= Allowed(r)
      BY <1>3, <2>1, SpentBounds
    <3>2. /\ IsFiniteSet({w} \X ((Spent(l) + 1)..Allowed(r)))
          /\ Cardinality({w} \X ((Spent(l) + 1)..Allowed(r))) = Allowed(r) - Spent(l)
      BY <1>1, <3>1, BlockCount
    <3>3. mine(l) = {w} \X ((Spent(l) + 1)..Allowed(r)) /\ Left(l, r) = Allowed(r) - Spent(l)
      BY <2>1 DEF Left
    <3>4. \A k \in Nat : k \in (Spent(l) + 1)..Allowed(r) <=> Spent(l) < k /\ k <= Allowed(r)
      BY <1>1, <3>1
    <3>5. (Spent(l) + 1)..Allowed(r) \subseteq Nat
      BY <1>1, <3>1
    <3>6. mine(l) = {s \in {w} \X Nat : Spent(l) < s[2] /\ s[2] <= Allowed(r)}
      BY <3>3, <3>4, <3>5
    <3> QED  BY <1>1, <2>1, <3>1, <3>2, <3>3, <3>6
  <2>2. CASE ~(l.at # "idle" /\ l.sr = r)
    <3>1. mine(l) = {} /\ Left(l, r) = 0
      BY <2>2 DEF Left
    <3> QED  BY <2>2, <3>1, FS_EmptySet
  <2> QED  BY <2>1, <2>2
<1>4. /\ IsFiniteSet(mine(i)) /\ Left(i, r) \in Nat
      /\ Cardinality(mine(i)) = Left(i, r)
      /\ mine(i) = {s \in {w} \X Nat : /\ i.at # "idle" /\ i.sr = r
                                       /\ Spent(i) < s[2] /\ s[2] <= Allowed(r)}
  BY <1>3
<1>5. /\ IsFiniteSet(mine(j)) /\ Left(j, r) \in Nat
      /\ Cardinality(mine(j)) = Left(j, r)
      /\ mine(j) = {s \in {w} \X Nat : /\ j.at # "idle" /\ j.sr = r
                                       /\ Spent(j) < s[2] /\ s[2] <= Allowed(r)}
  BY <1>3
<1> HIDE DEF mine
<1>6. Ahead(r) = others \cup mine(i) /\ others \cap mine(i) = {}
  BY <1>4 DEF Ahead, On
<1>7. Ahead(r)' = others \cup mine(j) /\ others \cap mine(j) = {}
  <2>1. Ahead(r)' = {s \in Worker \X Nat : /\ work'[s[1]].at # "idle" /\ work'[s[1]].sr = r
                                          /\ Spent(work'[s[1]]) < s[2] /\ s[2] <= Allowed(r)}
    BY <1>1 DEF Ahead, On, Spent
  <2>2. others = {s \in Worker \X Nat : /\ s[1] # w /\ work[s[1]].at # "idle" /\ work[s[1]].sr = r
                                        /\ Spent(work[s[1]]) < s[2] /\ s[2] <= Allowed(r)}
    BY DEF Ahead, On
  <2>3. \A s \in Worker \X Nat : s \in Ahead(r)' <=> s \in others \/ s \in mine(j)
    BY <1>2, <1>5, <2>1, <2>2
  <2>4. others \subseteq Worker \X Nat /\ mine(j) \subseteq Worker \X Nat
        /\ Ahead(r)' \subseteq Worker \X Nat
    BY <1>5, <2>1, <2>2
  <2>5. others \cap mine(j) = {}
    BY <1>5, <2>2
  <2> QED  BY <2>3, <2>4, <2>5
<1>8. IsFiniteSet(others)
  <2>1. others \in SUBSET Ahead(r)
    OBVIOUS
  <2> QED  BY <2>1, FS_Subset
<1> HIDE DEF others
<1>9. \A S, T : IsFiniteSet(S) /\ IsFiniteSet(T) /\ S \cap T = {} =>
        /\ IsFiniteSet(S \cup T)
        /\ Cardinality(S \cup T) = Cardinality(S) + Cardinality(T)
  <2> TAKE S, T
  <2> HAVE IsFiniteSet(S) /\ IsFiniteSet(T) /\ S \cap T = {}
  <2>1. /\ IsFiniteSet(S \cup T)
        /\ Cardinality(S \cup T) = Cardinality(S) + Cardinality(T) - Cardinality(S \cap T)
    BY FS_Union
  <2>2. Cardinality(S \cap T) = 0 /\ Cardinality(S) \in Nat /\ Cardinality(T) \in Nat
    BY FS_EmptySet, FS_CardinalityType
  <2> QED  BY <2>1, <2>2
<1>10. /\ Cardinality(Ahead(r)) = Cardinality(others) + Left(i, r)
       /\ Cardinality(Ahead(r)') = Cardinality(others) + Left(j, r)
       /\ IsFiniteSet(Ahead(r)')
  <2>1. Cardinality(Ahead(r)) = Cardinality(others) + Left(i, r)
    BY <1>4, <1>6, <1>8, <1>9
  <2>2. Cardinality(Ahead(r)') = Cardinality(others) + Left(j, r) /\ IsFiniteSet(Ahead(r)')
    <3>1. PICK A : A = Ahead(r)'
      OBVIOUS
    <3>2. A = others \cup mine(j)
      BY <1>7, <3>1
    <3>3. IsFiniteSet(A) /\ Cardinality(A) = Cardinality(others) + Left(j, r)
      BY <1>5, <1>7, <1>8, <1>9, <3>2
    <3> QED  BY <3>1, <3>3
  <2> QED  BY <2>1, <2>2
<1>11. Cardinality(others) \in Nat
  BY <1>8, FS_CardinalityType
<1> QED  BY <1>4, <1>5, <1>10, <1>11

(* A recorded version adds one to those of its uploader at most.           *)
LEMMA RecordCount ==
  ASSUME Inv, NEW n \in Name, NEW v \in Version, RecordVersion(n, v), message' = message,
         NEW r \in StageRun
  PROVE  VersionsBy(r)' \subseteq VersionsBy(r)
                          \cup (IF v.by = r THEN {Len(log[StageOf(r)]) + 1} ELSE {})
<1>1. StageOf(r) \in Name /\ StageOf(r)' = StageOf(r)
  BY StageOfRun DEF StageOf, Inv
<1>2. log[n] \in Seq(Version) /\ log' = [log EXCEPT ![n] = Append(log[n], v)]
  BY DEF Inv, TypeOK, RecordVersion
<1>3. log'[n] = Append(log[n], v) /\ \A m \in Name \ {n} : log'[m] = log[m]
  BY <1>2 DEF Inv, TypeOK
<1>4. \A k \in DOMAIN log'[n] :
        \/ k \in DOMAIN log[n] /\ log'[n][k] = log[n][k]
        \/ k = Len(log[n]) + 1 /\ log'[n][k] = v
  BY <1>2, <1>3
<1>5. \A k \in VersionsBy(r)' : k \in VersionsBy(r) \/ (k = Len(log[StageOf(r)]) + 1 /\ v.by = r)
  BY <1>1, <1>3, <1>4 DEF VersionsBy
<1> QED  BY <1>5

LEMMA FewerVersions ==
  ASSUME Inv, NEW r \in StageRun, NEW k, VersionsBy(r)' \subseteq VersionsBy(r) \cup k,
         k = {} \/ \E x : k = {x}
  PROVE  Cardinality(VersionsBy(r)') <= Cardinality(VersionsBy(r)) + (IF k = {} THEN 0 ELSE 1)
<1>1. IsFiniteSet(VersionsBy(r)) /\ Cardinality(VersionsBy(r)) \in Nat
  BY VersionsFinite, FS_CardinalityType
<1>2. /\ IsFiniteSet(VersionsBy(r) \cup k)
      /\ Cardinality(VersionsBy(r) \cup k) <= Cardinality(VersionsBy(r)) + (IF k = {} THEN 0 ELSE 1)
      /\ Cardinality(VersionsBy(r) \cup k) \in Nat
  <2>1. CASE k = {}
    <3>1. VersionsBy(r) \cup k = VersionsBy(r)
      BY <2>1
    <3> QED  BY <1>1, <2>1, <3>1
  <2>2. CASE \E x : k = {x}
    <3>1. PICK x : k = {x}
      BY <2>2
    <3>2. /\ IsFiniteSet(VersionsBy(r) \cup {x})
          /\ Cardinality(VersionsBy(r) \cup {x}) =
               IF x \in VersionsBy(r) THEN Cardinality(VersionsBy(r))
               ELSE Cardinality(VersionsBy(r)) + 1
      BY <1>1, FS_AddElement
    <3>3. k # {}
      BY <3>1
    <3> QED  BY <1>1, <3>1, <3>2, <3>3
  <2> QED  BY <2>1, <2>2
<1>3. PICK V : V = VersionsBy(r)'
  OBVIOUS
<1>4. V \in SUBSET (VersionsBy(r) \cup k)
  BY <1>3
<1>5. Cardinality(V) <= Cardinality(VersionsBy(r) \cup k) /\ Cardinality(V) \in Nat
  BY <1>2, <1>4, FS_Subset, FS_CardinalityType
<1> QED  BY <1>1, <1>2, <1>3, <1>5

(* What a call adds to the versions of r.                                  *)
Bump(j, r) == IF j.at = "upload" /\ j.sr = r THEN 1 ELSE 0

LEMMA HandleCount ==
  ASSUME Inv, NEW j \in Job, JobOK(j), NEW b \in BOOLEAN, Handle(j, b), message' = message,
         NEW r \in StageRun
  PROVE  /\ Cardinality(VersionsBy(r)') <= Cardinality(VersionsBy(r)) + Bump(j, r)
         /\ HasOutcome(r)' =>
              \/ HasOutcome(r) /\ report'[r].attempts = report[r].attempts
              \/ j.at = "report" /\ j.sr = r /\ report'[r].attempts = j.attempt
<1>1. j.sr \in StageRun
  BY HandleOnly
<1>2. CASE j.at = "upload"
  <2>1. StageOf(j.sr) \in Name /\ message[j.sr].promote \in BOOLEAN
    BY <1>1, StageOfRun DEF Inv
  <2>2. NewVersion(j) \in Version /\ NewVersion(j).by = j.sr
    BY <1>1, <2>1, JobFields DEF NewVersion, Version, NoVersions, Versions
  <2>3. RecordVersion(StageOf(j.sr), NewVersion(j)) /\ report' = report
    BY <1>2 DEF Handle, Upload, NewVersion
  <2> DEFINE k == IF j.sr = r THEN {Len(log[StageOf(r)]) + 1} ELSE {}
  <2>4. VersionsBy(r)' \subseteq VersionsBy(r) \cup k
    BY <2>1, <2>2, <2>3, RecordCount
  <2>5. (k = {} <=> j.sr # r) /\ (k = {} \/ \E x : k = {x})
    OBVIOUS
  <2> HIDE DEF k
  <2>6. Cardinality(VersionsBy(r)') <= Cardinality(VersionsBy(r)) + (IF k = {} THEN 0 ELSE 1)
    BY <2>4, <2>5, FewerVersions
  <2> QED  BY <1>2, <2>3, <2>5, <2>6 DEF Bump, HasOutcome
<1>3. CASE j.at # "upload"
  <2>1. VersionsBy(r)' \subseteq VersionsBy(r) \cup {}
    BY <1>3, HandleOnly DEF VersionsStay
  <2>2. Cardinality(VersionsBy(r)') <= Cardinality(VersionsBy(r)) + Bump(j, r)
    BY <1>3, <2>1, FewerVersions DEF Bump
  <2>3. CASE j.sr # r \/ ~Reporting(j)
    BY <2>2, <2>3, HandleOnly DEF HasOutcome
  <2>4. CASE j.sr = r /\ Reporting(j)
    <3>1. CASE j.at = "start"
      BY <2>2, <2>4, <3>1, HandleOnly
    <3>2. CASE j.at = "report"
      <4>1. MarkOutcome(j) /\ report[r] \in Row
        BY <3>2 DEF Handle, Inv, TypeOK
      <4>2. report'[r].attempts = j.attempt
        <5>1. CASE j.version # 0
          BY <2>4, <4>1, <5>1 DEF MarkOutcome, Inv, TypeOK, Row
        <5>2. CASE j.version = 0
          BY <2>4, <4>1, <5>2 DEF MarkOutcome, Inv, TypeOK, Row
        <5> QED  BY <5>1, <5>2
      <4> QED  BY <2>2, <2>4, <3>2, <4>2
    <3> QED  BY <2>4, <3>1, <3>2 DEF Reporting
  <2> QED  BY <2>3, <2>4
<1> QED  BY <1>2, <1>3

(* What r may yet upload does not grow, and an execution that ends gives   *)
(* up what it had left.                                                    *)
LEMMA AccountKept ==
  ASSUME Inv, Inv', CountInv, IsFiniteSet(late'), message' = message,
         NEW r \in StageRun, IsFiniteSet(Ahead(r)'), Potential(r)' <= Potential(r),
         HasOutcome(r)' =>
           \/ HasOutcome(r) /\ report'[r].attempts = report[r].attempts
           \/ Potential(r)' + Allowed(r) <= Total(r) + report'[r].attempts,
         \A j \in late' : j.sr = r /\ j.at = "report" =>
           j \in late \/ Potential(r)' + Allowed(r) <= Total(r) + j.attempt
  PROVE  AccountOf(r)'
<1>1. Allowed(r)' = Allowed(r) /\ Total(r)' = Total(r)
  BY DEF Allowed, Total, StageOf
<1>2. AccountOf(r) /\ Potential(r) \in Nat /\ Potential(r)' \in Nat
  BY CountTypes, CountTypesNext DEF CountInv, AccountOf, CountTyped
<1>3. /\ Allowed(r) \in Nat /\ Total(r) \in Nat
      /\ report[r].attempts \in Nat /\ report'[r].attempts \in Nat
      /\ \A j \in late \cup late' : j.attempt \in Nat
  <2>1. report[r] \in Row /\ report'[r] \in Row /\ late \subseteq Job /\ late' \subseteq Job
    BY DEF Inv, TypeOK
  <2> QED  BY <1>2, <2>1, CountTypes, JobFields DEF CountInv, AccountOf, Row
<1>4. Potential(r)' <= Total(r)
  BY <1>2, <1>3 DEF AccountOf
<1>5. HasOutcome(r)' => Potential(r)' + Allowed(r) <= Total(r) + report'[r].attempts
  BY <1>2, <1>3 DEF AccountOf, Ended
<1>6. \A j \in late' : j.sr = r /\ j.at = "report" =>
        Potential(r)' + Allowed(r) <= Total(r) + j.attempt
  BY <1>2, <1>3 DEF AccountOf, Ended
<1> QED  BY <1>1, <1>4, <1>5, <1>6 DEF AccountOf, Ended

LEMMA LateCount ==
  ASSUME IsFiniteSet(late), NEW j, NEW r
  PROVE  /\ late' = late \/ late' = late \cup {j} \/ late' = late \ {j} => IsFiniteSet(late')
         /\ Cardinality(LateUploads(r)) \in Nat
         /\ late' = late => Cardinality(LateUploads(r)') = Cardinality(LateUploads(r))
         /\ late' = late \cup {j} =>
              Cardinality(LateUploads(r)') <= Cardinality(LateUploads(r)) + Bump(j, r)
         /\ j \in late /\ late' = late \ {j} =>
              Cardinality(LateUploads(r)') + Bump(j, r) = Cardinality(LateUploads(r))
<1>1. IsFiniteSet(late \cup {j}) /\ IsFiniteSet(late \ {j})
  BY FS_AddElement, FS_RemoveElement
<1>2. PICK L : L = LateUploads(r)
  OBVIOUS
<1>3. L \in SUBSET late
  BY <1>2 DEF LateUploads
<1>4. IsFiniteSet(L) /\ Cardinality(L) \in Nat
  BY <1>3, FS_Subset, FS_CardinalityType
<1>5. /\ Cardinality(L \cup {j}) = IF j \in L THEN Cardinality(L) ELSE Cardinality(L) + 1
      /\ Cardinality(L \ {j}) = IF j \in L THEN Cardinality(L) - 1 ELSE Cardinality(L)
  BY <1>4, FS_AddElement, FS_RemoveElement
<1>6. ASSUME late' = late PROVE Cardinality(LateUploads(r)') = Cardinality(L)
  BY <1>2, <1>6 DEF LateUploads
<1>7. ASSUME late' = late \cup {j} PROVE Cardinality(LateUploads(r)') <= Cardinality(L) + Bump(j, r)
  <2>1. LateUploads(r)' = IF Bump(j, r) = 1 THEN L \cup {j} ELSE L
    BY <1>2, <1>7 DEF LateUploads, Bump
  <2> QED  BY <1>4, <1>5, <2>1 DEF Bump
<1>8. ASSUME j \in late, late' = late \ {j}
      PROVE  Cardinality(LateUploads(r)') + Bump(j, r) = Cardinality(L)
  <2>1. LateUploads(r)' = IF Bump(j, r) = 1 THEN L \ {j} ELSE L
    BY <1>2, <1>8 DEF LateUploads, Bump
  <2>2. Bump(j, r) = 1 => j \in L
    BY <1>2, <1>8 DEF LateUploads, Bump
  <2> QED  BY <1>4, <1>5, <2>1, <2>2 DEF Bump
<1> QED  BY <1>1, <1>2, <1>4, <1>6, <1>7, <1>8

(* The call of a worker that moves was handled, or is late, or never will  *)
(* be.                                                                     *)
Sends(i) ==
  \/ Handle(i, FALSE) /\ late' = late
  \/ UNCHANGED <<report, log>> /\ late' = late \cup {i}

LEMMA WorkerCounts ==
  ASSUME Inv, Inv', CountInv, UNCHANGED <<message, queue>>,
         NEW w \in Worker, NEW i \in Job, i = work[w], i.at # "idle",
         NEW j \in Job, Goto(w, j), Counted(j), j.at = "idle" \/ j.sr = i.sr,
         Left(j, i.sr) <= Left(i, i.sr),
         \/ Sends(i) /\ Left(j, i.sr) + Bump(i, i.sr) <= Left(i, i.sr)
         \/ UNCHANGED <<report, log, late>>,
         i.at = "report" => j.at = "idle"
  PROVE  CountInv'
<1>1. JobOK(i) /\ i.sr \in StageRun /\ Counted(i)
  BY DEF Inv, JobInv, JobOK, CountInv
<1>2. IsFiniteSet(late')
  BY LateCount DEF Sends, CountInv
<1>3. /\ work'[w] = j /\ \A v \in Worker \ {w} : work'[v] = work[v]
      /\ \A l \in late' : l \in late \/ l = i
  BY DEF Goto, Inv, TypeOK, Sends
<1>4. \A l : Counted(l)' <=> Counted(l)
  BY DEF Counted, Allowed, StageOf
<1>5. \A v \in Worker : Counted(work[v])'
  BY <1>3, <1>4 DEF CountInv
<1>6. \A l \in late' : Counted(l)'
  BY <1>1, <1>3, <1>4 DEF CountInv
<1>7. ASSUME NEW r \in StageRun PROVE AccountOf(r)'
  <2>1. /\ IsFiniteSet(Ahead(r)')
        /\ Left(i, r) \in Nat /\ Left(j, r) \in Nat
        /\ Cardinality(Ahead(r)') + Left(i, r) = Cardinality(Ahead(r)) + Left(j, r)
    BY <1>1, AheadMoves DEF CountInv, AccountOf
  <2>2. /\ Cardinality(VersionsBy(r)) \in Nat /\ Cardinality(LateUploads(r)) \in Nat
        /\ Cardinality(Ahead(r)) \in Nat /\ Allowed(r) \in Nat
        /\ queue[r] * Allowed(r) \in Nat
    BY CountTypes DEF CountInv, AccountOf
  <2>3. /\ Cardinality(VersionsBy(r)') \in Nat /\ Cardinality(LateUploads(r)') \in Nat
        /\ Cardinality(Ahead(r)') \in Nat
    BY <1>2, <2>1, CountTypesNext DEF CountTyped
  <2>4. Potential(r)' = Cardinality(VersionsBy(r)') + Cardinality(LateUploads(r)')
                          + Cardinality(Ahead(r)') + queue[r] * Allowed(r)
    BY DEF Potential, Allowed, StageOf
  <2>5. r # i.sr => Left(i, r) = 0 /\ Left(j, r) = 0 /\ Bump(i, r) = 0
    BY DEF Left, Bump
  <2>6. UNCHANGED <<report, log>> => Cardinality(VersionsBy(r)') = Cardinality(VersionsBy(r))
    BY DEF VersionsBy, StageOf
  <2>7. Bump(i, r) \in {0, 1}
    BY DEF Bump
  <2>8. CASE Sends(i) /\ Left(j, i.sr) + Bump(i, i.sr) <= Left(i, i.sr)
    <3>1. Cardinality(VersionsBy(r)') + Cardinality(LateUploads(r)')
            <= Cardinality(VersionsBy(r)) + Cardinality(LateUploads(r)) + Bump(i, r)
      <4>1. CASE Handle(i, FALSE) /\ late' = late
        <5>1. Cardinality(VersionsBy(r)') <= Cardinality(VersionsBy(r)) + Bump(i, r)
          BY <1>1, <4>1, HandleCount
        <5>2. Cardinality(LateUploads(r)') = Cardinality(LateUploads(r))
          BY <4>1 DEF LateUploads
        <5> QED  BY <2>2, <2>3, <2>7, <5>1, <5>2
      <4>2. CASE UNCHANGED <<report, log>> /\ late' = late \cup {i}
        BY <2>2, <2>3, <2>6, <2>7, <4>2, LateCount DEF CountInv
      <4> QED  BY <2>8, <4>1, <4>2 DEF Sends
    <3>2. Cardinality(Ahead(r)') + Bump(i, r) <= Cardinality(Ahead(r))
      BY <2>1, <2>2, <2>3, <2>5, <2>7, <2>8
    <3>3. Potential(r)' <= Potential(r)
      BY <2>2, <2>3, <2>4, <2>7, <3>1, <3>2 DEF Potential
    <3>4. i.at = "report" /\ i.sr = r => Potential(r)' + Allowed(r) <= Total(r) + i.attempt
      <4> SUFFICES ASSUME i.at = "report", i.sr = r
                   PROVE  Potential(r)' + Allowed(r) <= Total(r) + i.attempt
        OBVIOUS
      <4>1. Left(j, r) = 0 /\ Left(i, r) = Allowed(r) - i.attempt /\ Bump(i, r) = 0
        BY DEF Left, Bump, Spent
      <4>2. i.attempt \in Nat /\ Total(r) \in Nat /\ Potential(r) <= Total(r)
        BY JobFields, CountTypes DEF CountInv, AccountOf
      <4> QED
        BY <2>1, <2>2, <2>3, <2>4, <3>1, <4>1, <4>2 DEF Potential
    <3>5. HasOutcome(r)' =>
           \/ HasOutcome(r) /\ report'[r].attempts = report[r].attempts
           \/ Potential(r)' + Allowed(r) <= Total(r) + report'[r].attempts
      <4>1. CASE Handle(i, FALSE)
        BY <1>1, <3>4, <4>1, HandleCount
      <4>2. CASE report' = report
        BY <4>2 DEF HasOutcome
      <4> QED  BY <2>8, <4>1, <4>2 DEF Sends
    <3> QED  BY <1>2, <1>3, <2>1, <3>3, <3>4, <3>5, AccountKept
  <2>9. CASE UNCHANGED <<report, log, late>>
    <3>1. Cardinality(LateUploads(r)') = Cardinality(LateUploads(r))
      BY <2>9 DEF LateUploads
    <3>2. Cardinality(Ahead(r)') <= Cardinality(Ahead(r))
      BY <2>1, <2>2, <2>3, <2>5
    <3>3. Potential(r)' <= Potential(r)
      BY <2>2, <2>3, <2>4, <2>6, <2>9, <3>1, <3>2 DEF Potential
    <3> QED  BY <1>2, <2>1, <2>9, <3>3, AccountKept DEF HasOutcome
  <2> QED  BY <2>8, <2>9
<1> QED  BY <1>2, <1>5, <1>6, <1>7 DEF CountInv

(* Another attempt leaves one less, as does a report without one.          *)
LEMMA NextAttemptCounts ==
  ASSUME Inv, NEW w \in Worker, NEW e \in Error, NextAttempt(w, e), NEW i \in Job,
         i = work[w], Computed(i), Counted(i)
  PROVE  \E j \in Job : /\ Goto(w, j) /\ j.sr = i.sr /\ j.at \in {"run", "report"}
                        /\ Counted(j) /\ Left(j, i.sr) + Bump(i, i.sr) <= Left(i, i.sr)
<1>1. PICK j \in Job : /\ Goto(w, j) /\ j.sr = i.sr /\ j.at \in {"run", "report"}
                       /\ j.at = "run" => i.attempt # Allowed(i.sr) /\ j.attempt = i.attempt + 1
                       /\ j.at = "report" => j.attempt = i.attempt
  BY NextAttemptFields DEF Allowed
<1>2. i.sr \in StageRun /\ Allowed(i.sr) \in Nat /\ i.attempt \in 1..Allowed(i.sr)
  <2>1. i.sr \in StageRun
    BY DEF Inv, JobInv, JobOK, Computed
  <2> QED  BY <2>1, StageOfRun DEF Inv, Allowed, Counted, Computed
<1>3. Counted(j)
  BY <1>1, <1>2 DEF Counted
<1>4. Left(i, i.sr) = Allowed(i.sr) - Spent(i) /\ Left(j, i.sr) = Allowed(i.sr) - Spent(j)
  BY <1>1 DEF Left, Computed
<1>5. Spent(j) = i.attempt
  BY <1>1, <1>2 DEF Spent
<1>6. Spent(i) = IF i.at \in {"run", "upload"} THEN i.attempt - 1 ELSE i.attempt
  BY DEF Spent, Computed
<1>7. Bump(i, i.sr) = IF i.at = "upload" THEN 1 ELSE 0
  BY DEF Bump
<1>8. Left(j, i.sr) + Bump(i, i.sr) <= Left(i, i.sr)
  BY <1>2, <1>4, <1>5, <1>6, <1>7
<1> QED  BY <1>1, <1>3, <1>8

(* How process_message and run_stage go on with an attempt.                *)
GoesOn(i, j) ==
  /\ j.sr = i.sr
  /\ j.attempt = IF i.at = "start" THEN 1 ELSE i.attempt
  /\ <<i.at, j.at>> \in
       {<<"start", "resolve">>, <<"resolve", "resolve">>, <<"resolve", "run">>,
        <<"resolve", "report">>, <<"run", "upload">>, <<"upload", "link">>,
        <<"link", "promote">>, <<"link", "report">>, <<"promote", "report">>}

LEMMA SameAttempt ==
  ASSUME Inv, Inv', CountInv, UNCHANGED <<message, queue>>,
         NEW w \in Worker, NEW i \in Job, i = work[w], NEW j \in Job, Goto(w, j), GoesOn(i, j),
         Sends(i) \/ (UNCHANGED <<report, log, late>> /\ i.at # "upload")
  PROVE  CountInv'
<1>1. i.at \notin {"idle", "report"} /\ j.at \notin {"idle", "start"}
  BY DEF GoesOn
<1>2. i.sr \in StageRun /\ Counted(i) /\ j.sr = i.sr
  BY <1>1 DEF Inv, JobInv, JobOK, CountInv, GoesOn
<1>3. Allowed(i.sr) \in Nat /\ Allowed(i.sr) > 0 /\ i.attempt \in Nat
  BY <1>2, StageOfRun, JobFields DEF Inv, Allowed
<1>4. Counted(j)
  BY <1>1, <1>2, <1>3 DEF Counted, GoesOn
<1>5. Spent(i) + Bump(i, i.sr) <= Spent(j)
  <2>1. CASE i.at = "start"
    BY <1>2, <2>1 DEF Counted, Spent, Bump, GoesOn
  <2>2. CASE i.at # "start"
    BY <1>2, <1>3, <2>2 DEF Spent, Bump, GoesOn
  <2> QED  BY <2>1, <2>2
<1>6. /\ Spent(i) \in Nat /\ Spent(i) <= Allowed(i.sr)
      /\ Spent(j) \in Nat /\ Spent(j) <= Allowed(i.sr)
  BY <1>1, <1>2, <1>4, SpentBounds
<1>7. Left(i, i.sr) = Allowed(i.sr) - Spent(i) /\ Left(j, i.sr) = Allowed(i.sr) - Spent(j)
  BY <1>1, <1>2 DEF Left
<1>8. Bump(i, i.sr) \in {0, 1}
  BY DEF Bump
<1>9. Left(j, i.sr) + Bump(i, i.sr) <= Left(i, i.sr) /\ Left(j, i.sr) <= Left(i, i.sr)
  BY <1>3, <1>5, <1>6, <1>7, <1>8
<1> QED  BY <1>1, <1>2, <1>4, <1>9, WorkerCounts

(* The steps that go on with an attempt.                                   *)
LEMMA AttemptCounts ==
  ASSUME Inv, Inv', CountInv, NEW w \in Worker,
         \/ ReportStart(w) \/ LinkAnswered(w) \/ PromoteAnswered(w)
         \/ \E n \in Name : ResolveInput(w, n)
         \/ InputsResolved(w) \/ SetupFails(w) \/ ExecuteStage(w)
  PROVE  CountInv'
<1>1. PICK i \in Job : i = work[w] /\ JobOK(i)
  BY DEF Inv, TypeOK, JobInv
<1>2. ASSUME NEW j \in Job, Goto(w, j), GoesOn(i, j), UNCHANGED <<message, queue>>,
             Sends(i) \/ (UNCHANGED <<report, log, late>> /\ i.at # "upload")
      PROVE  CountInv'
  BY <1>1, <1>2, SameAttempt
<1>3. CASE ReportStart(w)
  <2> DEFINE j == [i EXCEPT !.at = "resolve", !.attempt = 1]
  <2>1. j \in Job /\ GoesOn(i, j)
    BY <1>1, <1>3 DEF Job, Place, ReportStart, GoesOn
  <2> QED  BY <1>1, <1>2, <1>3, <2>1 DEF ReportStart, Sends
<1>4. CASE LinkAnswered(w)
  <2>1. PICK at \in {"promote", "report"} :
          at = IF message[i.sr].promote THEN "promote" ELSE "report"
    OBVIOUS
  <2> DEFINE j == [i EXCEPT !.at = at]
  <2>2. j \in Job /\ GoesOn(i, j)
    BY <1>1, <1>4, <2>1 DEF Job, Place, LinkAnswered, GoesOn
  <2>3. Goto(w, j)
    BY <1>1, <1>4, <2>1 DEF LinkAnswered
  <2> QED  BY <1>1, <1>2, <1>4, <2>2, <2>3 DEF LinkAnswered, Sends
<1>5. CASE PromoteAnswered(w)
  <2> DEFINE j == [i EXCEPT !.at = "report"]
  <2>1. j \in Job /\ GoesOn(i, j)
    BY <1>1, <1>5 DEF Job, Place, PromoteAnswered, GoesOn
  <2> QED  BY <1>1, <1>2, <1>5, <2>1 DEF PromoteAnswered, Sends
<1>6. ASSUME NEW n \in Name, ResolveInput(w, n) PROVE CountInv'
  <2>1. PICK k \in Nat : k = Wanted(i.sr, n)
    <3>1. i.sr \in StageRun
      BY <1>1, <1>6 DEF JobOK, ResolveInput
    <3> QED  BY <3>1, StageOfRun DEF Inv, TypeOK, Wanted, Versions
  <2> DEFINE j == [i EXCEPT !.inputs[n] = k]
  <2>2. j \in Job /\ GoesOn(i, j)
    BY <1>1, <1>6, <2>1 DEF Job, Versions, ResolveInput, GoesOn
  <2> QED  BY <1>1, <1>2, <1>6, <2>1, <2>2 DEF ResolveInput
<1>7. CASE InputsResolved(w)
  <2> DEFINE j == [i EXCEPT !.at = "run"]
  <2>1. j \in Job /\ GoesOn(i, j)
    BY <1>1, <1>7 DEF Job, Place, InputsResolved, GoesOn
  <2> QED  BY <1>1, <1>2, <1>7, <2>1 DEF InputsResolved
<1>8. CASE SetupFails(w)
  <2> DEFINE j == [i EXCEPT !.at = "report", !.error = "setup"]
  <2>1. j \in Job /\ GoesOn(i, j)
    BY <1>1, <1>8 DEF Job, Place, Error, SetupFails, GoesOn
  <2> QED  BY <1>1, <1>2, <1>8, <2>1 DEF SetupFails
<1>9. CASE ExecuteStage(w)
  <2>1. PICK ok \in BOOLEAN : Goto(w, [i EXCEPT !.at = "upload", !.ok = ok])
    BY <1>1, <1>9 DEF ExecuteStage
  <2> DEFINE j == [i EXCEPT !.at = "upload", !.ok = ok]
  <2>2. j \in Job /\ GoesOn(i, j)
    BY <1>1, <1>9 DEF Job, Place, ExecuteStage, GoesOn
  <2> QED  BY <1>1, <1>2, <1>9, <2>1, <2>2 DEF ExecuteStage
<1> QED  BY <1>3, <1>4, <1>5, <1>6, <1>7, <1>8, <1>9

(* The next attempt, after a call that failed, was refused or is late.     *)
LEMMA RetryCounts ==
  ASSUME Inv, Inv', CountInv, UNCHANGED <<message, queue>>, NEW w \in Worker, NEW e \in Error,
         NextAttempt(w, e), NEW i \in Job, i = work[w], Computed(i),
         Sends(i) \/ UNCHANGED <<report, log, late>>
  PROVE  CountInv'
<1>1. i.sr \in StageRun /\ Counted(i) /\ i.at \notin {"idle", "report"}
  BY DEF Inv, JobInv, JobOK, CountInv, Computed
<1>2. PICK j \in Job : /\ Goto(w, j) /\ j.sr = i.sr /\ j.at \in {"run", "report"}
                       /\ Counted(j) /\ Left(j, i.sr) + Bump(i, i.sr) <= Left(i, i.sr)
  BY <1>1, NextAttemptCounts
<1>3. Left(j, i.sr) <= Left(i, i.sr)
  <2>1. Allowed(i.sr) \in Nat /\ Spent(i) \in Nat /\ Spent(j) \in Nat
    BY <1>1, <1>2, SpentBounds, StageOfRun DEF Inv, Allowed
  <2>2. Left(j, i.sr) \in Int /\ Left(i, i.sr) \in Int /\ Bump(i, i.sr) \in {0, 1}
    BY <2>1 DEF Left, Bump
  <2> QED  BY <1>2, <2>2
<1> QED  BY <1>1, <1>2, <1>3, WorkerCounts

(* A worker that is done with its message, or has given it up.             *)
LEMMA IdleCounts ==
  ASSUME Inv, Inv', CountInv, UNCHANGED <<message, queue>>, NEW w \in Worker,
         work[w].at # "idle", Goto(w, Idle),
         (Sends(work[w]) /\ work[w].at # "upload") \/ UNCHANGED <<report, log, late>>
  PROVE  CountInv'
<1>1. PICK i \in Job : i = work[w] /\ JobOK(i) /\ Counted(i) /\ i.sr \in StageRun
  BY DEF Inv, TypeOK, JobInv, JobOK, CountInv
<1>2. Idle \in Job /\ Idle.at = "idle" /\ Counted(Idle) /\ Left(Idle, i.sr) = 0
  BY IdleOK DEF Idle, Left, Counted
<1>3. Spent(i) \in Nat /\ Spent(i) <= Allowed(i.sr) /\ Allowed(i.sr) \in Nat
  BY <1>1, SpentBounds, StageOfRun DEF Inv, Allowed
<1>4. Left(Idle, i.sr) <= Left(i, i.sr)
  BY <1>1, <1>2, <1>3 DEF Left
<1>5. i.at # "upload" => Left(Idle, i.sr) + Bump(i, i.sr) <= Left(i, i.sr)
  BY <1>1, <1>2, <1>3 DEF Left, Bump
<1> QED  BY <1>1, <1>2, <1>4, <1>5, WorkerCounts

LEMMA StepCounts ==
  ASSUME Inv, Inv', CountInv, NEW w \in Worker,
         UploadAnswered(w) \/ ReportOutcome(w) \/ StageRaises(w)
  PROVE  CountInv'
<1>1. PICK i \in Job : i = work[w] /\ JobOK(i)
  BY DEF Inv, TypeOK, JobInv
<1>2. CASE UploadAnswered(w)
  <2>1. i.at = "upload" /\ Sends(i) /\ UNCHANGED <<message, queue>>
    BY <1>1, <1>2 DEF UploadAnswered, Sends
  <2>2. CASE i.ok
    <3>1. PICK k \in Nat : k = Len(log[StageOf(i.sr)]) + 1
      BY <1>1, <2>1, StageOfRun DEF Inv, JobOK
    <3> DEFINE j == [i EXCEPT !.at = "link", !.version = k]
    <3>2. j \in Job /\ GoesOn(i, j)
      BY <2>1 DEF Job, Place, GoesOn
    <3>3. Goto(w, j)
      BY <1>1, <1>2, <2>2, <3>1 DEF UploadAnswered
    <3> QED  BY <1>1, <2>1, <3>2, <3>3, SameAttempt
  <2>3. CASE ~i.ok
    <3>1. NextAttempt(w, "contract") /\ "contract" \in Error /\ Computed(i)
      BY <1>1, <1>2, <2>1, <2>3 DEF UploadAnswered, Error, Computed
    <3> QED  BY <1>1, <2>1, <3>1, RetryCounts
  <2> QED  BY <2>2, <2>3
<1>3. CASE ReportOutcome(w)
  BY <1>3, IdleCounts DEF ReportOutcome, Sends
<1>4. CASE StageRaises(w)
  <2>1. ErrorSeen \in Error /\ Computed(i)
    BY <1>1, <1>4 DEF ErrorSeen, Error, StageRaises, Computed
  <2> QED  BY <1>1, <1>4, <2>1, RetryCounts DEF StageRaises
<1> QED  BY <1>2, <1>3, <1>4

LEMMA FaultsCount ==
  ASSUME Inv, Inv', CountInv, NEW w \in Worker,
         CallRefused(w) \/ CallTimesOut(w) \/ Dies(w)
  PROVE  CountInv'
<1>1. PICK i \in Job : i = work[w] /\ JobOK(i)
  BY DEF Inv, TypeOK, JobInv
<1>2. CASE Dies(w)
  BY <1>2, IdleCounts DEF Dies
<1>3. CASE CallRefused(w) \/ CallTimesOut(w)
  <2>1. /\ i.at \in Calls /\ CallRaises(w) /\ UNCHANGED <<message, queue>>
        /\ Sends(i) \/ UNCHANGED <<report, log, late>>
    BY <1>1, <1>3 DEF CallRefused, CallTimesOut, Sends
  <2>2. CASE i.at \in {"start", "report"}
    <3>1. Goto(w, Idle)
      BY <1>1, <2>1, <2>2 DEF CallRaises
    <3> QED  BY <1>1, <2>1, <2>2, <3>1, IdleCounts
  <2>3. CASE i.at \notin {"start", "report"}
    <3>1. Computed(i) /\ NextAttempt(w, "unanswered") /\ "unanswered" \in Error
      BY <1>1, <2>1, <2>3 DEF Calls, Computed, CallRaises, Error
    <3> QED  BY <1>1, <2>1, <3>1, RetryCounts
  <2> QED  BY <2>2, <2>3
<1> QED  BY <1>2, <1>3

(* A step in which no worker moves.                                        *)
LEMMA StillCounts ==
  ASSUME Inv, Inv', CountInv, UNCHANGED <<message, queue, work>>, IsFiniteSet(late'),
         late' \subseteq late,
         ASSUME NEW r \in StageRun, Cardinality(VersionsBy(r)') \in Nat,
                Cardinality(LateUploads(r)') \in Nat
         PROVE  /\ Cardinality(VersionsBy(r)') + Cardinality(LateUploads(r)')
                     <= Cardinality(VersionsBy(r)) + Cardinality(LateUploads(r))
                /\ HasOutcome(r)' =>
                     \/ HasOutcome(r) /\ report'[r].attempts = report[r].attempts
                     \/ \E j \in late : j.sr = r /\ j.at = "report" /\ report'[r].attempts = j.attempt
  PROVE  CountInv'
<1>1. \A l : Counted(l)' <=> Counted(l)
  BY DEF Counted, Allowed, StageOf
<1>2. /\ \A w \in Worker : Counted(work[w])'
      /\ \A l \in late' : Counted(l)'
  BY <1>1 DEF CountInv
<1>3. ASSUME NEW r \in StageRun PROVE AccountOf(r)'
  <2>1. Ahead(r)' = Ahead(r) /\ IsFiniteSet(Ahead(r))
    BY DEF Ahead, On, Spent, Allowed, StageOf, CountInv, AccountOf
  <2>2. /\ Cardinality(VersionsBy(r)) \in Nat /\ Cardinality(LateUploads(r)) \in Nat
        /\ Cardinality(Ahead(r)) \in Nat /\ Allowed(r) \in Nat
        /\ queue[r] * Allowed(r) \in Nat /\ Total(r) \in Nat /\ Potential(r) \in Nat
    BY <2>1, CountTypes DEF CountInv
  <2>3. /\ Cardinality(VersionsBy(r)') \in Nat /\ Cardinality(LateUploads(r)') \in Nat
        /\ Potential(r)' \in Nat
    BY <2>1, CountTypesNext DEF CountTyped
  <2>4. Potential(r)' = Cardinality(VersionsBy(r)') + Cardinality(LateUploads(r)')
                          + Cardinality(Ahead(r)) + queue[r] * Allowed(r)
    BY <2>1 DEF Potential, Allowed, StageOf
  <2>5. Potential(r)' <= Potential(r)
    BY <2>2, <2>3, <2>4 DEF Potential
  <2>6. HasOutcome(r)' =>
          \/ HasOutcome(r) /\ report'[r].attempts = report[r].attempts
          \/ Potential(r)' + Allowed(r) <= Total(r) + report'[r].attempts
    <3> SUFFICES ASSUME NEW j \in late, j.sr = r, j.at = "report",
                        report'[r].attempts = j.attempt
                 PROVE  Potential(r)' + Allowed(r) <= Total(r) + j.attempt
      BY <2>3
    <3>1. Potential(r) + Allowed(r) <= Total(r) + j.attempt
      BY DEF CountInv, AccountOf, Ended
    <3>2. j.attempt \in Nat
      BY JobFields DEF Inv, TypeOK
    <3> QED  BY <2>2, <2>3, <2>5, <3>1, <3>2
  <2> QED  BY <2>1, <2>5, <2>6, AccountKept
<1> QED  BY <1>2, <1>3 DEF CountInv

LEMMA HandleLateCounts ==
  ASSUME Inv, Inv', CountInv, NEW j \in late, HandleLate(j)
  PROVE  CountInv'
<1>1. j \in Job /\ JobOK(j)
  BY DEF Inv, TypeOK, JobInv
<1>2. /\ Handle(j, TRUE) /\ late' = late \ {j} /\ late' \subseteq late
      /\ UNCHANGED <<message, queue, work>>
  BY DEF HandleLate
<1>3. IsFiniteSet(late')
  BY <1>2, LateCount DEF CountInv
<1>4. ASSUME NEW r \in StageRun, Cardinality(VersionsBy(r)') \in Nat,
             Cardinality(LateUploads(r)') \in Nat
      PROVE  /\ Cardinality(VersionsBy(r)') + Cardinality(LateUploads(r)')
                  <= Cardinality(VersionsBy(r)) + Cardinality(LateUploads(r))
             /\ HasOutcome(r)' =>
                  \/ HasOutcome(r) /\ report'[r].attempts = report[r].attempts
                  \/ \E i \in late : i.sr = r /\ i.at = "report" /\ report'[r].attempts = i.attempt
  <2>1. /\ Cardinality(VersionsBy(r)') <= Cardinality(VersionsBy(r)) + Bump(j, r)
        /\ HasOutcome(r)' =>
              \/ HasOutcome(r) /\ report'[r].attempts = report[r].attempts
              \/ j.at = "report" /\ j.sr = r /\ report'[r].attempts = j.attempt
    BY <1>1, <1>2, HandleCount
  <2>2. Cardinality(LateUploads(r)') + Bump(j, r) = Cardinality(LateUploads(r))
    BY <1>2, LateCount DEF CountInv
  <2>3. Cardinality(VersionsBy(r)) \in Nat /\ Bump(j, r) \in {0, 1}
    BY CountTypes DEF CountInv, AccountOf, Bump
  <2>4. Cardinality(VersionsBy(r)') + Cardinality(LateUploads(r)')
          <= Cardinality(VersionsBy(r)) + Cardinality(LateUploads(r))
    BY <1>4, <2>1, <2>2, <2>3
  <2> QED  BY <2>1, <2>4
<1> QED  BY <1>2, <1>3, <1>4, StillCounts

LEMMA SameLogCounts ==
  ASSUME Inv, Inv', CountInv, UNCHANGED <<message, queue, work, report, late>>,
         \A r \in StageRun : VersionsBy(r)' \subseteq VersionsBy(r) \cup {}
  PROVE  CountInv'
<1>1. ASSUME NEW r \in StageRun, Cardinality(VersionsBy(r)') \in Nat
      PROVE  Cardinality(VersionsBy(r)') + Cardinality(LateUploads(r)')
               <= Cardinality(VersionsBy(r)) + Cardinality(LateUploads(r))
  <2>1. Cardinality(VersionsBy(r)') <= Cardinality(VersionsBy(r))
    <3>1. Cardinality(VersionsBy(r)') <= Cardinality(VersionsBy(r)) + 0
      BY FewerVersions
    <3>2. Cardinality(VersionsBy(r)) \in Nat
      BY CountTypes DEF CountInv, AccountOf
    <3> QED  BY <1>1, <3>1, <3>2
  <2>2. LateUploads(r)' = LateUploads(r) /\ Cardinality(LateUploads(r)) \in Nat
    BY LateCount DEF LateUploads, CountInv
  <2>3. Cardinality(VersionsBy(r)) \in Nat
    BY CountTypes DEF CountInv, AccountOf
  <2> QED  BY <1>1, <2>1, <2>2, <2>3
<1>2. IsFiniteSet(late')
  BY DEF CountInv
<1> QED  BY <1>1, <1>2, StillCounts DEF HasOutcome

LEMMA PeopleCount ==
  ASSUME Inv, Inv', CountInv, People
  PROVE  CountInv'
<1>1. PICK n \in Name, ok \in BOOLEAN, promote \in BOOLEAN :
        \/ ResourceUpload(n, ok, promote)
        \/ \E k \in DOMAIN log[n] : PromoteUploaded(n, k) \/ ConfirmPromote(n, k)
  BY DEF People
<1>2. CASE ResourceUpload(n, ok, promote)
  <2>1. Uploaded(ok, promote) \in Version /\ Uploaded(ok, promote).by = None
    BY DEF Uploaded, Version, NoVersions, Versions
  <2>2. /\ RecordVersion(n, Uploaded(ok, promote))
        /\ UNCHANGED <<message, queue, work, report, late>>
    BY <1>2 DEF ResourceUpload
  <2>3. \A r \in StageRun : VersionsBy(r)' \subseteq VersionsBy(r) \cup {}
    BY <2>1, <2>2, RecordCount, WorkerAssumption
  <2> QED  BY <2>2, <2>3, SameLogCounts
<1>3. CASE \E k \in DOMAIN log[n] : PromoteUploaded(n, k) \/ ConfirmPromote(n, k)
  <2>1. UNCHANGED <<message, queue, work, report, late, log>>
    BY <1>3 DEF PromoteUploaded, ConfirmPromote
  <2>2. \A r \in StageRun : VersionsBy(r)' \subseteq VersionsBy(r) \cup {}
    BY <2>1 DEF VersionsBy, StageOf
  <2> QED  BY <2>1, <2>2, SameLogCounts
<1> QED  BY <1>1, <1>2, <1>3

(* A copy that is popped becomes the attempts of one execution.            *)
LEMMA PopCounts ==
  ASSUME Inv, Inv', CountInv, NEW w \in Worker, NEW q \in StageRun, Pop(w, q)
  PROVE  CountInv'
<1> DEFINE j == [Idle EXCEPT !.at = "start", !.sr = q]
<1>1. j \in Job /\ j.at = "start" /\ j.sr = q /\ j.attempt = 0
  BY IdleOK DEF Idle, Job, Place
<1>2. Counted(j)
  BY <1>1 DEF Counted
<1>3. /\ Goto(w, j) /\ UNCHANGED <<message, report, log, late>>
      /\ queue[q] \in Nat /\ queue[q] > 0 /\ queue'[q] = queue[q] - 1
      /\ \A r \in StageRun \ {q} : queue'[r] = queue[r]
  BY DEF Pop, Inv, TypeOK
<1>4. PICK i \in Job : i = work[w] /\ i.at = "idle" /\ Counted(i)
  BY DEF Pop, Inv, TypeOK, CountInv
<1> HIDE DEF j
<1>5. work'[w] = j /\ \A v \in Worker \ {w} : work'[v] = work[v]
  BY <1>3 DEF Goto, Inv, TypeOK
<1>6. \A l : Counted(l)' <=> Counted(l)
  BY <1>3 DEF Counted, Allowed, StageOf
<1>7. /\ \A v \in Worker : Counted(work[v])'
      /\ \A l \in late' : Counted(l)'
  BY <1>2, <1>3, <1>5, <1>6 DEF CountInv
<1>8. ASSUME NEW r \in StageRun PROVE AccountOf(r)'
  <2>1. /\ IsFiniteSet(Ahead(r)')
        /\ Left(i, r) \in Nat /\ Left(j, r) \in Nat
        /\ Cardinality(Ahead(r)') + Left(i, r) = Cardinality(Ahead(r)) + Left(j, r)
    BY <1>1, <1>2, <1>3, <1>4, AheadMoves DEF CountInv, AccountOf
  <2>2. /\ Cardinality(VersionsBy(r)) \in Nat /\ Cardinality(LateUploads(r)) \in Nat
        /\ Cardinality(Ahead(r)) \in Nat /\ Allowed(r) \in Nat
        /\ queue[r] * Allowed(r) \in Nat
    BY CountTypes DEF CountInv, AccountOf
  <2>3. Cardinality(Ahead(r)') \in Nat /\ IsFiniteSet(late')
    BY <1>3, <2>1, CountTypesNext DEF CountInv, CountTyped
  <2>4. Left(i, r) = 0 /\ Left(j, r) = IF r = q THEN Allowed(r) ELSE 0
    BY <1>1, <1>4, <2>2 DEF Left, Spent
  <2>5. VersionsBy(r)' = VersionsBy(r) /\ LateUploads(r)' = LateUploads(r)
        /\ Allowed(r)' = Allowed(r)
    BY <1>3 DEF VersionsBy, LateUploads, Allowed, StageOf
  <2>6. /\ queue'[r] * Allowed(r) \in Nat
        /\ queue'[r] * Allowed(r) + Left(j, r) = queue[r] * Allowed(r)
    <3>1. CASE r = q
      <4>1. queue'[r] = queue[r] - 1 /\ queue'[r] \in Nat
        BY <1>3, <3>1
      <4> QED  BY <1>3, <2>2, <2>4, <3>1, <4>1, OneCopyLess, CopiesTimesAttempts
    <3>2. CASE r # q
      BY <1>3, <2>2, <2>4, <3>2
    <3> QED  BY <3>1, <3>2
  <2>7. Potential(r)' = Cardinality(VersionsBy(r)) + Cardinality(LateUploads(r))
                          + Cardinality(Ahead(r)') + queue'[r] * Allowed(r)
    BY <2>5 DEF Potential
  <2>8. Potential(r)' <= Potential(r)
    <3>1. Cardinality(Ahead(r)') = Cardinality(Ahead(r)) + Left(j, r)
      BY <2>1, <2>2, <2>3, <2>4
    <3>2. \A a, b, c, d, e, f \in Nat :
            e + c = f => a + b + (d + c) + e <= a + b + d + f
      OBVIOUS
    <3> QED  BY <2>1, <2>2, <2>6, <2>7, <3>1, <3>2 DEF Potential
  <2> QED  BY <1>3, <2>1, <2>3, <2>8, AccountKept DEF HasOutcome
<1>9. IsFiniteSet(late')
  BY <1>3 DEF CountInv
<1> QED  BY <1>7, <1>8, <1>9 DEF CountInv

LEMMA NextCounts ==
  ASSUME Inv, Inv', CountInv, Next
  PROVE  CountInv'
<1>1. ASSUME NEW w \in Worker, Step(w) PROVE CountInv'
  BY <1>1, PopCounts, AttemptCounts, StepCounts DEF Step
<1>2. CASE \E w \in Worker : Step(w) \/ CallRefused(w) \/ CallTimesOut(w) \/ Dies(w)
  BY <1>1, <1>2, FaultsCount
<1>3. CASE \E j \in late : HandleLate(j)
  BY <1>3, HandleLateCounts
<1>4. CASE People
  BY <1>4, PeopleCount
<1> QED  BY <1>2, <1>3, <1>4 DEF Next

LEMMA InitCounts ==
  ASSUME Init
  PROVE  CountInv
<1>1. /\ IsFiniteSet({}) /\ Cardinality({}) = 0
  BY FS_EmptySet
<1>2. late = {} /\ \A w \in Worker : work[w].at = "idle"
  BY DEF Init, Idle
<1>3. ASSUME NEW r \in StageRun PROVE AccountOf(r)
  <2>1. Ahead(r) = {} /\ LateUploads(r) = {} /\ ~HasOutcome(r)
    BY <1>2 DEF Init, Ahead, On, LateUploads, HasOutcome
  <2>2. VersionsBy(r) = {}
    BY NoVersionsYet
  <2>3. queue[r] * Allowed(r) = Total(r) /\ Total(r) \in Nat
    <3>1. queue[r] = message[r].copies
      BY DEF Init
    <3>2. Total(r) \in Nat
      BY <1>1, <1>2, <2>1, InitInv, CountTypes
    <3> QED  BY <3>1, <3>2 DEF Total
  <2>4. Potential(r) = 0 + 0 + 0 + Total(r)
    BY <1>1, <2>1, <2>2, <2>3 DEF Potential
  <2> QED  BY <1>1, <1>2, <2>1, <2>3, <2>4 DEF AccountOf
<1> QED  BY <1>1, <1>2, <1>3 DEF CountInv, Counted

(* Runner.run_stage's loop over the attempts, complete_stage_run and       *)
(* fail_stage_run: what a stage run has uploaded or may yet is accounted   *)
(* for by the attempts it reports and by those of the other copies of its  *)
(* message, whatever fails, is late or dies.                               *)
THEOREM AttemptsAccountForVersions == Spec => []AttemptsAccounted
<1>1. Init => Inv /\ CountInv
  BY InitInv, InitCounts
<1>2. Inv /\ Inv' /\ CountInv /\ [Next]_vars => CountInv'
  <2> SUFFICES ASSUME Inv, Inv', CountInv, [Next]_vars PROVE CountInv'
    OBVIOUS
  <2>1. CASE Next
    BY <2>1, NextCounts
  <2>2. CASE UNCHANGED vars
    <3>1. \A r \in StageRun : VersionsBy(r)' \subseteq VersionsBy(r) \cup {}
      BY <2>2 DEF vars, VersionsBy, StageOf
    <3> QED  BY <2>2, <3>1, SameLogCounts DEF vars
  <2> QED  BY <2>1, <2>2
<1>3. Inv /\ CountInv => AttemptsAccounted
  <2> SUFFICES ASSUME Inv, CountInv, NEW r \in StageRun, HasOutcome(r)
               PROVE  Cardinality(VersionsBy(r)) + Cardinality(LateUploads(r))
                        <= report[r].attempts + (message[r].copies - 1) * Allowed(r)
    BY DEF AttemptsAccounted, HasOutcome, LateUploads, Allowed
  <2>1. AccountOf(r) /\ Potential(r) + Allowed(r) <= Total(r) + report[r].attempts
    BY DEF CountInv, AccountOf, Ended
  <2>2. /\ Cardinality(VersionsBy(r)) \in Nat /\ Cardinality(LateUploads(r)) \in Nat
        /\ Cardinality(Ahead(r)) \in Nat /\ Allowed(r) \in Nat
        /\ queue[r] * Allowed(r) \in Nat /\ Total(r) \in Nat
    BY <2>1, CountTypes DEF CountInv, AccountOf
  <2>3. report[r] \in Row /\ message[r].copies \in Nat /\ message[r].copies > 0
    BY WorkerAssumption DEF Inv, TypeOK, MessageType
  <2>4. message[r].copies - 1 \in Nat /\ report[r].attempts \in Nat
    BY <2>3 DEF Row
  <2>5. /\ (message[r].copies - 1) * Allowed(r) + Allowed(r) = Total(r)
        /\ (message[r].copies - 1) * Allowed(r) \in Nat
    BY <2>2, <2>3, <2>4, OneCopyLess, CopiesTimesAttempts DEF Total
  <2>6. \A a, b, c, d, e, f, g \in Nat : a + b + c + d + e <= (f + e) + g => a + b <= g + f
    OBVIOUS
  <2> QED  BY <2>1, <2>2, <2>4, <2>5, <2>6 DEF Potential
<1> QED  BY <1>1, <1>2, <1>3, WorkerInvariant, PTL DEF Spec
=============================================================================
