----------------------------- MODULE RunLifecycle -----------------------------
(***************************************************************************)
(* What a workflow run promises its client, with no scheduler, queue or    *)
(* worker in it: each stage in the run's range is dispatched at most once, *)
(* only while the run is active, and only when every stage it depends on   *)
(* has completed, was replaced under the fallback policy or is pinned; the *)
(* run ends once, and for a reason.  A request that cannot be executed     *)
(* dispatches nothing and fails.                                           *)
(***************************************************************************)
EXTENDS Workflow

VARIABLES
  request,  \* what each run was requested with
  status,   \* of each run
  asked,    \* the runs whose cancellation is recorded
  progress  \* of each stage in each run

vars == <<request, status, asked, progress>>

Progress == {"waiting", "dispatched", "completed", "failed", "replaced"}

Settled(r, s) == progress[r][s] \in {"completed", "replaced"}
Pinned(r, n) == n \in Known(Overrides(request[r]))

Init ==
  /\ request \in [Run -> Request]
  /\ status = [r \in Run |-> "requested"]
  /\ asked = {}
  /\ progress = [r \in Run |-> [s \in Stage |-> "waiting"]]

Move(r, s, from, to) ==
  /\ progress[r][s] \in from
  /\ progress' = [progress EXCEPT ![r][s] = to]
  /\ UNCHANGED <<request, status, asked>>

Dispatch(r, s) ==
  /\ status[r] \in Active
  /\ ~Rejected(request[r])
  /\ s \in Reachable(request[r])
  /\ \A n \in DependsOn[s] \cap Stage : Settled(r, n) \/ Pinned(r, n)
  /\ Move(r, s, {"waiting"}, "dispatched")

(* A stage that is executing when its run ends is not interrupted.         *)
Finish(r, s) ==
  \E outcome \in {"completed", "failed"} : Move(r, s, {"dispatched"}, outcome)

Replace(r, s) ==
  /\ status[r] \in Active
  /\ ~Rejected(request[r])
  /\ EffectiveOnFailure(request[r]) = "fallback"
  /\ Move(r, s, {"failed"}, "replaced")

SetStatus(r, st) ==
  /\ status' = [status EXCEPT ![r] = st]
  /\ UNCHANGED <<request, asked, progress>>

Start(r) ==
  /\ status[r] = "requested"
  /\ \E s \in Stage : progress[r][s] # "waiting"
  /\ SetStatus(r, "running")

Complete(r) ==
  /\ status[r] \in Active
  /\ ~Rejected(request[r])
  /\ \/ request[r].stop_after \in Stage /\ Settled(r, request[r].stop_after)
     \/ \A s \in Reachable(request[r]) : Settled(r, s) \/ Pinned(r, s)
  /\ SetStatus(r, "completed")

Fail(r) ==
  /\ status[r] \in Active
  /\ \/ Rejected(request[r])
     \/ \E s \in Stage : progress[r][s] \in {"failed", "replaced"}
     \/ \E n \in ExternalDeps(request[r]) : ~Pinned(r, n)
  /\ SetStatus(r, "failed")

Cancel(r) ==
  /\ status[r] \in Active
  /\ r \in asked
  /\ SetStatus(r, "cancelled")

Ask(r) ==
  /\ asked' = asked \cup {r}
  /\ UNCHANGED <<request, status, progress>>

Next ==
  \E r \in Run :
    \/ Start(r) \/ Complete(r) \/ Fail(r) \/ Cancel(r) \/ Ask(r)
    \/ \E s \in Stage : Dispatch(r, s) \/ Finish(r, s) \/ Replace(r, s)

Spec == Init /\ [][Next]_vars
=============================================================================
