------------------------------- MODULE Workflow -------------------------------
(***************************************************************************)
(* What the scheduler knows of a workflow and of a request to run it: the  *)
(* StageRegistry (lib/stages.py), its graph (lib/dag.py) and the columns   *)
(* of a runs row that are written once (services/scheduler).               *)
(***************************************************************************)
EXTENDS Naturals

CONSTANTS
  Run,              \* ids of the rows of runs, all created by intake
  Name,             \* resource names
  Stage,            \* the names the workflow registers a stage for
  DependsOn,        \* StageDef.depends_on of each stage
  DefaultOnFailure, \* StageRegistry.on_failure of the workflow
  Request,          \* the requests a run may have been created from
  None              \* SQL NULL / Python None

Policy == {"halt", "fallback"}

(* A dict from resource names to version numbers, which count from 1: a    *)
(* name mapped to 0 is not in the dict.                                    *)
Versions == [Name -> Nat]
NoVersions == [n \in Name |-> 0]
Known(f) == {n \in Name : f[n] # 0}

(* Mutant of Update: the entries of f win.                                 *)
UpdateMissing(f, g) == [n \in Name |-> IF f[n] # 0 THEN f[n] ELSE g[n]]

(* dict.update                                                             *)
Update(f, g) == [n \in Name |-> IF g[n] # 0 THEN g[n] ELSE f[n]]

(* `loads` is whether the workflow's module can be imported.               *)
RequestType ==
  [start_from : Name \cup {None}, stop_after : Name \cup {None},
   input_versions : Versions, promote : BOOLEAN,
   on_failure : Policy \cup {None}, loads : BOOLEAN]

ASSUME NamesAssumption ==
  /\ Stage \subseteq Name
  /\ None \notin Name /\ None \notin Run /\ None \notin Policy
  /\ DependsOn \in [Stage -> SUBSET Name]

ASSUME RequestAssumption ==
  /\ Request \subseteq RequestType
  /\ DefaultOnFailure \in Policy

Active == {"requested", "running"}
Terminal == {"completed", "failed", "cancelled"}

-----------------------------------------------------------------------------
(* topological_order raises on a cycle; a dependency that is no stage is   *)
(* an external resource and closes none.                                   *)
Acyclic ==
  \A S \in (SUBSET Stage) \ {{}} : \E s \in S : DependsOn[s] \cap S = {}

(* reachable_from: the stage and every stage that transitively depends on  *)
(* it, as the least set with both.                                         *)
ReachableFrom(start) ==
  {s \in Stage :
     \A S \in SUBSET Stage :
       (/\ start \in S
        /\ \A n \in Stage : DependsOn[n] \cap S # {} => n \in S) => s \in S}

(* The stages in the range of the request q.                               *)
Reachable(q) ==
  IF q.start_from = None THEN Stage ELSE ReachableFrom(q.start_from)

EffectiveOnFailure(q) ==
  IF q.on_failure # None THEN q.on_failure ELSE DefaultOnFailure

(* The versions that q has used instead of the run's own outputs.          *)
Overrides(q) ==
  IF q.start_from = None THEN NoVersions ELSE q.input_versions

(* The checks that fail a run before anything is read for it.              *)
Rejected(q) ==
  \/ ~q.loads
  \/ ~Acyclic
  \/ q.start_from \notin Stage \cup {None}
  \/ q.stop_after # None /\ q.stop_after \notin Reachable(q)
  \/ /\ q.start_from \in Stage
     /\ ~(DependsOn[q.start_from] \subseteq Known(q.input_versions))

(* Dependencies of q's range that no stage produces.                       *)
ExternalDeps(q) == (UNION {DependsOn[s] : s \in Reachable(q)}) \ Stage
=============================================================================
