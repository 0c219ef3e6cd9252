---------------------------- MODULE MCProgression ----------------------------
(* Small workflows and requests to check Progression on.                   *)
EXTENDS Progression, TLC

CONSTANTS ext, a, b, c, r1, r2, w1, w2

(* Two roots that read the same external resource, and their join.         *)
JoinStages == {a, b, c}
JoinNames == {ext, a, b, c}
Join == a :> {ext} @@ b :> {ext} @@ c :> {a, b}

(* A chain whose last stage also reads the external resource.              *)
ChainStages == {a, b}
ChainNames == {ext, a, b}
Chain == a :> {ext} @@ b :> {a, ext}

FullRun(policy) ==
  [start_from |-> None, stop_after |-> None, input_versions |-> NoVersions,
   promote |-> TRUE, on_failure |-> policy, loads |-> TRUE]

FullRuns == {FullRun("halt"), FullRun("fallback"), FullRun(None)}
PolicyRuns == {FullRun("halt"), FullRun(None)}
FallbackRun == {FullRun("fallback")}
HaltRun == {FullRun("halt")}

Pins(P) == [n \in Name |-> IF n \in P THEN 1 ELSE 0]

(* Full runs, runs of part of the workflow, and requests the scheduler     *)
(* refuses.                                                                *)
PartialRuns ==
  {[start_from |-> s, stop_after |-> t, input_versions |-> v,
    promote |-> p, on_failure |-> None, loads |-> TRUE] :
     s \in {None, a, b, ext}, t \in {None, a, b, ext}, v \in {Pins({}), Pins({ext}), Pins({ext, a})},
     p \in BOOLEAN}
  \cup {[FullRun("halt") EXCEPT !.loads = FALSE]}

AnyOfExtA == SUBSET {ext, a}
AnyOfExtAB == SUBSET {ext, a, b}
AllExtA == {{ext, a}}
AllExtAB == {{ext, a, b}}

Runs1 == {r1}
Runs2 == {r1, r2}
Workers1 == {w1}
Workers2 == {w1, w2}

(* No value of the model depends on which worker or which run it is.       *)
Symmetry == Permutations({w1, w2}) \cup Permutations({r1, r2})
=============================================================================
