------------------------------- MODULE MCWatchers -------------------------------
(* A workflow of one stage over an external resource, for Watchers.        *)
EXTENDS Watchers

CONSTANTS ext, a, r1, r2

OneStage == [s \in {a} |-> {ext}]

CliTwoRuns == [w \in Watcher |-> IF w = "cli" THEN 2 ELSE 1]

(* The fallback policy allows every move of the halt policy as well.  The  *)
(* workflow can be imported or not.                                        *)
Requests ==
  {[start_from |-> None, stop_after |-> None, input_versions |-> NoVersions,
    promote |-> TRUE, on_failure |-> "fallback", loads |-> l] : l \in BOOLEAN}
=============================================================================
