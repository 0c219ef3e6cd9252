----------------------------- MODULE MCStageWorker -----------------------------
(* Small instances of StageWorker: the stage `out`, which depends on `in`, *)
(* and two workers for its stage run.                                      *)
EXTENDS StageWorker

CONSTANTS in, out, r1, r2, w1, w2

OutDeps == [s \in Stage |-> {in}]
OneRetry == [s \in Stage |-> 1]
NoRetry == [s \in Stage |-> 0]

Pin(k) == [n \in Name |-> IF n = in THEN k ELSE 0]

WithIn == {{in}}

(* Pinned and promoting, delivered twice or once; unpinned and a test.     *)
Messages ==
  {[stage |-> out, input_versions |-> Pin(1), promote |-> TRUE, copies |-> 2],
   [stage |-> out, input_versions |-> Pin(2), promote |-> TRUE, copies |-> 1],
   [stage |-> out, input_versions |-> NoVersions, promote |-> FALSE, copies |-> 1]}
=============================================================================
