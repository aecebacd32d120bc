----------------------------- MODULE OutputProps -----------------------------
(* What the results file promises: properties of module OutputRun.            *)
EXTENDS OutputRun

(* The named file is never a truncated one: wherever the run fails, is stopped *)
(* or dies, it holds what it held before or, once a scan has finished, every   *)
(* result of the run (#30, #52).                                               *)
TargetWhole == target = Earlier \/ (anyDone /\ target = given)

(* An exit code of success means that the results are where they were asked    *)
(* for, and that no temporary file is left beside them (#30).                  *)
SuccessMeansWritten ==
  opc = "over" /\ code = 0 =>
    ~temporary /\ (IF direct THEN written ELSE target) = given
=============================================================================
