------------------------------ MODULE DiffProps ------------------------------
(* What -diff must not report: the properties of module DiffRun.  The names  *)
(* do not change while the run lasts.                                        *)
EXTENDS DiffRun

(* A name is reported removed only if it answers no query of this run's types  *)
(* (#84, #110): not one whose lookup failed in the scan or in Verify, one this *)
(* run had no candidate for, or one a cancel cut short.  It may still exist,   *)
(* with records of other types only (see Classified).  And every missing name  *)
(* is counted once: Verify has answered every name it was given by the time it *)
(* returns, unless the run was cancelled.                                      *)
RemovedReportTrue ==
  /\ removed \cap (Resolving \cup current \cup Excluded) = {}
  /\ removed \subseteq Previous \cap InTargets
  /\ removed # {} => verdict = "complete"
  /\ phase = "done" /\ verdict = "complete" =>
       /\ removed \cup still \cup unverified = Missing
       /\ Cardinality(removed) + Cardinality(still) + Cardinality(unverified)
            = Cardinality(Missing)
       /\ ~diffCtx => {pair[1] : pair \in outcomes} = Missing

-----------------------------------------------------------------------------
(* What a comment says and the code does not do. *)

(* DiffSummary: a missing name "is looked up again: only NXDOMAIN counts as    *)
(* removed; StillResolving names were not among this run's candidates, and     *)
(* Unverified ones could not be looked up".                                    *)
StillResolvingAnswered == still \subseteq {n \in Resolving : <<n, "found">> \in outcomes}
=============================================================================
