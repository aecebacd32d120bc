----------------------------- MODULE RunEndProps -----------------------------
(* What the report and the exit code promise: the properties of RunEnd.       *)
EXTENDS RunEnd

(* The target was scanned to its end and nothing in it failed; under -no-abort *)
(* the guard's error is a warning.                                             *)
Fine(r) == r.done /\ (r.error => noAbort)
Completed(d) == Fine(passes[d]) /\ (~permutations[d].ran \/ Fine(permutations[d]))

(* The documented exit codes: success and changes only if every target was     *)
(* scanned to its end, partial failure only if one was and one was not,        *)
(* failure only if none was or a file is incomplete; and 130 for every signal. *)
ExitCodeTrue ==
  runPc = "over" =>
    /\ exitCode \in {0, 4} => \A d \in Domain : Completed(d)
    /\ exitCode = 4 => inDiff /\ changes
    /\ exitCode = 3 => {Completed(d) : d \in Domain} = BOOLEAN
    /\ exitCode = 1 => writeFailed \/ \A d \in Domain : ~Completed(d)
    /\ ~signalled => exitCode # 130

(* A complete report vouches for every name missing from the results of the    *)
(* main passes (#70): each target was scanned, none was cut by a signal or the *)
(* cap, and next to no lookup failed.                                          *)
CompleteMeansComplete ==
  runPc \notin {"loop", "scanned", "permute", "settle", "report"} /\ overall = CompleteRank =>
    \A d \in Domain :
      /\ passes[d].done /\ ~passes[d].aborted /\ ~passes[d].cut
      /\ passes[d].failures = "few" /\ ~passes[d].capped

(* What the documentation says and the code does not do. *)

(* "a reliability abort (the resolver looks overloaded) skips the remaining    *)
(* targets unless -no-abort is set", and a permutation pass is "a normal scan".*)
AbortSkipsRest ==
  \A d \in Domain :
    passes[d].aborted \/ permutations[d].aborted => \A e \in Domain : e > d => ~passes[e].ran
=============================================================================
