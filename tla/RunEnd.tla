-------------------------------- MODULE RunEnd --------------------------------
(***************************************************************************)
(* What a CLI run tells its caller: the loop over the targets in run of    *)
(* main.go, the status and the result it keeps of each, the verdict of the *)
(* run-quality report (internal/scan/verdict.go, internal/report) and the  *)
(* exit code.  A scan is one step with any result module ScanRun allows;   *)
(* the results file is module OutputRun, the resume state ResumeRun.       *)
(***************************************************************************)
EXTENDS Integers, FiniteSets, FiniteSetsExt

CONSTANT Targets  \* how many domains -dL lists

ASSUME RunAssumption == Targets \in Nat \ {0}

Domain == 1..Targets

VARIABLES
  noAbort, permute, inDiff,  \* -no-abort, -permute, -diff
  runPc,          \* where run is
  current,        \* the target of this turn of the loop
  targetStatus,         \* status
  passes,         \* results: the main pass of each target
  permutations,   \* and its permutation pass
  bad,            \* targetResult.failed
  failedTargets, someFailed, \* failedTargets and anyFailed
  signalled,      \* signalCode is not 0
  runCtx,         \* ctx is done
  verdicts,       \* per target, as ranks
  overall,        \* the verdict of the report, as a rank
  changes,        \* diff.added + diff.removed > 0
  writeFailed,    \* fileErrReported
  exitCode

flagVars == <<noAbort, permute, inDiff>>
loopVars == <<current, targetStatus, passes, permutations, bad, failedTargets, someFailed>>
lastVars == <<verdicts, overall, changes, writeFailed, exitCode>>
stopVars == <<signalled, runCtx>>
runVars == <<flagVars, runPc, loopVars, stopVars, lastVars>>

CompleteRank == 0
Degraded == 1
Unreliable == 2
NoCodeYet == -1

NotScanned == [ran |-> FALSE, done |-> FALSE, error |-> FALSE, aborted |-> FALSE,
           cut |-> FALSE, failures |-> "few", capped |-> FALSE]

RunInit ==
  /\ noAbort \in BOOLEAN /\ permute \in BOOLEAN /\ inDiff \in BOOLEAN
  /\ runPc = "loop" /\ current = 0
  /\ targetStatus = [d \in Domain |-> "not_run"]
  /\ passes = [d \in Domain |-> NotScanned] /\ permutations = [d \in Domain |-> NotScanned]
  /\ bad = FALSE /\ failedTargets = 0 /\ someFailed = FALSE
  /\ signalled = FALSE /\ runCtx = FALSE
  /\ verdicts = [d \in Domain |-> CompleteRank] /\ overall = CompleteRank
  /\ changes = FALSE /\ writeFailed = FALSE /\ exitCode = NoCodeYet

(* The signal goroutine stores the code, then cancels. *)
Interrupt ==
  /\ runPc # "over" /\ ~signalled /\ signalled' = TRUE
  /\ UNCHANGED <<flagVars, runPc, loopVars, runCtx, lastVars>>

CancelRun ==
  /\ signalled /\ ~runCtx /\ runCtx' = TRUE
  /\ UNCHANGED <<flagVars, runPc, loopVars, signalled, lastVars>>

-----------------------------------------------------------------------------
(* scanTarget: what it makes of the events of a scan.                          *)

(* A scan is refused with an error, or stopped by the signal before its        *)
(* candidates; or it runs, maybe cut by the signal, and the guard may send an  *)
(* error, which without -no-abort aborts it.  failures is the share of failed  *)
(* lookups: "few" below degradedFailPercent, "many" above                      *)
(* reliabilityFailPercent.                                                     *)
Refused == [NotScanned EXCEPT !.ran = TRUE, !.error = TRUE]
Stopped == [NotScanned EXCEPT !.ran = TRUE, !.cut = TRUE]
Finished ==
  {[ran |-> TRUE, done |-> TRUE, error |-> e, aborted |-> e /\ ~noAbort,
    cut |-> c, failures |-> f, capped |-> q] :
     e \in BOOLEAN, c \in BOOLEAN, f \in {"few", "some", "many"}, q \in BOOLEAN}

ScanResults == {r \in Finished \cup {Refused, Stopped} : r.cut => runCtx}

resolverAbort(r) == r.done /\ r.error /\ ~noAbort
failed(r) == r.error /\ (~r.done \/ ~noAbort)

-----------------------------------------------------------------------------
(* The loop over the targets.                                                  *)

LoopOver ==
  /\ runPc = "loop" /\ (runCtx \/ current = Targets)
  /\ runPc' = "report"
  /\ UNCHANGED <<flagVars, loopVars, stopVars, lastVars>>

(* A target none of whose entries is a valid name below it fails unscanned.    *)
NoEntries ==
  /\ runPc = "loop" /\ ~runCtx /\ current < Targets
  /\ current' = current + 1
  /\ targetStatus' = [targetStatus EXCEPT ![current'] = "failed"]
  /\ failedTargets' = failedTargets + 1 /\ someFailed' = TRUE
  /\ UNCHANGED <<flagVars, runPc, passes, permutations, bad, stopVars, lastVars>>

ScanTarget ==
  /\ runPc = "loop" /\ ~runCtx /\ current < Targets
  /\ current' = current + 1
  /\ runPc' = "scanned"
  /\ UNCHANGED <<flagVars, targetStatus, passes, permutations, bad, failedTargets, someFailed,
                 stopVars, lastVars>>

(* The main pass ends; a permutation pass follows if it did well.              *)
PassOver ==
  /\ runPc = "scanned"
  /\ \E r \in ScanResults :
       /\ passes' = [passes EXCEPT ![current] = r]
       /\ bad' = failed(r)
       /\ runPc' = IF permute /\ r.done /\ ~resolverAbort(r) /\ ~signalled
                   THEN "permute" ELSE "settle"
  /\ UNCHANGED <<flagVars, current, targetStatus, permutations, failedTargets, someFailed,
                 stopVars, lastVars>>

(* Nothing to permute, or a second scan.  Its counters are graded on their     *)
(* own in the report, and left out here.                                       *)
PermutationPass ==
  /\ runPc = "permute" /\ runPc' = "settle"
  /\ \E r \in {p \in ScanResults : p.failures = "few" /\ ~p.capped} \cup {NotScanned} :
       /\ permutations' = [permutations EXCEPT ![current] = r]
       /\ bad' = (bad \/ failed(r))
  /\ UNCHANGED <<flagVars, current, targetStatus, passes, failedTargets, someFailed, stopVars,
                 lastVars>>

StatusOf(d) ==
  IF bad THEN "failed" ELSE IF signalled THEN "interrupted" ELSE "ok"

SkippedUncounted(n) == 0
SkippedTargets(n) == n

(* An abort of the main pass skips the targets left, which count as failed.    *)
Settle ==
  /\ runPc = "settle"
  /\ LET abort == resolverAbort(passes[current]) /\ current < Targets
         mine == [targetStatus EXCEPT ![current] = StatusOf(current)]
         count == failedTargets + (IF bad THEN 1 ELSE 0)
     IN /\ targetStatus' = IF abort
                     THEN [d \in Domain |-> IF d > current THEN "skipped" ELSE mine[d]]
                     ELSE mine
        /\ failedTargets' = IF abort THEN count + SkippedTargets(Targets - current) ELSE count
        /\ runPc' = IF abort THEN "report" ELSE "loop"
  /\ someFailed' = (someFailed \/ bad)
  /\ UNCHANGED <<flagVars, current, passes, permutations, bad, stopVars, lastVars>>

-----------------------------------------------------------------------------
(* The report. *)

(* Stats.Verdict. *)
VerdictUncut(r, interrupted) ==
  IF r.aborted \/ r.failures = "many" THEN Unreliable
  ELSE IF r.failures = "some" \/ r.capped THEN Degraded
  ELSE CompleteRank

VerdictOfPass(r, interrupted) ==
  IF r.aborted \/ r.failures = "many" THEN Unreliable
  ELSE IF interrupted \/ r.failures = "some" \/ r.capped THEN Degraded
  ELSE CompleteRank

TargetVerdict(d) ==
  IF targetStatus[d] \in {"not_run", "skipped"} \/ ~passes[d].done THEN Unreliable
  ELSE VerdictOfPass(passes[d], targetStatus[d] = "interrupted")

Report ==
  /\ runPc = "report" /\ runPc' = "diff"
  /\ verdicts' = [d \in Domain |-> TargetVerdict(d)]
  /\ overall' = Max({verdicts'[d] : d \in Domain})
  /\ UNCHANGED <<flagVars, loopVars, stopVars, changes, writeFailed, exitCode>>

(* New names count as they are found, lost ones only in a complete run: a       *)
(* change needs a scan that ran.                                               *)
CountChanges ==
  /\ runPc = "diff" /\ runPc' = "write"
  /\ changes' \in {c \in BOOLEAN : c => inDiff /\ \E d \in Domain : passes[d].done}
  /\ UNCHANGED <<flagVars, loopVars, stopVars, verdicts, overall, writeFailed, exitCode>>

(* The report, SARIF and results files. *)
WriteFiles ==
  /\ runPc = "write" /\ runPc' = "exit" /\ writeFailed' \in BOOLEAN
  /\ UNCHANGED <<flagVars, loopVars, stopVars, verdicts, overall, changes, exitCode>>

ExitCodeOf ==
  IF signalled THEN 130
  ELSE IF writeFailed THEN 1
  ELSE IF Targets > 1 /\ failedTargets \in 1..(Targets - 1) THEN 3
  ELSE IF someFailed THEN 1
  ELSE IF inDiff /\ changes THEN 4
  ELSE 0

ChooseExit ==
  /\ runPc = "exit" /\ runPc' = "over" /\ exitCode' = ExitCodeOf
  /\ UNCHANGED <<flagVars, loopVars, stopVars, verdicts, overall, changes, writeFailed>>

RunNext ==
  \/ Interrupt \/ CancelRun \/ LoopOver \/ NoEntries \/ ScanTarget \/ PassOver \/ PermutationPass
  \/ Settle \/ Report \/ CountChanges \/ WriteFiles \/ ChooseExit

RunSpec == RunInit /\ [][RunNext]_runVars
=============================================================================
