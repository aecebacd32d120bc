----------------------------- MODULE OutcomeProofs -----------------------------
(***************************************************************************)
(* What the report and the exit code of a run tell its caller is true, for *)
(* any number of targets and wherever a signal falls (RunEndProps); so is  *)
(* what wildcard detection tells the scan, which filters what it should    *)
(* (WildcardProps); and a lab's zone answers what its file says            *)
(* (LabZoneProps).                                                         *)
(***************************************************************************)
EXTENDS RunEndProps, WildcardProps, LabZoneProps, FiniteSetTheorems, SequenceTheorems,
        WellFoundedInduction, TLAPS

(***************************************************************************)
(* The inductive invariant.  The exit code is computed from a count, a     *)
(* flag and the signal, and never looks at a scan's result again: the      *)
(* invariant ties the count and the flag to the status of each target, and *)
(* each status to what the target's passes were.                           *)
(***************************************************************************)
Looping == {"loop", "scanned", "permute", "settle"}
AtTarget == {"scanned", "permute", "settle"}
Reported == {"diff", "write", "exit", "over"}
Statuses == {"not_run", "failed", "interrupted", "ok", "skipped"}

PassResult ==
  [ran : BOOLEAN, done : BOOLEAN, error : BOOLEAN, aborted : BOOLEAN, cut : BOOLEAN,
   failures : {"few", "some", "many"}, capped : BOOLEAN]

RunTypeOK ==
  /\ noAbort \in BOOLEAN /\ permute \in BOOLEAN /\ inDiff \in BOOLEAN
  /\ runPc \in Looping \cup {"report"} \cup Reported
  /\ current \in 0..Targets /\ (runPc \in AtTarget => current > 0)
  /\ targetStatus \in [Domain -> Statuses]
  /\ passes \in [Domain -> PassResult] /\ permutations \in [Domain -> PassResult]
  /\ bad \in BOOLEAN /\ someFailed \in BOOLEAN /\ failedTargets \in Nat
  /\ signalled \in BOOLEAN /\ runCtx \in BOOLEAN

(* run's context is done only once a signal has arrived. *)
SignalFirst == runCtx => signalled

(* What a target's status says of its passes. *)
StatusTrue(d) ==
  /\ targetStatus[d] = "ok" => Completed(d)
  /\ targetStatus[d] = "failed" => ~Completed(d)
  /\ targetStatus[d] = "interrupted" => signalled
  /\ targetStatus[d] = "skipped" => d > current /\ runPc \notin Looping

(* The targets not reached are as they started, but for those an abort skips. *)
Unreached(d) ==
  d > current =>
    /\ passes[d] = NotScanned /\ permutations[d] = NotScanned
    /\ targetStatus[d] \in {"not_run", "skipped"}

(* Every target reached has its status, but for the one being scanned. *)
Reached(d) ==
  d <= current =>
    (targetStatus[d] = "not_run" <=> d = current /\ runPc \in AtTarget)

(* A pass the signal cut short, and that did not fail, leaves its target       *)
(* interrupted.                                                                *)
CutTold(d) ==
  targetStatus[d] # "not_run" /\ passes[d].done /\ ~passes[d].aborted /\ passes[d].cut =>
    targetStatus[d] = "interrupted"

TargetInv == \A d \in Domain : StatusTrue(d) /\ Unreached(d) /\ Reached(d) /\ CutTold(d)

(* A pass that neither ended nor failed was cut by the signal. *)
Explained(r) == ~failed(r) => r.done \/ ~r.ran \/ signalled

(* The target being scanned. *)
CurrentInv ==
  /\ runPc = "scanned" => passes[current] = NotScanned
  /\ runPc \in {"scanned", "permute"} => permutations[current] = NotScanned
  /\ runPc = "permute" => ~passes[current].cut
  /\ runPc \in {"permute", "settle"} =>
       /\ bad <=> failed(passes[current]) \/ failed(permutations[current])
       /\ passes[current].ran
       /\ permutations[current].error => permutations[current].ran
       /\ Explained(passes[current]) /\ Explained(permutations[current])
       /\ passes[current].done /\ passes[current].error /\ ~noAbort => passes[current].aborted
       /\ passes[current].cut => signalled /\ permutations[current] = NotScanned

(* The count and the flag of the run are those of its targets. *)
FailedOnes == {d \in Domain : targetStatus[d] \in {"failed", "skipped"}}
CountTrue ==
  /\ failedTargets = Cardinality(FailedOnes)
  /\ someFailed <=> FailedOnes # {}

(* Only a signal leaves a target without an outcome. *)
AllTold ==
  runPc \notin Looping /\ ~signalled => \A d \in Domain : targetStatus[d] # "not_run"

RunInv ==
  /\ RunTypeOK /\ SignalFirst /\ TargetInv /\ CurrentInv /\ CountTrue /\ AllTold
  /\ ExitCodeTrue /\ CompleteMeansComplete

-----------------------------------------------------------------------------
(* What a pass may come to. *)

LEMMA NothingScanned ==
  /\ NotScanned \in PassResult
  /\ ~NotScanned.ran /\ ~NotScanned.done /\ ~NotScanned.error /\ ~NotScanned.cut
  /\ ~failed(NotScanned)
  BY DEF NotScanned, PassResult, failed

LEMMA ResultKnown ==
  ASSUME RunTypeOK, NEW r \in ScanResults
  PROVE  /\ r \in PassResult /\ r.ran
         /\ r.cut => runCtx
         /\ r.done /\ r.error /\ ~noAbort => r.aborted
         /\ ~r.done /\ ~failed(r) => r.cut
<1>1. noAbort \in BOOLEAN /\ (r.cut => runCtx) /\ r \in Finished \cup {Refused, Stopped}
  BY DEF RunTypeOK, ScanResults
<1>2. CASE r \in Finished
  <2>1. PICK e \in BOOLEAN, c \in BOOLEAN, f \in {"few", "some", "many"}, q \in BOOLEAN :
          r = [ran |-> TRUE, done |-> TRUE, error |-> e, aborted |-> e /\ ~noAbort,
               cut |-> c, failures |-> f, capped |-> q]
    BY <1>2 DEF Finished
  <2>2. (e /\ ~noAbort) \in BOOLEAN
    OBVIOUS
  <2>3. r \in PassResult
    BY <2>1, <2>2 DEF PassResult
  <2>4. r.ran /\ r.done /\ (r.error /\ ~noAbort => r.aborted)
    BY <2>1
  <2>5. QED BY <1>1, <2>3, <2>4
<1>3. CASE r = Refused
  <2>1. r = [ran |-> TRUE, done |-> FALSE, error |-> TRUE, aborted |-> FALSE,
             cut |-> FALSE, failures |-> "few", capped |-> FALSE]
    BY <1>3 DEF Refused, NotScanned
  <2>2. QED BY <1>1, <2>1 DEF PassResult, failed
<1>4. CASE r = Stopped
  <2>1. r = [ran |-> TRUE, done |-> FALSE, error |-> FALSE, aborted |-> FALSE,
             cut |-> TRUE, failures |-> "few", capped |-> FALSE]
    BY <1>4 DEF Stopped, NotScanned
  <2>2. QED BY <1>1, <2>1 DEF PassResult, failed
<1>5. QED BY <1>1, <1>2, <1>3, <1>4

LEMMA PermutationKnown ==
  ASSUME RunTypeOK,
         NEW r \in {p \in ScanResults : p.failures = "few" /\ ~p.capped} \cup {NotScanned}
  PROVE  /\ r \in PassResult
         /\ r.error => r.ran
         /\ r.ran /\ ~r.done /\ ~failed(r) => runCtx
<1>1. CASE r = NotScanned
  BY <1>1, NothingScanned
<1>2. CASE r \in ScanResults
  BY <1>2, ResultKnown
<1>3. QED BY <1>1, <1>2

-----------------------------------------------------------------------------
(* The types. *)

LEMMA RunTypeStep ==
  ASSUME RunTypeOK, [RunNext]_runVars
  PROVE  RunTypeOK'
<1> USE DEF RunTypeOK, flagVars, loopVars, stopVars, lastVars, Looping, AtTarget, Reported
<1>1. Targets \in Nat /\ current \in 0..Targets
  BY RunAssumption
<1>2. CASE Interrupt
  BY <1>2 DEF Interrupt
<1>3. CASE CancelRun
  BY <1>3 DEF CancelRun
<1>4. CASE LoopOver
  BY <1>4 DEF LoopOver
<1>5. CASE NoEntries
  <2>1. current' = current + 1 /\ current' \in 0..Targets /\ failedTargets' \in Nat
    BY <1>1, <1>5 DEF NoEntries
  <2>2. targetStatus' \in [Domain -> Statuses]
    BY <1>5 DEF NoEntries, Statuses
  <2>3. QED BY <1>5, <2>1, <2>2 DEF NoEntries
<1>6. CASE ScanTarget
  <2>1. current' \in 0..Targets /\ current' > 0
    BY <1>1, <1>6 DEF ScanTarget
  <2>2. QED BY <1>6, <2>1 DEF ScanTarget
<1>7. CASE PassOver
  <2>1. PICK r \in ScanResults :
          /\ passes' = [passes EXCEPT ![current] = r]
          /\ bad' = failed(r)
          /\ runPc' = IF permute /\ r.done /\ ~resolverAbort(r) /\ ~signalled
                      THEN "permute" ELSE "settle"
    BY <1>7 DEF PassOver
  <2>2. r \in PassResult
    BY ResultKnown
  <2>3. failed(r) \in BOOLEAN
    BY DEF failed
  <2>4. passes' \in [Domain -> PassResult] /\ bad' \in BOOLEAN /\ runPc' \in {"permute", "settle"}
    BY <2>1, <2>2, <2>3
  <2>5. QED BY <1>7, <2>4 DEF PassOver
<1>8. CASE PermutationPass
  <2>1. PICK r \in {p \in ScanResults : p.failures = "few" /\ ~p.capped} \cup {NotScanned} :
          /\ permutations' = [permutations EXCEPT ![current] = r]
          /\ bad' = (bad \/ failed(r))
    BY <1>8 DEF PermutationPass
  <2>2. r \in PassResult
    BY PermutationKnown
  <2>3. (bad \/ failed(r)) \in BOOLEAN
    OBVIOUS
  <2>4. permutations' \in [Domain -> PassResult] /\ bad' \in BOOLEAN
    BY <2>1, <2>2, <2>3
  <2>5. QED BY <1>8, <2>4 DEF PermutationPass
<1>9. CASE Settle
  <2>1. failedTargets' \in Nat
    BY <1>1, <1>9 DEF Settle, SkippedTargets
  <2>2. (someFailed \/ bad) \in BOOLEAN
    OBVIOUS
  <2>3. someFailed' \in BOOLEAN
    BY <1>9, <2>2 DEF Settle
  <2>4. targetStatus' \in [Domain -> Statuses]
    BY <1>9 DEF Settle, StatusOf, Statuses
  <2>5. QED BY <1>9, <2>1, <2>3, <2>4 DEF Settle
<1>10. CASE Report \/ CountChanges \/ WriteFiles \/ ChooseExit
  BY <1>10 DEF Report, CountChanges, WriteFiles, ChooseExit
<1>11. CASE UNCHANGED runVars
  BY <1>11 DEF runVars
<1>12. QED BY <1>2, <1>3, <1>4, <1>5, <1>6, <1>7, <1>8, <1>9, <1>10, <1>11 DEF RunNext

-----------------------------------------------------------------------------
(* The signal. *)

LEMMA SignalStep ==
  ASSUME RunTypeOK, SignalFirst, [RunNext]_runVars
  PROVE  SignalFirst' /\ (signalled => signalled')
<1> USE DEF SignalFirst, stopVars
<1>1. CASE Interrupt \/ CancelRun
  BY <1>1 DEF Interrupt, CancelRun
<1>2. CASE LoopOver \/ NoEntries \/ ScanTarget \/ PassOver \/ PermutationPass \/ Settle
  BY <1>2 DEF LoopOver, NoEntries, ScanTarget, PassOver, PermutationPass, Settle
<1>3. CASE Report \/ CountChanges \/ WriteFiles \/ ChooseExit \/ UNCHANGED runVars
  BY <1>3 DEF Report, CountChanges, WriteFiles, ChooseExit, runVars
<1>4. QED BY <1>1, <1>2, <1>3 DEF RunNext

(* The steps that leave the targets alone. *)
Aside ==
  \/ Interrupt \/ CancelRun \/ LoopOver \/ Report \/ CountChanges \/ WriteFiles \/ ChooseExit
  \/ UNCHANGED runVars

LEMMA AsideSteps ==
  ASSUME Aside
  PROVE  /\ UNCHANGED <<flagVars, loopVars>>
         /\ \/ UNCHANGED runPc
            \/ runPc \notin AtTarget /\ runPc' \notin Looping
<1> USE DEF AtTarget, Looping
<1>1. CASE Interrupt \/ CancelRun \/ UNCHANGED runVars
  BY <1>1 DEF Interrupt, CancelRun, runVars
<1>2. CASE LoopOver \/ Report \/ CountChanges \/ WriteFiles \/ ChooseExit
  BY <1>2 DEF LoopOver, Report, CountChanges, WriteFiles, ChooseExit
<1>3. QED BY <1>1, <1>2 DEF Aside

-----------------------------------------------------------------------------
(* The targets. *)

OneTarget(d) == StatusTrue(d) /\ Unreached(d) /\ Reached(d) /\ CutTold(d)

(* A target whose status and passes a step leaves alone. *)
LEMMA TargetStays ==
  ASSUME RunTypeOK, NEW d \in Domain, OneTarget(d), signalled => signalled', noAbort' = noAbort,
         targetStatus'[d] = targetStatus[d], passes'[d] = passes[d],
         permutations'[d] = permutations[d],
         current' \in Int, d <= current <=> d <= current',
         d = current /\ runPc \in AtTarget <=> d = current' /\ runPc' \in AtTarget,
         runPc \notin Looping => runPc' \notin Looping
  PROVE  OneTarget(d)'
<1>1. /\ d \in Int /\ current \in Int
      /\ d > current <=> ~(d <= current)
      /\ d > current' <=> ~(d <= current')
  BY RunAssumption DEF RunTypeOK, Domain
<1>2. Completed(d)' <=> Completed(d)
  BY DEF Completed, Fine
<1>3. StatusTrue(d)'
  BY <1>1, <1>2 DEF OneTarget, StatusTrue
<1>4. Unreached(d)' /\ Reached(d)' /\ CutTold(d)'
  BY <1>1 DEF OneTarget, Unreached, Reached, CutTold
<1>5. QED BY <1>3, <1>4 DEF OneTarget

LEMMA TargetStep ==
  ASSUME RunTypeOK, SignalFirst, TargetInv, CurrentInv, [RunNext]_runVars, NEW d \in Domain
  PROVE  OneTarget(d)'
<1> USE DEF flagVars, loopVars, stopVars
<1>1. /\ OneTarget(d) /\ (signalled => signalled')
      /\ d \in Int /\ current \in Int /\ 1 <= d /\ d <= Targets /\ Targets \in Int
      /\ 0 <= current /\ current <= Targets
      /\ noAbort \in BOOLEAN /\ bad \in BOOLEAN
      /\ targetStatus \in [Domain -> Statuses] /\ passes \in [Domain -> PassResult]
      /\ permutations \in [Domain -> PassResult]
  BY SignalStep, RunAssumption DEF TargetInv, OneTarget, RunTypeOK, Domain
<1>2. CASE Aside
  BY <1>1, <1>2, AsideSteps, TargetStays DEF Looping, AtTarget
<1>3. CASE NoEntries
  <2>1. /\ runPc = "loop" /\ current' = current + 1 /\ UNCHANGED <<flagVars, runPc, passes, permutations>>
        /\ targetStatus' = [targetStatus EXCEPT ![current + 1] = "failed"]
    BY <1>3 DEF NoEntries
  <2>2. CASE d = current + 1
    <3>1. /\ passes'[d] = NotScanned /\ permutations'[d] = NotScanned
          /\ targetStatus'[d] = "failed" /\ current' = d /\ runPc' = "loop"
      BY <1>1, <2>1, <2>2 DEF OneTarget, Unreached
    <3>2. ~Completed(d)'
      BY <3>1, NothingScanned DEF Completed, Fine
    <3>3. QED BY <1>1, <3>1, <3>2, NothingScanned
                 DEF OneTarget, StatusTrue, Unreached, Reached, CutTold, AtTarget
  <2>3. CASE d # current + 1
    BY <1>1, <2>1, <2>3, TargetStays DEF AtTarget
  <2>4. QED BY <2>2, <2>3
<1>4. CASE ScanTarget
  <2>1. /\ runPc = "loop" /\ runPc' = "scanned" /\ current' = current + 1
        /\ UNCHANGED <<flagVars, targetStatus, passes, permutations>>
    BY <1>4 DEF ScanTarget
  <2>2. CASE d = current + 1
    <3>1. targetStatus'[d] = "not_run" /\ current' = d /\ runPc' = "scanned"
      BY <1>1, <2>1, <2>2 DEF OneTarget, Unreached, StatusTrue, Looping
    <3>2. QED BY <1>1, <3>1 DEF OneTarget, StatusTrue, Unreached, Reached, CutTold, AtTarget
  <2>3. CASE d # current + 1
    BY <1>1, <2>1, <2>3, TargetStays DEF AtTarget, Looping
  <2>4. QED BY <2>2, <2>3
<1>5. CASE PassOver \/ PermutationPass
  <2>1. /\ runPc \in AtTarget /\ runPc' \in AtTarget /\ runPc' \in Looping
        /\ UNCHANGED <<flagVars, targetStatus, current>>
        /\ d # current => passes'[d] = passes[d] /\ permutations'[d] = permutations[d]
    BY <1>1, <1>5 DEF PassOver, PermutationPass, AtTarget, Looping
  <2>2. CASE d = current
    <3>1. targetStatus'[d] = "not_run" /\ current' = d
      BY <1>1, <2>1, <2>2 DEF OneTarget, Reached
    <3>2. QED BY <1>1, <2>1, <3>1 DEF OneTarget, StatusTrue, Unreached, Reached, CutTold
  <2>3. CASE d # current
    BY <1>1, <2>1, <2>3, TargetStays DEF AtTarget, Looping
  <2>4. QED BY <2>2, <2>3
<1>6. CASE Settle
  <2> DEFINE abort == resolverAbort(passes[current]) /\ current < Targets
             mine == [targetStatus EXCEPT ![current] = StatusOf(current)]
  <2>1. /\ runPc = "settle"
        /\ targetStatus' = IF abort THEN [e \in Domain |-> IF e > current THEN "skipped" ELSE mine[e]]
                           ELSE mine
        /\ runPc' = IF abort THEN "report" ELSE "loop"
        /\ UNCHANGED <<flagVars, current, passes, permutations, bad, signalled>>
    BY <1>6 DEF Settle
  <2> HIDE DEF abort
  <2>2. CASE d < current
    <3>1. targetStatus'[d] = targetStatus[d]
      BY <1>1, <2>1, <2>2
    <3>2. QED BY <1>1, <2>1, <2>2, <3>1, TargetStays DEF Looping, AtTarget
  <2>3. CASE d = current
    <3>1. targetStatus'[d] = StatusOf(d) /\ runPc' \notin AtTarget /\ current' = d
      BY <1>1, <2>1, <2>3 DEF AtTarget
    <3>2. /\ bad <=> failed(passes[d]) \/ failed(permutations[d])
          /\ passes[d].ran /\ (permutations[d].error => permutations[d].ran)
          /\ Explained(passes[d]) /\ Explained(permutations[d])
          /\ passes[d].done /\ passes[d].error /\ ~noAbort => passes[d].aborted
          /\ passes[d].cut => signalled /\ permutations[d] = NotScanned
      BY <2>1, <2>3 DEF CurrentInv
    <3>3. bad => ~Completed(d)
      BY <3>2 DEF failed, Completed, Fine
    <3>4. ~bad /\ ~signalled => Completed(d)
      BY <3>2 DEF failed, Explained, Completed, Fine
    <3>5. Completed(d)' <=> Completed(d)
      BY <2>1 DEF Completed, Fine
    <3>6. StatusTrue(d)'
      BY <2>1, <3>1, <3>3, <3>4, <3>5 DEF StatusTrue, StatusOf
    <3>7. CutTold(d)'
      <4>1. passes[d].done /\ ~passes[d].aborted /\ passes[d].cut => ~bad /\ signalled
        BY <3>2, NothingScanned DEF failed
      <4>2. QED BY <2>1, <3>1, <4>1 DEF CutTold, StatusOf
    <3>8. QED BY <1>1, <3>1, <3>6, <3>7 DEF OneTarget, Unreached, Reached, StatusOf
  <2>4. CASE d > current
    <3>1. passes'[d] = NotScanned /\ permutations'[d] = NotScanned /\ current' = current
      BY <1>1, <2>1, <2>4 DEF OneTarget, Unreached
    <3>2. CASE abort
      <4>1. targetStatus'[d] = "skipped" /\ runPc' = "report"
        BY <2>1, <2>4, <3>2
      <4>2. QED BY <1>1, <2>4, <3>1, <4>1, NothingScanned
                   DEF OneTarget, StatusTrue, Unreached, Reached, CutTold, Looping
    <3>3. CASE ~abort
      <4>1. targetStatus'[d] = targetStatus[d] /\ runPc' = "loop"
        BY <1>1, <2>1, <2>4, <3>3
      <4>2. targetStatus[d] = "not_run"
        BY <1>1, <2>1, <2>4 DEF OneTarget, Unreached, StatusTrue, Looping
      <4>3. QED BY <1>1, <2>4, <3>1, <4>1, <4>2
                   DEF OneTarget, StatusTrue, Unreached, Reached, CutTold
    <3>4. QED BY <3>2, <3>3
  <2>5. QED BY <1>1, <2>2, <2>3, <2>4
<1>7. QED BY <1>2, <1>3, <1>4, <1>5, <1>6 DEF RunNext, Aside

-----------------------------------------------------------------------------
(* The target being scanned. *)

LEMMA CurrentStep ==
  ASSUME RunTypeOK, SignalFirst, TargetInv, CurrentInv, [RunNext]_runVars
  PROVE  CurrentInv'
<1> USE DEF flagVars, loopVars, stopVars
<1>1. /\ (signalled => signalled') /\ (runCtx => signalled)
      /\ noAbort \in BOOLEAN /\ bad \in BOOLEAN /\ signalled \in BOOLEAN
      /\ passes \in [Domain -> PassResult] /\ permutations \in [Domain -> PassResult]
  BY SignalStep DEF SignalFirst, RunTypeOK
<1>2. runPc \in AtTarget => current \in Domain
  BY RunAssumption DEF RunTypeOK, Domain
<1>3. CASE Aside
  <2>1. /\ UNCHANGED <<noAbort, current, passes, permutations, bad>>
        /\ UNCHANGED runPc \/ runPc' \notin Looping
    BY <1>3, AsideSteps
  <2>2. CASE UNCHANGED runPc
    BY <1>1, <2>1, <2>2 DEF CurrentInv, Explained, failed
  <2>3. CASE runPc' \notin Looping
    BY <2>3 DEF CurrentInv, Looping
  <2>4. QED BY <2>1, <2>2, <2>3
<1>4. CASE NoEntries
  BY <1>4 DEF NoEntries, CurrentInv
<1>5. CASE ScanTarget
  <2>1. /\ runPc' = "scanned" /\ current' = current + 1 /\ current < Targets
        /\ UNCHANGED <<passes, permutations>>
    BY <1>5 DEF ScanTarget
  <2>2. current' \in Domain /\ current' > current
    BY <2>1, RunAssumption DEF RunTypeOK, Domain
  <2>3. passes[current'] = NotScanned /\ permutations[current'] = NotScanned
    BY <2>2 DEF TargetInv, Unreached
  <2>4. QED BY <2>1, <2>3 DEF CurrentInv
<1>6. CASE PassOver
  <2>1. PICK r \in ScanResults :
          /\ passes' = [passes EXCEPT ![current] = r]
          /\ bad' = failed(r)
          /\ runPc' = IF permute /\ r.done /\ ~resolverAbort(r) /\ ~signalled
                      THEN "permute" ELSE "settle"
    BY <1>6 DEF PassOver
  <2>2. runPc = "scanned" /\ UNCHANGED <<flagVars, current, permutations, signalled>>
    BY <1>6 DEF PassOver
  <2>3. passes'[current] = r /\ permutations[current] = NotScanned
    BY <1>1, <1>2, <2>1, <2>2 DEF AtTarget, CurrentInv
  <2>4. /\ r.ran /\ (r.cut => signalled)
        /\ r.done /\ r.error /\ ~noAbort => r.aborted
        /\ ~r.done /\ ~failed(r) => signalled
    BY <1>1, ResultKnown
  <2>5. runPc' = "permute" => ~r.cut
    BY <2>1, <2>4
  <2>6. failed(r)' <=> failed(r)
    BY <2>2 DEF failed
  <2>7. Explained(r)' /\ Explained(NotScanned)' /\ ~failed(NotScanned)'
    BY <2>2, <2>4, <2>6, NothingScanned DEF Explained, failed
  <2>8. bad' <=> failed(passes[current])' \/ failed(permutations[current])'
    BY <2>1, <2>2, <2>3, <2>6, <2>7
  <2>9. QED BY <2>1, <2>2, <2>3, <2>4, <2>5, <2>7, <2>8, NothingScanned DEF CurrentInv, Explained
<1>7. CASE PermutationPass
  <2>1. PICK r \in {p \in ScanResults : p.failures = "few" /\ ~p.capped} \cup {NotScanned} :
          /\ permutations' = [permutations EXCEPT ![current] = r]
          /\ bad' = (bad \/ failed(r))
    BY <1>7 DEF PermutationPass
  <2>2. runPc = "permute" /\ runPc' = "settle" /\ UNCHANGED <<flagVars, current, passes, signalled>>
    BY <1>7 DEF PermutationPass
  <2>3. permutations'[current] = r
    BY <1>1, <1>2, <2>1, <2>2 DEF AtTarget
  <2>4. (r.error => r.ran) /\ (r.ran /\ ~r.done /\ ~failed(r) => signalled)
    BY <1>1, PermutationKnown
  <2>5. /\ ~passes[current].cut /\ permutations[current] = NotScanned
        /\ bad <=> failed(passes[current]) \/ failed(permutations[current])
        /\ passes[current].ran /\ Explained(passes[current])
        /\ passes[current].done /\ passes[current].error /\ ~noAbort => passes[current].aborted
    BY <2>2 DEF CurrentInv
  <2>6. /\ failed(r)' <=> failed(r)
        /\ failed(passes[current])' <=> failed(passes[current])
    BY <2>2 DEF failed
  <2>7. Explained(r)' /\ Explained(passes[current])'
    BY <2>2, <2>4, <2>5, <2>6 DEF Explained
  <2>8. bad' <=> failed(passes[current])' \/ failed(permutations[current])'
    BY <2>1, <2>2, <2>3, <2>5, <2>6, NothingScanned
  <2>9. QED BY <2>2, <2>3, <2>4, <2>5, <2>7, <2>8 DEF CurrentInv, Explained
<1>8. CASE Settle
  BY <1>8 DEF Settle, CurrentInv
<1>9. QED BY <1>3, <1>4, <1>5, <1>6, <1>7, <1>8 DEF RunNext, Aside

-----------------------------------------------------------------------------
(* The count of the failed. *)

LEMMA FailedFinite ==
  IsFiniteSet(FailedOnes)
<1>1. IsFiniteSet(Domain) /\ FailedOnes \subseteq Domain
  BY RunAssumption, FS_Interval DEF Domain, FailedOnes
<1>2. QED BY <1>1, FS_Subset

LEMMA CountStep ==
  ASSUME RunTypeOK, TargetInv, CurrentInv, CountTrue, [RunNext]_runVars
  PROVE  CountTrue'
<1> USE DEF flagVars, loopVars, stopVars
<1>1. /\ targetStatus \in [Domain -> Statuses] /\ bad \in BOOLEAN /\ someFailed \in BOOLEAN
      /\ Targets \in Nat /\ current \in 0..Targets /\ IsFiniteSet(FailedOnes)
      /\ failedTargets = Cardinality(FailedOnes) /\ failedTargets \in Nat
      /\ someFailed <=> FailedOnes # {}
  BY RunAssumption, FailedFinite DEF RunTypeOK, CountTrue
<1>2. CASE Aside \/ ScanTarget \/ PassOver \/ PermutationPass
  <2>1. UNCHANGED <<targetStatus, failedTargets, someFailed>>
    BY <1>2, AsideSteps DEF ScanTarget, PassOver, PermutationPass
  <2>2. FailedOnes' = FailedOnes
    BY <2>1 DEF FailedOnes
  <2>3. QED BY <1>1, <2>1, <2>2 DEF CountTrue
<1>3. CASE NoEntries
  <2>1. /\ runPc = "loop" /\ current + 1 \in Domain
        /\ targetStatus' = [targetStatus EXCEPT ![current + 1] = "failed"]
        /\ failedTargets' = failedTargets + 1 /\ someFailed' = TRUE
    BY <1>1, <1>3 DEF NoEntries, Domain
  <2>2. current + 1 \notin FailedOnes
    BY <1>1, <2>1 DEF FailedOnes, TargetInv, Unreached, StatusTrue, Looping
  <2>3. FailedOnes' = FailedOnes \cup {current + 1}
    BY <1>1, <2>1 DEF FailedOnes
  <2>4. Cardinality(FailedOnes') = Cardinality(FailedOnes) + 1
    BY <1>1, <2>2, <2>3, FS_AddElement
  <2>5. QED BY <1>1, <2>1, <2>3, <2>4 DEF CountTrue
<1>4. CASE Settle
  <2> DEFINE abort == resolverAbort(passes[current]) /\ current < Targets
             mine == [targetStatus EXCEPT ![current] = StatusOf(current)]
             count == failedTargets + (IF bad THEN 1 ELSE 0)
             Mine == IF bad THEN FailedOnes \cup {current} ELSE FailedOnes
             Rest == {d \in Domain : d > current}
  <2>1. /\ runPc = "settle" /\ current \in Domain
        /\ targetStatus' = IF abort THEN [d \in Domain |-> IF d > current THEN "skipped" ELSE mine[d]]
                           ELSE mine
        /\ failedTargets' = IF abort THEN count + SkippedTargets(Targets - current) ELSE count
        /\ someFailed' = (someFailed \/ bad)
    BY <1>1, <1>4 DEF Settle, RunTypeOK, AtTarget, Domain
  <2>2. abort => bad
    <3>1. resolverAbort(passes[current]) => failed(passes[current])
      BY DEF resolverAbort, failed
    <3>2. QED BY <2>1, <3>1 DEF CurrentInv
  <2>3. current \notin FailedOnes
    <3>1. targetStatus[current] = "not_run"
      BY <1>1, <2>1 DEF TargetInv, Reached, AtTarget, Domain
    <3>2. QED BY <3>1 DEF FailedOnes
  <2>4. FailedOnes \cap Rest = {}
    BY <2>1 DEF FailedOnes, TargetInv, Unreached, StatusTrue, Looping
  <2>5. IsFiniteSet(Mine) /\ Cardinality(Mine) = count
    BY <1>1, <2>3, FS_AddElement
  <2>6. Mine = {d \in Domain : mine[d] \in {"failed", "skipped"}}
    <3>1. mine \in [Domain -> Statuses] /\ mine[current] = StatusOf(current)
          /\ \A d \in Domain \ {current} : mine[d] = targetStatus[d]
      BY <1>1, <2>1 DEF StatusOf, Statuses
    <3>2. StatusOf(current) \in {"failed", "skipped"} <=> bad
      BY DEF StatusOf
    <3> HIDE DEF mine
    <3>3. QED BY <2>1, <2>3, <3>1, <3>2 DEF FailedOnes
  <2> HIDE DEF count, mine, Mine
  <2>7. CASE ~abort
    <3>1. FailedOnes' = Mine
      BY <2>1, <2>6, <2>7 DEF FailedOnes
    <3>2. Mine # {} <=> FailedOnes # {} \/ bad
      BY DEF Mine
    <3> HIDE DEF abort
    <3>3. QED BY <1>1, <2>1, <2>5, <2>7, <3>1, <3>2 DEF CountTrue
  <2>8. CASE abort
    <3>1. FailedOnes' = Mine \cup Rest
      <4>1. \A d \in Domain : targetStatus'[d] = IF d > current THEN "skipped" ELSE mine[d]
        BY <2>1, <2>8
      <4>2. \A d \in Domain : d > current => (d \notin Mine)
        BY <2>1, <2>4, <1>1 DEF Mine, Domain
      <4> HIDE DEF abort
      <4>3. QED BY <2>6, <4>1, <4>2 DEF FailedOnes
    <3>2. Rest = (current + 1)..Targets
      BY <1>1 DEF Domain
    <3>3. IsFiniteSet(Rest) /\ Cardinality(Rest) = Targets - current
      <4>1. current + 1 \in Int /\ Targets \in Int
        BY <1>1
      <4>2. /\ IsFiniteSet((current + 1)..Targets)
            /\ Cardinality((current + 1)..Targets) =
                 IF current + 1 > Targets THEN 0 ELSE Targets - (current + 1) + 1
        BY <4>1, FS_Interval
      <4>3. current < Targets
        BY <2>8
      <4>4. ~(current + 1 > Targets) /\ Targets - (current + 1) + 1 = Targets - current
        BY <1>1, <4>3
      <4> HIDE DEF Rest, abort
      <4>5. QED BY <3>2, <4>2, <4>4
    <3>4. Mine \cap Rest = {}
      BY <1>1, <2>4 DEF Mine
    <3>5. Cardinality(Mine \cup Rest) = count + (Targets - current)
      <4>1. Cardinality(Mine \cup Rest) = Cardinality(Mine) + Cardinality(Rest)
              - Cardinality(Mine \cap Rest)
        BY <2>5, <3>3, FS_Union
      <4>2. Cardinality(Mine \cap Rest) = 0
        BY <3>4, FS_EmptySet
      <4>3. count \in Nat
        BY <1>1 DEF count
      <4>4. QED BY <1>1, <2>5, <3>3, <4>1, <4>2, <4>3
    <3>6. failedTargets' = Cardinality(FailedOnes')
      BY <2>1, <2>8, <3>1, <3>5 DEF SkippedTargets
    <3>7. someFailed' /\ FailedOnes' # {}
      BY <2>1, <2>2, <2>8, <3>1 DEF Mine
    <3>8. QED BY <3>6, <3>7 DEF CountTrue
  <2>9. QED BY <2>7, <2>8
<1>5. QED BY <1>2, <1>3, <1>4 DEF RunNext, Aside

-----------------------------------------------------------------------------
(* The end of the run. *)

LEMMA ToldStep ==
  ASSUME RunTypeOK, SignalFirst, TargetInv, TargetInv', AllTold, [RunNext]_runVars
  PROVE  AllTold'
<1> USE DEF loopVars, stopVars, flagVars, AtTarget, Looping
<1>1. SUFFICES ASSUME runPc' \notin Looping, ~signalled', NEW d \in Domain
               PROVE  targetStatus'[d] # "not_run"
  BY DEF AllTold
<1>2. /\ ~signalled /\ ~runCtx /\ (runPc \notin Looping => targetStatus[d] # "not_run")
      /\ d \in Int /\ d <= Targets /\ current \in Int /\ targetStatus \in [Domain -> Statuses]
  BY <1>1, SignalStep, RunAssumption DEF SignalFirst, AllTold, RunTypeOK, Domain
<1>3. CASE LoopOver
  <2>1. runPc = "loop" /\ d <= current /\ UNCHANGED targetStatus
    BY <1>2, <1>3 DEF LoopOver
  <2>2. QED BY <2>1 DEF TargetInv, Reached
<1>4. CASE Settle
  <2>1. current' = current /\ runPc' = "report"
    BY <1>1, <1>4 DEF Settle
  <2>2. CASE d <= current
    BY <2>1, <2>2 DEF TargetInv, Reached
  <2>3. CASE d > current
    <3>1. resolverAbort(passes[current]) /\ current < Targets
      BY <1>1, <1>4 DEF Settle
    <3>2. targetStatus'[d] = "skipped"
      BY <1>4, <2>3, <3>1 DEF Settle
    <3>3. QED BY <3>2
  <2>4. QED BY <1>2, <2>2, <2>3
<1>5. CASE NoEntries \/ ScanTarget \/ PassOver \/ PermutationPass
  BY <1>1, <1>5 DEF NoEntries, ScanTarget, PassOver, PermutationPass
<1>6. CASE Aside /\ ~LoopOver
  <2>1. runPc \notin Looping
    BY <1>1, <1>6 DEF Aside, Interrupt, CancelRun, Report, CountChanges, WriteFiles, ChooseExit,
       runVars
  <2>2. UNCHANGED targetStatus
    BY <1>6, AsideSteps
  <2>3. QED BY <1>2, <2>1, <2>2
<1>7. QED BY <1>3, <1>4, <1>5, <1>6 DEF RunNext, Aside

(* What the count tells of the targets once all of them have an outcome. *)
LEMMA OutcomesTold ==
  ASSUME RunTypeOK, TargetInv, AllTold, runPc \notin Looping, ~signalled, NEW d \in Domain
  PROVE  d \in FailedOnes <=> ~Completed(d)
<1>1. targetStatus[d] \in {"ok", "failed", "skipped"}
  BY DEF AllTold, TargetInv, StatusTrue, RunTypeOK, Statuses
<1>2. CASE targetStatus[d] = "skipped"
  <2>1. passes[d] = NotScanned
    BY <1>2 DEF TargetInv, StatusTrue, Unreached
  <2>2. QED BY <1>2, <2>1, NothingScanned DEF FailedOnes, Completed, Fine
<1>3. CASE targetStatus[d] # "skipped"
  BY <1>1, <1>3 DEF FailedOnes, TargetInv, StatusTrue
<1>4. QED BY <1>2, <1>3

LEMMA CountBounds ==
  ASSUME CountTrue
  PROVE  /\ Targets \in Nat /\ failedTargets \in 0..Targets
         /\ failedTargets = 0 <=> FailedOnes = {}
         /\ failedTargets = Targets <=> FailedOnes = Domain
<1>1. Targets \in Nat /\ Targets > 0
  BY RunAssumption
<1>2. IsFiniteSet(Domain) /\ Cardinality(Domain) = Targets
  <2>1. 1 \in Int /\ Targets \in Int
    BY <1>1
  <2>2. Cardinality(1..Targets) = IF 1 > Targets THEN 0 ELSE Targets - 1 + 1
    BY <2>1, FS_Interval
  <2>3. QED BY <1>1, <2>1, <2>2, FS_Interval DEF Domain
<1>3. FailedOnes \subseteq Domain
  BY DEF FailedOnes
<1>4. /\ IsFiniteSet(FailedOnes) /\ Cardinality(FailedOnes) <= Cardinality(Domain)
      /\ Cardinality(FailedOnes) = Cardinality(Domain) => FailedOnes = Domain
  BY <1>2, <1>3, FS_Subset
<1>5. Cardinality(FailedOnes) \in Nat /\ (Cardinality(FailedOnes) = 0 <=> FailedOnes = {})
  BY <1>4, FS_CardinalityType, FS_EmptySet
<1>6. QED BY <1>1, <1>2, <1>4, <1>5 DEF CountTrue

LEMMA ExitStep ==
  ASSUME RunInv, [RunNext]_runVars
  PROVE  ExitCodeTrue'
<1> USE DEF flagVars, loopVars, stopVars, lastVars
<1>1. CASE ChooseExit
  <2>1. /\ runPc = "exit" /\ exitCode' = ExitCodeOf
        /\ UNCHANGED <<flagVars, loopVars, stopVars, verdicts, overall, changes, writeFailed>>
    BY <1>1 DEF ChooseExit
  <2>2. \A d \in Domain : Completed(d)' <=> Completed(d)
    BY <2>1 DEF Completed, Fine
  <2>3. CASE signalled
    <3>1. exitCode' = 130
      BY <2>1, <2>3 DEF ExitCodeOf
    <3>2. QED BY <2>1, <2>3, <3>1 DEF ExitCodeTrue
  <2>4. CASE ~signalled
    <3>1. \A d \in Domain : d \in FailedOnes <=> ~Completed(d)
      BY <2>1, <2>4, OutcomesTold DEF RunInv, Looping
    <3>2. /\ Targets \in Nat /\ failedTargets \in 0..Targets
          /\ failedTargets = 0 <=> FailedOnes = {}
          /\ failedTargets = Targets <=> FailedOnes = Domain
          /\ someFailed <=> FailedOnes # {}
          /\ FailedOnes \subseteq Domain
      BY CountBounds DEF RunInv, CountTrue, FailedOnes
    <3>3. exitCode' \in {0, 1, 3, 4}
      BY <2>1, <2>4 DEF ExitCodeOf
    <3>4. CASE exitCode' \in {0, 4}
      <4>1. ~someFailed
        BY <2>1, <2>4, <3>4 DEF ExitCodeOf
      <4>2. \A d \in Domain : Completed(d)
        BY <3>1, <3>2, <4>1
      <4>3. exitCode' = 4 => inDiff /\ changes
        BY <2>1, <2>4 DEF ExitCodeOf
      <4>4. QED BY <2>1, <2>2, <3>4, <4>2, <4>3 DEF ExitCodeTrue
    <3>5. CASE exitCode' = 3
      <4>1. failedTargets \in 1..(Targets - 1)
        BY <2>1, <2>4, <3>5 DEF ExitCodeOf
      <4>2. FailedOnes # {} /\ FailedOnes # Domain
        BY <3>2, <4>1
      <4>3. PICK d \in Domain, e \in Domain : Completed(d) /\ ~Completed(e)
        BY <3>1, <3>2, <4>2
      <4>4. Completed(d)' /\ ~Completed(e)'
        BY <2>2, <4>3
      <4>5. {Completed(o)' : o \in Domain} = BOOLEAN
        <5>1. \A o \in Domain : Completed(o)' \in BOOLEAN
          BY DEF Completed
        <5>2. Completed(d)' = TRUE /\ Completed(e)' = FALSE
          BY <4>4, <5>1
        <5>3. QED BY <5>1, <5>2
      <4>6. QED BY <2>1, <3>5, <4>5 DEF ExitCodeTrue
    <3>6. CASE exitCode' = 1
      <4>1. CASE writeFailed
        BY <2>1, <3>6, <4>1 DEF ExitCodeTrue
      <4>2. CASE ~writeFailed
        <5>1. someFailed /\ ~(Targets > 1 /\ failedTargets \in 1..(Targets - 1))
          BY <2>1, <2>4, <3>6, <4>2 DEF ExitCodeOf
        <5>2. failedTargets = Targets
          BY <3>2, <5>1
        <5>3. \A d \in Domain : ~Completed(d)
          BY <3>1, <3>2, <5>2
        <5>4. QED BY <2>1, <2>2, <3>6, <5>3 DEF ExitCodeTrue
      <4>3. QED BY <4>1, <4>2
    <3>7. QED BY <3>3, <3>4, <3>5, <3>6
  <2>5. QED BY <2>3, <2>4
<1>2. CASE ~ChooseExit
  <2>1. SUFFICES ASSUME runPc' = "over" PROVE ExitCodeTrue'
    BY DEF ExitCodeTrue
  <2>2. CASE CancelRun \/ UNCHANGED runVars
    <3>1. UNCHANGED <<flagVars, runPc, loopVars, signalled, lastVars>>
      BY <2>2 DEF CancelRun, runVars
    <3>2. \A d \in Domain : Completed(d)' = Completed(d)
      BY <3>1 DEF Completed, Fine
    <3>3. {Completed(d)' : d \in Domain} = {Completed(d) : d \in Domain}
      BY <3>2
    <3>4. QED BY <2>1, <3>1, <3>2, <3>3 DEF RunInv, ExitCodeTrue
  <2>3. CASE ~CancelRun /\ ~UNCHANGED runVars
    <3>1. FALSE
      BY <1>2, <2>1, <2>3 DEF RunNext, Interrupt, LoopOver, NoEntries, ScanTarget, PassOver,
         PermutationPass, Settle, Report, CountChanges, WriteFiles
    <3>2. QED BY <3>1
  <2>4. QED BY <2>2, <2>3
<1>3. QED BY <1>1, <1>2

LEMMA WorstRank ==
  ASSUME NEW S, S \subseteq {CompleteRank, Degraded, Unreliable}, S # {}
  PROVE  Max(S) \in S /\ \A r \in S : r <= Max(S)
<1> USE DEF CompleteRank, Degraded, Unreliable
<1>1. \E r \in S : \A o \in S : r >= o
  <2>1. CASE 2 \in S
    BY <2>1
  <2>2. CASE 2 \notin S /\ 1 \in S
    BY <2>2
  <2>3. CASE 2 \notin S /\ 1 \notin S
    <3>1. 0 \in S /\ \A r \in S : r = 0
      BY <2>3
    <3>2. QED BY <3>1
  <2>4. QED BY <2>1, <2>2, <2>3
<1>2. Max(S) \in S /\ \A o \in S : Max(S) >= o
  BY <1>1 DEF Max
<1>3. QED BY <1>2

(* What a target graded complete was. *)
LEMMA CompleteTarget ==
  ASSUME RunTypeOK, TargetInv, NEW d \in Domain, TargetVerdict(d) = CompleteRank
  PROVE  /\ passes[d].done /\ ~passes[d].aborted /\ ~passes[d].cut
         /\ passes[d].failures = "few" /\ ~passes[d].capped
<1> USE DEF CompleteRank, Degraded, Unreliable
<1>1. /\ targetStatus[d] \notin {"not_run", "skipped"} /\ passes[d].done
      /\ VerdictOfPass(passes[d], targetStatus[d] = "interrupted") = CompleteRank
  BY DEF TargetVerdict
<1>2. /\ ~passes[d].aborted /\ passes[d].failures \notin {"many", "some"} /\ ~passes[d].capped
      /\ targetStatus[d] # "interrupted"
  BY <1>1 DEF VerdictOfPass
<1>3. passes[d].failures \in {"few", "some", "many"}
  BY DEF RunTypeOK, PassResult
<1>4. ~passes[d].cut
  BY <1>1, <1>2 DEF TargetInv, CutTold
<1>5. QED BY <1>1, <1>2, <1>3, <1>4

LEMMA CompleteStep ==
  ASSUME RunInv, [RunNext]_runVars
  PROVE  CompleteMeansComplete'
<1> USE DEF flagVars, loopVars, stopVars, lastVars
<1>1. CASE Report
  <2>1. /\ verdicts' = [d \in Domain |-> TargetVerdict(d)]
        /\ overall' = Max({verdicts'[d] : d \in Domain})
        /\ UNCHANGED passes
    BY <1>1 DEF Report
  <2> DEFINE S == {TargetVerdict(d) : d \in Domain}
  <2>2. {verdicts'[d] : d \in Domain} = S
    BY <2>1
  <2>3. S # {}
    BY RunAssumption DEF Domain
  <2>4. S \subseteq {CompleteRank, Degraded, Unreliable}
    BY DEF TargetVerdict, VerdictOfPass
  <2>5. ASSUME overall' = CompleteRank, NEW d \in Domain PROVE TargetVerdict(d) = CompleteRank
    <3>1. Max(S) = CompleteRank /\ \A r \in S : r <= Max(S)
      BY <2>1, <2>2, <2>3, <2>4, <2>5, WorstRank
    <3>2. TargetVerdict(d) \in {CompleteRank, Degraded, Unreliable} /\ TargetVerdict(d) <= CompleteRank
      BY <2>4, <3>1
    <3>3. QED BY <3>2 DEF CompleteRank, Degraded, Unreliable
  <2>6. QED BY <2>1, <2>5, CompleteTarget DEF RunInv, CompleteMeansComplete
<1>2. CASE ~Report
  <2>1. CASE runPc' \in Looping \cup {"report"}
    BY <2>1 DEF CompleteMeansComplete, Looping
  <2>2. CASE runPc' \notin Looping \cup {"report"}
    <3>1. /\ runPc \notin Looping \cup {"report"}
          /\ UNCHANGED <<passes, overall>>
      BY <1>2, <2>2 DEF RunNext, Interrupt, CancelRun, LoopOver, NoEntries, ScanTarget, PassOver,
         PermutationPass, Settle, CountChanges, WriteFiles, ChooseExit, runVars, Looping
    <3>2. QED BY <3>1 DEF RunInv, CompleteMeansComplete, Looping
  <2>3. QED BY <2>1, <2>2
<1>3. QED BY <1>1, <1>2

-----------------------------------------------------------------------------
(* The theorems. *)

LEMMA RunInvInit ==
  ASSUME RunInit
  PROVE  RunInv
<1> USE DEF RunInit
<1>1. RunTypeOK
  <2>1. targetStatus \in [Domain -> Statuses] /\ 0 \in 0..Targets
    BY RunAssumption DEF Statuses
  <2>2. passes \in [Domain -> PassResult] /\ permutations \in [Domain -> PassResult]
    BY NothingScanned
  <2>3. QED BY <2>1, <2>2 DEF RunTypeOK, Looping, AtTarget
<1>2. SignalFirst /\ CurrentInv
  BY DEF SignalFirst, CurrentInv
<1>3. TargetInv
  BY NothingScanned, RunAssumption
     DEF TargetInv, StatusTrue, Unreached, Reached, CutTold, Domain
<1>4. CountTrue
  <2>1. FailedOnes = {}
    BY DEF FailedOnes
  <2>2. QED BY <2>1, FS_EmptySet DEF CountTrue
<1>5. AllTold /\ ExitCodeTrue /\ CompleteMeansComplete
  BY DEF AllTold, Looping, ExitCodeTrue, CompleteMeansComplete
<1>6. QED BY <1>1, <1>2, <1>3, <1>4, <1>5 DEF RunInv

LEMMA RunInvStep ==
  ASSUME RunInv, [RunNext]_runVars
  PROVE  RunInv'
<1>1. RunTypeOK' /\ SignalFirst'
  BY RunTypeStep, SignalStep DEF RunInv
<1>2. TargetInv'
  <2>1. Domain' = Domain
    BY DEF Domain
  <2>2. \A d \in Domain : OneTarget(d)'
    BY TargetStep DEF RunInv
  <2>3. QED BY <2>1, <2>2 DEF TargetInv, OneTarget
<1>3. CurrentInv' /\ CountTrue'
  BY CurrentStep, CountStep DEF RunInv
<1>4. AllTold'
  BY <1>2, ToldStep DEF RunInv
<1>5. ExitCodeTrue' /\ CompleteMeansComplete'
  BY ExitStep, CompleteStep
<1>6. QED BY <1>1, <1>2, <1>3, <1>4, <1>5 DEF RunInv

THEOREM RunHolds == RunSpec => []RunInv
  BY RunInvInit, RunInvStep, PTL DEF RunSpec

(* However many targets there are, and wherever a signal, an abort or a failed *)
(* pass falls, the exit code says what happened to them (run in main.go).      *)
THEOREM ExitCodeHonest == RunSpec => []ExitCodeTrue
<1>1. RunInv => ExitCodeTrue
  BY DEF RunInv
<1>2. QED BY <1>1, RunHolds, PTL

(* A report graded complete is one of targets that were scanned to the end of  *)
(* their wordlist, none cut short (Stats.Verdict, report.go).                *)
THEOREM CompleteHonest == RunSpec => []CompleteMeansComplete
<1>1. RunInv => CompleteMeansComplete
  BY DEF RunInv
<1>2. QED BY <1>1, RunHolds, PTL

-----------------------------------------------------------------------------
(***************************************************************************)
(* Wildcard zones.  What a check has learned and the scan's fingerprint    *)
(* are records the zone serves, and a check that is over without any has   *)
(* seen NXDOMAIN.                                                          *)
(***************************************************************************)
WildInv ==
  /\ zone \in Zones
  /\ learned \subseteq Served /\ fp \subseteq Served
  /\ stage = "over" /\ learned = {} => zone = {}
  /\ VerdictTrue /\ OnlyServedFiltered

LEMMA LookupTells ==
  ASSUME zone \in Zones, NEW recs, NEW o, LookedUp(recs, o)
  PROVE  /\ zone' = zone /\ recs \subseteq Served
         /\ o = "found" => recs # {}
         /\ o = "nxdomain" => zone = {}
<1>1. CASE o = "found" /\ \E a \in zone : Serve(a) /\ (recs = a \/ (lossy /\ recs \in (SUBSET a) \ {{}}))
  <2>1. PICK a \in zone : Serve(a) /\ (recs = a \/ recs \in (SUBSET a) \ {{}})
    BY <1>1
  <2>2. a # {} /\ a \subseteq UNION zone
    BY WildcardAssumption
  <2>3. QED BY <1>1, <2>1, <2>2 DEF Serve, Served
<1>2. CASE o # "found" /\ recs = {} /\ UNCHANGED serverVars /\ (o = "nxdomain" => zone = {})
  BY <1>2 DEF serverVars
<1>3. QED BY <1>1, <1>2 DEF LookedUp

LEMMA CheckKeepsWild ==
  ASSUME WildInv, Probe \/ Conclude \/ AskAgain \/ CancelWild
  PROVE  WildInv'
<1>1. UNCHANGED filtered
  BY DEF Probe, Conclude, AskAgain, CancelWild, resultVars
<1>2. CASE Probe
  <2>1. PICK recs \in SUBSET Records, o \in Outcomes :
          /\ LookedUp(recs, o)
          /\ IF Conclusive(o)
             THEN learned' = learned \cup recs /\ stage' = PhaseAfter(sent', Size(learned'), first', stale')
                  /\ UNCHANGED verdict
             ELSE /\ stage' = "returned" /\ UNCHANGED learned
                  /\ verdict' = IF o = "canceled" THEN "canceled" ELSE "inconclusive"
    BY <1>2 DEF Probe
  <2>2. /\ zone \in Zones /\ zone' = zone /\ Served' = Served /\ recs \subseteq Served
        /\ (o = "found" => recs # {}) /\ (o = "nxdomain" => zone = {})
    BY <2>1, LookupTells DEF WildInv, Served
  <2>3. UNCHANGED <<known, fp>>
    BY <1>2 DEF Probe, resultVars
  <2>4. CASE Conclusive(o)
    <3>1. learned' = learned \cup recs /\ verdict' = verdict
      BY <2>1, <2>4
    <3>2. learned' = {} => zone = {}
      BY <2>2, <2>4, <3>1 DEF Conclusive
    <3>3. QED BY <1>1, <2>2, <2>3, <3>1, <3>2 DEF WildInv, VerdictTrue, OnlyServedFiltered
  <2>5. CASE ~Conclusive(o)
    <3>1. stage' = "returned" /\ learned' = learned /\ verdict' \in {"canceled", "inconclusive"}
      BY <2>1, <2>5
    <3>2. QED BY <1>1, <2>2, <2>3, <3>1 DEF WildInv, VerdictTrue, OnlyServedFiltered
  <2>6. QED BY <2>4, <2>5
<1>3. CASE Conclude
  <2>1. /\ stage = "over" /\ stage' = "returned" /\ UNCHANGED <<zone, learned>> /\ fp' \in {learned, fp}
        /\ verdict' = (IF learned = {} THEN "none" ELSE "wildcard") /\ known' \in {verdict', known}
    BY <1>3 DEF Conclude, serverVars
  <2>2. (learned = {} => zone = {}) /\ (learned # {} => zone # {})
    BY <2>1 DEF WildInv, Served
  <2>3. Served' = Served
    BY <2>1 DEF Served
  <2>4. QED BY <1>1, <2>1, <2>2, <2>3 DEF WildInv, VerdictTrue, OnlyServedFiltered
<1>4. CASE AskAgain
  <2>1. /\ UNCHANGED <<zone, known, fp>> /\ learned' = {} /\ stage' \in {"returned", "probing"}
        /\ verdict' \in {known, "open"}
    BY <1>4 DEF AskAgain, serverVars, resultVars
  <2>2. Served' = Served
    BY <2>1 DEF Served
  <2>3. QED BY <1>1, <2>1, <2>2 DEF WildInv, VerdictTrue, OnlyServedFiltered
<1>5. CASE CancelWild
  <2>1. UNCHANGED <<zone, learned, fp, stage, verdict, known, filtered>>
    BY <1>5 DEF CancelWild, serverVars, checkVars, resultVars
  <2>2. QED BY <2>1 DEF WildInv, VerdictTrue, OnlyServedFiltered, Served
<1>6. QED BY <1>2, <1>3, <1>4, <1>5

LEMMA WorkersKeepWild ==
  ASSUME WildInv, NEW w \in Checker, FindResult(w) \/ Match(w) \/ Revalidate(w)
  PROVE  WildInv'
<1>1. UNCHANGED <<learned, stage, verdict, known>>
  BY DEF FindResult, Match, Revalidate, checkVars
<1>2. CASE FindResult(w)
  <2>1. UNCHANGED <<fp, filtered>>
    BY <1>2 DEF FindResult
  <2>2. zone' = zone
    <3>1. PICK recs \in (SUBSET Records) \ {{}} : UNCHANGED serverVars \/ LookedUp(recs, "found")
      BY <1>2 DEF FindResult
    <3>2. QED BY <3>1, LookupTells DEF WildInv, serverVars
  <2>3. QED BY <1>1, <2>1, <2>2 DEF WildInv, VerdictTrue, OnlyServedFiltered, Served
<1>3. CASE Match(w)
  <2>1. UNCHANGED <<zone, fp>>
    BY <1>3 DEF Match, serverVars
  <2>2. \/ filtered' = filtered
        \/ Covered(got[w]) /\ filtered' = filtered \cup {<<exists[w], got[w]>>}
    BY <1>3 DEF Match
  <2>3. OnlyServedFiltered'
    BY <2>1, <2>2 DEF WildInv, OnlyServedFiltered, Covered, Served
  <2>4. QED BY <1>1, <2>1, <2>3 DEF WildInv, VerdictTrue, Served
<1>4. CASE Revalidate(w)
  <2>1. UNCHANGED filtered
    BY <1>4 DEF Revalidate
  <2>2. PICK recs, o : /\ fp' = fp \cup recs
                       /\ LookedUp(recs, o) \/ (recs = {} /\ UNCHANGED serverVars)
    BY <1>4 DEF Revalidate
  <2>3. zone' = zone /\ recs \subseteq Served
    BY <2>2, LookupTells DEF WildInv, serverVars
  <2>4. Served' = Served
    BY <2>3 DEF Served
  <2>5. QED BY <1>1, <2>1, <2>2, <2>3, <2>4 DEF WildInv, VerdictTrue, OnlyServedFiltered
<1>5. QED BY <1>2, <1>3, <1>4

LEMMA WildHolds == WildSpec => []WildInv
<1>1. WildInit => WildInv
  BY DEF WildInit, WildInv, VerdictTrue, OnlyServedFiltered
<1>2. WildInv /\ [WildNext]_wildVars => WildInv'
  <2>1. CASE UNCHANGED wildVars
    BY <2>1 DEF wildVars, serverVars, checkVars, resultVars, WildInv, VerdictTrue, OnlyServedFiltered, Served
  <2>2. QED BY <2>1, CheckKeepsWild, WorkersKeepWild DEF WildNext
<1>3. QED BY <1>1, <1>2, PTL DEF WildSpec

(* No lookup that failed, of the root's check or a parent's, makes a verdict   *)
(* on the zone false (#47): for any zone, number of probes and patience.       *)
THEOREM VerdictsTrue == WildSpec => []VerdictTrue
<1>1. WildInv => VerdictTrue
  BY DEF WildInv
<1>2. QED BY <1>1, WildHolds, PTL

(* No result with a record of its own is filtered, however many workers extend *)
(* the fingerprint at the same time (#48).                                     *)
THEOREM OwnNeverFiltered == WildSpec => []OnlyServedFiltered
<1>1. WildInv => OnlyServedFiltered
  BY DEF WildInv
<1>2. QED BY <1>1, WildHolds, PTL

-----------------------------------------------------------------------------
(***************************************************************************)
(* A rotating zone.  Without a failed lookup, an answer the check has not  *)
(* learned has stayed away since it began; so a check that ends has either *)
(* sent enough probes for every answer to come round, or seen only one     *)
(* answer, and then the zone has no other: two answers of which none is a  *)
(* part of the other make what is learned grow.                            *)
(***************************************************************************)
Checking == stage \in {"probing", "saturating", "over"}

RotationTypeOK ==
  /\ zone \in Zones /\ mode \in {"root", "parent"}
  /\ ages \in [Answers -> Nat]
  /\ sent \in Nat /\ stale \in Nat
  /\ place \in [Checker -> {"idle", "match", "probe"}]
  /\ got \in [Checker -> SUBSET Records] /\ exists \in [Checker -> BOOLEAN]
  /\ mode # "root" => \A w \in Checker : place[w] = "idle"

(* What is learned after sent probes. *)
LearnedInv ==
  /\ sent = 0 => learned = {} /\ first = -1
  /\ zone # {} /\ sent > 0 => last \in zone /\ last \subseteq learned /\ first \in Nat
  /\ zone # {} /\ sent = 1 => learned = last /\ first = Size(last)
  /\ Cardinality(zone) > 1 /\ sent > 1 => first < Size(learned)
  /\ \A b \in zone : b \subseteq learned \/ ages[b] >= sent
  /\ stale = 0 \/ sent >= fingerprintProbes + stale
  /\ stage = "saturating" => sent >= fingerprintProbes
  /\ stage = "over" => Served \subseteq learned

(* What the workers look at and have reported. *)
ReportInv ==
  /\ verdict = "wildcard" => stage = "returned" /\ Served \subseteq fp
  /\ \A w \in Checker : place[w] # "idle" =>
       verdict = "wildcard" /\ (exists[w] \/ (got[w] # {} /\ got[w] \subseteq Served))

RotationInv ==
  /\ \A b \in zone : ages[b] < Window
  /\ Checking => LearnedInv
  /\ ReportInv

Undisturbed == ~lossy /\ ~wildCtx /\ mode = "root"

LEMMA ServedFinite ==
  ASSUME zone \in Zones
  PROVE  IsFiniteSet(Served) /\ IsFiniteSet(zone)
  BY WildcardAssumption, FS_UNION DEF Served

LEMMA ConstantsNat ==
  /\ Window \in Nat /\ Window > 0
  /\ fingerprintProbes \in Nat /\ fingerprintMaxProbes \in Nat
  /\ StaleMin \in Nat /\ StaleFactor \in Nat
  BY WildcardAssumption

(* After an answer, no answer has stayed away for Window answers. *)
LEMMA ServedInTime ==
  ASSUME RotationTypeOK, NEW a, MayServe(a)
  PROVE  /\ After(a) \in [Answers -> Nat]
         /\ \A b \in zone : After(a)[b] < Window
         /\ \A b \in zone : b # a => After(a)[b] = ages[b] + 1
<1>1. /\ zone \subseteq Answers /\ IsFiniteSet(zone) /\ ages \in [Answers -> Nat]
      /\ Window \in Nat /\ 0 \in 0..Window
  BY ServedFinite, ConstantsNat DEF RotationTypeOK, Answers
<1>2. After(a) \in [Answers -> Nat]
  BY <1>1 DEF After
<1>3. \A b \in zone : b # a => After(a)[b] = ages[b] + 1
  BY <1>1 DEF After
<1> DEFINE late == {b \in zone : Due(b, 0, a)}
<1>4. Cardinality(late) <= 0
  BY <1>1 DEF MayServe
<1>5. IsFiniteSet(late) /\ Cardinality(late) \in Nat
  BY <1>1, FS_Subset, FS_CardinalityType
<1>6. late = {}
  <2>1. Cardinality(late) = 0
    BY <1>4, <1>5
  <2> HIDE DEF late
  <2>2. QED BY <1>5, <2>1, FS_EmptySet
<1>7. ASSUME NEW b \in zone PROVE After(a)[b] < Window
  <2>1. ~(Window - After(a)[b] <= 0)
    BY <1>6 DEF Due
  <2>2. After(a)[b] \in Nat
    BY <1>1, <1>2
  <2>3. QED BY <1>1, <2>1, <2>2
<1>8. QED BY <1>2, <1>3, <1>7

(* A lookup brings one of the answers, or NXDOMAIN of a zone without any.      *)
LEMMA LookupRotates ==
  ASSUME RotationTypeOK, NEW recs, NEW o, LookedUp(recs, o)
  PROVE  /\ zone' = zone /\ ages' \in [Answers -> Nat] /\ lossy' = lossy
         /\ ~lossy /\ ~wildCtx =>
              \/ /\ o = "found" /\ recs \in zone /\ recs # {} /\ MayServe(recs) /\ last' = recs
                 /\ ages' = After(recs)
              \/ o = "nxdomain" /\ zone = {} /\ recs = {} /\ UNCHANGED serverVars
<1>1. CASE o = "found" /\ \E a \in zone : Serve(a) /\ (recs = a \/ (lossy /\ recs \in (SUBSET a) \ {{}}))
  <2>1. PICK a \in zone : Serve(a) /\ (recs = a \/ lossy)
    BY <1>1
  <2>2. MayServe(a) /\ ages' = After(a) /\ last' = a /\ UNCHANGED <<zone, lossy>>
    BY <2>1 DEF Serve
  <2>3. ages' \in [Answers -> Nat]
    BY <2>2, ServedInTime
  <2>4. a # {}
    BY <2>1, WildcardAssumption DEF RotationTypeOK
  <2>5. QED BY <1>1, <2>1, <2>2, <2>3, <2>4
<1>2. CASE /\ UNCHANGED serverVars
           /\ lossy \/ wildCtx \/ (zone = {} /\ o = "nxdomain" /\ recs = {})
  BY <1>2 DEF serverVars, RotationTypeOK
<1>3. QED BY <1>1, <1>2 DEF LookedUp

-----------------------------------------------------------------------------
(* The root's check of a zone nothing disturbs. *)

(* A check that is over has seen every answer. *)
LEMMA OverSeesAll ==
  ASSUME ShortRotation, zone \in Zones, IsFiniteSet(zone), NEW n \in Nat, NEW seen \in SUBSET Served,
         NEW firstSize, NEW quiet \in Nat, n > 0, mode = "root",
         quiet = 0 \/ n >= fingerprintProbes + quiet,
         NEW away \in [zone -> Nat], \A b \in zone : away[b] < Window,
         \A b \in zone : b \subseteq seen \/ away[b] >= n,
         zone # {} => \E a \in zone : a \subseteq seen,
         zone # {} => firstSize \in Nat,
         Cardinality(zone) > 1 /\ n > 1 => firstSize < Size(seen),
         PhaseAfter(n, Size(seen), firstSize, quiet) = "over"
  PROVE  Served \subseteq seen
<1>1. /\ Window \in Nat /\ StaleMin \in Nat /\ StaleFactor \in Nat /\ fingerprintProbes \in Nat
      /\ fingerprintMaxProbes \in Nat /\ fingerprintProbes > 1
      /\ Window <= fingerprintProbes + StaleMin /\ Window <= fingerprintMaxProbes
  BY ConstantsNat DEF ShortRotation
<1>2. Size(seen) \in Nat
  BY ServedFinite, FS_Subset, FS_CardinalityType DEF Size
<1>3. CASE n >= Window
  <2>1. \A b \in zone : b \subseteq seen
    BY <1>1, <1>3
  <2>2. QED BY <2>1 DEF Served
<1>4. CASE zone = {}
  BY <1>4 DEF Served
<1>5. CASE n < Window /\ zone # {}
  <2>1. n >= fingerprintProbes /\ n > 1
    BY <1>1 DEF PhaseAfter, Probes
  <2>2. ~(Size(seen) > firstSize /\ n < fingerprintMaxProbes /\ quiet < Patience(Size(seen)))
    BY <1>1, <2>1 DEF PhaseAfter, Probes
  <2>3. n < fingerprintMaxProbes
    BY <1>1, <1>5
  <2>4. Patience(Size(seen)) >= StaleMin /\ Patience(Size(seen)) \in Nat
    <3>1. StaleFactor * Size(seen) \in Nat
      BY <1>1, <1>2
    <3>2. QED BY <1>1, <3>1 DEF Patience
  <2>5. quiet < Patience(Size(seen))
    BY <1>1, <1>5, <2>1, <2>4
  <2>6. ~(Cardinality(zone) > 1)
    BY <1>2, <1>5, <2>1, <2>2, <2>3, <2>5
  <2>7. PICK a \in zone : a \subseteq seen
    BY <1>5
  <2>8. Cardinality(zone) = 1
    <3>1. Cardinality(zone) \in Nat /\ Cardinality(zone) # 0
      BY <1>5, FS_CardinalityType, FS_EmptySet
    <3>2. QED BY <2>6, <3>1
  <2>9. \A b \in zone : b = a
    BY <2>8, FS_Singleton
  <2>10. QED BY <2>7, <2>9 DEF Served
<1>6. QED BY <1>1, <1>3, <1>4, <1>5

(* A probe adds what it brings, and goes on or ends the check. *)
LEMMA ProbeRotates ==
  ASSUME ShortRotation, WildInv, RotationTypeOK, Undisturbed, RotationInv, Probe
  PROVE  RotationTypeOK' /\ RotationInv'
<1>1. PICK recs \in SUBSET Records, o \in Outcomes :
        /\ LookedUp(recs, o)
        /\ IF Conclusive(o)
           THEN /\ learned' = learned \cup recs
                /\ sent' = sent + 1
                /\ first' = FirstSize(Size(learned'))
                /\ stale' = IF stage = "probing" \/ learned' # learned THEN 0 ELSE stale + 1
                /\ stage' = PhaseAfter(sent', Size(learned'), first', stale')
                /\ UNCHANGED verdict
           ELSE verdict' = IF o = "canceled" THEN "canceled" ELSE "inconclusive"
  BY DEF Probe
<1>2. /\ UNCHANGED <<mode, wildCtx, fp, place, got, exists, shown>>
      /\ Checking /\ stage # "over" /\ stage # "returned"
  BY DEF Probe, resultVars, Checking
<1>3. /\ zone' = zone /\ ages' \in [Answers -> Nat] /\ lossy' = lossy
      /\ \/ /\ o = "found" /\ recs \in zone /\ recs # {} /\ MayServe(recs) /\ last' = recs
            /\ ages' = After(recs)
         \/ o = "nxdomain" /\ zone = {} /\ recs = {} /\ UNCHANGED serverVars
  BY <1>1, LookupRotates DEF Undisturbed
<1>4. /\ learned' = learned \cup recs
      /\ sent' = sent + 1
      /\ first' = FirstSize(Size(learned'))
      /\ stale' = IF stage = "probing" \/ learned' # learned THEN 0 ELSE stale + 1
      /\ stage' = PhaseAfter(sent', Size(learned'), first', stale')
      /\ UNCHANGED verdict
  BY <1>1, <1>3 DEF Conclusive
<1>5. /\ sent \in Nat /\ stale \in Nat /\ zone \in Zones /\ LearnedInv
      /\ ages \in [Answers -> Nat] /\ zone \subseteq Answers /\ mode = "root"
  BY <1>2 DEF RotationTypeOK, RotationInv, Answers, Undisturbed
<1>6. /\ sent' \in Nat /\ sent' > 0 /\ stale' \in Nat
      /\ stale' = 0 \/ sent' >= fingerprintProbes + stale'
      /\ stage' = "saturating" => sent' >= fingerprintProbes
  <2>1. sent' \in Nat /\ sent' > 0 /\ stale' \in Nat
    BY <1>4, <1>5
  <2>2. stage' = "saturating" => sent' >= fingerprintProbes
    BY <1>2, <1>4, <1>5, <2>1, ConstantsNat DEF PhaseAfter, Probes
  <2>3. ASSUME stale' # 0 PROVE sent' >= fingerprintProbes + stale'
    <3>1. stage = "saturating" /\ stale' = stale + 1
      BY <1>2, <1>4, <2>3 DEF Checking
    <3>2. QED BY <1>4, <1>5, <3>1, ConstantsNat DEF LearnedInv
  <2>4. QED BY <2>1, <2>2, <2>3
<1>7. RotationTypeOK'
  BY <1>2, <1>3, <1>6 DEF RotationTypeOK
<1>8. Served' = Served /\ learned' \subseteq Served /\ recs \subseteq Served
  <2>1. Served' = Served
    BY <1>3 DEF Served
  <2>2. recs \subseteq Served
    BY <1>3 DEF Served
  <2>3. QED BY <1>4, <2>1, <2>2 DEF WildInv
<1>9. \A b \in zone' : ages'[b] < Window
  BY <1>3, ServedInTime
<1>10. \A b \in zone : b \subseteq learned' \/ ages'[b] >= sent'
  <2>1. SUFFICES ASSUME NEW b \in zone, ~(b \subseteq learned') PROVE ages'[b] >= sent'
    OBVIOUS
  <2>2. b # recs /\ ~(b \subseteq learned)
    BY <1>4, <2>1
  <2>3. ages[b] >= sent
    BY <1>5, <2>2 DEF LearnedInv
  <2>4. ages'[b] = ages[b] + 1
    BY <1>3, <2>2, ServedInTime
  <2>5. QED BY <1>4, <1>5, <2>3, <2>4
<1>11. IsFiniteSet(Served) /\ Size(learned') \in Nat
  BY <1>5, <1>8, ServedFinite, FS_Subset, FS_CardinalityType DEF Size
<1>12. /\ zone # {} => last' \in zone /\ last' \subseteq learned' /\ first' \in Nat
       /\ zone # {} /\ sent' = 1 => learned' = last' /\ first' = Size(last')
  <2>1. ASSUME zone # {} PROVE last' \in zone /\ last' \subseteq learned' /\ last' = recs
    BY <1>3, <1>4, <2>1
  <2>2. first' = IF first < 0 THEN Size(learned') ELSE first
    BY <1>4 DEF FirstSize
  <2>3. CASE sent = 0
    <3>1. learned' = recs /\ first' = Size(recs)
      <4>1. learned = {} /\ first = -1
        BY <1>5, <2>3 DEF LearnedInv
      <4>2. learned' = recs
        BY <1>4, <4>1
      <4>3. QED BY <2>2, <4>1, <4>2
    <3>2. QED BY <1>11, <2>1, <3>1
  <2>4. CASE sent > 0
    <3>1. zone # {} => first' \in Nat
      BY <1>5, <2>2, <2>4 DEF LearnedInv
    <3>2. QED BY <1>4, <1>5, <2>1, <2>4, <3>1
  <2>5. QED BY <1>5, <2>3, <2>4
<1>13. ASSUME Cardinality(zone) > 1, sent' > 1 PROVE first' < Size(learned')
  <2>1. zone # {} /\ sent > 0
    <3>1. zone # {}
      BY <1>13, FS_EmptySet
    <3>2. QED BY <1>4, <1>5, <1>13, <3>1
  <2>2. first' = first /\ first \in Nat /\ last \in zone /\ last \subseteq learned
    BY <1>4, <1>5, <2>1 DEF LearnedInv, FirstSize
  <2>3. IsFiniteSet(learned') /\ learned \subseteq learned'
    BY <1>4, <1>8, <1>11, FS_Subset
  <2>4. Size(learned) <= Size(learned') /\ Size(learned) \in Nat
    BY <2>3, FS_Subset, FS_CardinalityType DEF Size
  <2>5. CASE sent > 1
    BY <1>5, <1>11, <1>13, <2>2, <2>4, <2>5 DEF LearnedInv
  <2>6. CASE sent = 1
    <3>1. learned = last /\ first = Size(learned)
      BY <1>5, <2>1, <2>6 DEF LearnedInv
    <3>2. recs \in zone /\ recs # last
      BY <1>3, <1>13, <2>1 DEF MayServe
    <3>3. ~(recs \subseteq last)
      BY <1>5, <2>2, <3>2 DEF ShortRotation
    <3>4. learned # learned'
      BY <1>4, <3>1, <3>3
    <3>5. Size(learned) < Size(learned')
      BY <2>3, <3>4, FS_Subset, FS_CardinalityType DEF Size
    <3>6. QED BY <2>2, <3>1, <3>5
  <2>7. QED BY <1>5, <2>1, <2>5, <2>6
<1>14. ASSUME stage' = "over" PROVE Served \subseteq learned'
  <2> DEFINE away == [b \in zone |-> ages'[b]]
  <2>1. away \in [zone -> Nat] /\ \A b \in zone : away[b] = ages'[b]
    BY <1>3, <1>5
  <2>2. (\A b \in zone : away[b] < Window) /\ (\A b \in zone : b \subseteq learned' \/ away[b] >= sent')
    BY <1>3, <1>9, <1>10, <2>1
  <2>3. zone # {} => (\E a \in zone : a \subseteq learned') /\ first' \in Nat
    BY <1>12
  <2> HIDE DEF away
  <2>4. PhaseAfter(sent', Size(learned'), first', stale') = "over"
    BY <1>4, <1>14
  <2>5. IsFiniteSet(zone) /\ learned' \in SUBSET Served
    BY <1>5, <1>8, ServedFinite
  <2>6. QED BY <1>5, <1>6, <1>13, <2>1, <2>2, <2>3, <2>4, <2>5, OverSeesAll
<1>15. LearnedInv'
  BY <1>3, <1>6, <1>8, <1>10, <1>12, <1>13, <1>14 DEF LearnedInv, Size
<1>16. ReportInv'
  BY <1>2, <1>4, <1>8 DEF RotationInv, ReportInv
<1>17. QED BY <1>7, <1>9, <1>15, <1>16 DEF RotationInv

LEMMA ConcludeRotates ==
  ASSUME RotationTypeOK, Undisturbed, RotationInv, Conclude
  PROVE  RotationTypeOK' /\ RotationInv'
<1>1. /\ stage = "over" /\ stage' = "returned" /\ mode = "root" /\ fp' = learned
      /\ UNCHANGED <<zone, ages, mode, sent, stale, place, got, exists>>
  BY DEF Conclude, Undisturbed, serverVars
<1>2. Served' = Served /\ Served \subseteq learned
  BY <1>1 DEF Served, RotationInv, LearnedInv, Checking
<1>3. RotationTypeOK'
  BY <1>1 DEF RotationTypeOK
<1>4. ReportInv'
  <2>1. Served' \subseteq fp'
    BY <1>1, <1>2
  <2>2. \A w \in Checker : place[w] = "idle"
    BY <1>1 DEF RotationInv, ReportInv
  <2>3. QED BY <1>1, <2>1, <2>2 DEF ReportInv
<1>5. QED BY <1>1, <1>3, <1>4 DEF RotationInv, Checking

-----------------------------------------------------------------------------
(* The workers. *)

LEMMA WorkersRotate ==
  ASSUME RotationTypeOK, Undisturbed, RotationInv, NEW w \in Checker,
         FindResult(w) \/ Match(w) \/ Revalidate(w)
  PROVE  RotationTypeOK' /\ RotationInv'
<1>1. /\ UNCHANGED <<mode, sent, stale, stage, verdict, learned>>
      /\ mode = "root"
  BY DEF FindResult, Match, Revalidate, checkVars, Undisturbed
<1>2. verdict = "wildcard" /\ stage = "returned" /\ Served \subseteq fp
  BY DEF FindResult, Match, Revalidate, RotationInv, ReportInv
<1>3. ~Checking' /\ ReportInv
  BY <1>1, <1>2 DEF Checking, RotationInv
<1>4. ASSUME NEW recs, NEW o, LookedUp(recs, o)
      PROVE  /\ zone' = zone /\ ages' \in [Answers -> Nat]
             /\ \A b \in zone : ages'[b] < Window
             /\ recs \subseteq Served /\ (o = "found" => recs # {})
  <2>1. /\ zone' = zone /\ ages' \in [Answers -> Nat]
        /\ \/ /\ o = "found" /\ recs \in zone /\ recs # {} /\ MayServe(recs)
              /\ ages' = After(recs)
           \/ o = "nxdomain" /\ zone = {} /\ recs = {} /\ UNCHANGED serverVars
    BY <1>4, LookupRotates DEF Undisturbed
  <2>2. \A b \in zone : ages'[b] < Window
    BY <2>1, ServedInTime DEF serverVars, RotationInv
  <2>3. QED BY <2>1, <2>2 DEF Served
<1>5. ASSUME zone' = zone, ages' \in [Answers -> Nat], \A b \in zone : ages'[b] < Window,
             fp \subseteq fp',
             place' \in [Checker -> {"idle", "match", "probe"}],
             got' \in [Checker -> SUBSET Records], exists' \in [Checker -> BOOLEAN],
             \A u \in Checker : place'[u] # "idle" =>
               exists'[u] \/ (got'[u] # {} /\ got'[u] \subseteq Served)
      PROVE  RotationTypeOK' /\ RotationInv'
  <2>1. Served' = Served
    BY <1>5 DEF Served
  <2>2. RotationTypeOK'
    BY <1>1, <1>5 DEF RotationTypeOK
  <2>3. ReportInv'
    BY <1>1, <1>2, <1>5, <2>1 DEF ReportInv
  <2>4. QED BY <1>3, <1>5, <2>2, <2>3 DEF RotationInv
<1>6. /\ place \in [Checker -> {"idle", "match", "probe"}]
      /\ got \in [Checker -> SUBSET Records] /\ exists \in [Checker -> BOOLEAN]
      /\ ages \in [Answers -> Nat] /\ \A b \in zone : ages[b] < Window
      /\ \A u \in Checker : place[u] # "idle" =>
           exists[u] \/ (got[u] # {} /\ got[u] \subseteq Served)
  BY <1>3 DEF RotationTypeOK, RotationInv, ReportInv
<1>7. CASE FindResult(w)
  <2>1. PICK recs \in (SUBSET Records) \ {{}} :
          /\ \/ exists' = [exists EXCEPT ![w] = TRUE] /\ UNCHANGED serverVars
             \/ LookedUp(recs, "found") /\ exists' = [exists EXCEPT ![w] = FALSE]
          /\ got' = [got EXCEPT ![w] = recs]
    BY <1>7 DEF FindResult
  <2>2. place' = [place EXCEPT ![w] = "match"] /\ fp' = fp
    BY <1>7 DEF FindResult
  <2>3. /\ zone' = zone /\ ages' \in [Answers -> Nat]
        /\ \A b \in zone : ages'[b] < Window
        /\ exists'[w] \/ (recs # {} /\ recs \subseteq Served)
    <3>1. CASE exists' = [exists EXCEPT ![w] = TRUE] /\ UNCHANGED serverVars
      BY <1>6, <3>1 DEF serverVars
    <3>2. CASE LookedUp(recs, "found")
      BY <1>4, <3>2
    <3>3. QED BY <2>1, <3>1, <3>2
  <2>4. QED BY <1>5, <1>6, <2>1, <2>2, <2>3
<1>8. CASE Match(w)
  BY <1>5, <1>6, <1>8 DEF Match, serverVars
<1>9. CASE Revalidate(w)
  <2>1. PICK recs \in SUBSET Records, o \in Outcomes :
          /\ LookedUp(recs, o) \/ UNCHANGED serverVars
          /\ fp' = fp \cup recs
    BY <1>9 DEF Revalidate
  <2>2. UNCHANGED <<got, exists>> /\ place' = [place EXCEPT ![w] = "match"] /\ place[w] = "probe"
    BY <1>9 DEF Revalidate
  <2>3. /\ zone' = zone /\ ages' \in [Answers -> Nat]
        /\ \A b \in zone : ages'[b] < Window
    BY <1>4, <1>6, <2>1 DEF serverVars
  <2>4. fp \subseteq fp'
    BY <2>1
  <2>5. QED BY <1>5, <1>6, <2>2, <2>3, <2>4
<1>10. QED BY <1>7, <1>8, <1>9

-----------------------------------------------------------------------------
(* The invariant, of every scan. *)

UndisturbedShown == ~lossy /\ ~wildCtx => \A r \in shown : r[1]

FilterInv ==
  /\ WildInv /\ RotationTypeOK
  /\ Undisturbed => RotationInv
  /\ mode # "root" => shown = {}
  /\ UndisturbedShown

LEMMA RotationTypeStep ==
  ASSUME WildInv, RotationTypeOK, [WildNext]_wildVars
  PROVE  RotationTypeOK' /\ zone' = zone /\ lossy' = lossy /\ mode' = mode /\ (wildCtx => wildCtx')
<1> USE DEF RotationTypeOK
<1>1. CASE Probe
  <2>1. PICK recs, o :
          /\ LookedUp(recs, o)
          /\ \/ sent' = sent + 1 /\ stale' \in {0, stale + 1}
             \/ UNCHANGED <<sent, stale>>
    BY <1>1 DEF Probe
  <2>2. zone' = zone /\ ages' \in [Answers -> Nat] /\ lossy' = lossy
    BY <2>1, LookupRotates
  <2>3. sent' \in Nat /\ stale' \in Nat
    BY <2>1
  <2>4. UNCHANGED <<mode, wildCtx, place, got, exists>>
    BY <1>1 DEF Probe, resultVars
  <2>5. QED BY <2>2, <2>3, <2>4
<1>2. CASE Conclude \/ AskAgain \/ CancelWild \/ UNCHANGED wildVars
  BY <1>2 DEF Conclude, AskAgain, CancelWild, wildVars, serverVars, checkVars, resultVars
<1>3. ASSUME NEW w \in Checker, FindResult(w) \/ Match(w) \/ Revalidate(w)
      PROVE  RotationTypeOK' /\ zone' = zone /\ lossy' = lossy /\ mode' = mode /\ (wildCtx => wildCtx')
  <2>1. mode = "root" /\ UNCHANGED <<mode, wildCtx, sent, stale>>
    BY <1>3 DEF FindResult, Match, Revalidate, checkVars
  <2>2. CASE FindResult(w)
    <3>1. PICK recs \in SUBSET Records :
            /\ UNCHANGED serverVars \/ LookedUp(recs, "found")
            /\ got' = [got EXCEPT ![w] = recs]
            /\ exists' \in {[exists EXCEPT ![w] = TRUE], [exists EXCEPT ![w] = FALSE]}
      BY <2>2 DEF FindResult
    <3>2. zone' = zone /\ ages' \in [Answers -> Nat] /\ lossy' = lossy
      BY <3>1, LookupRotates DEF serverVars
    <3>3. place' = [place EXCEPT ![w] = "match"]
      BY <2>2 DEF FindResult
    <3>4. QED BY <2>1, <3>1, <3>2, <3>3
  <2>3. CASE Match(w)
    BY <2>1, <2>3 DEF Match, serverVars
  <2>4. CASE Revalidate(w)
    <3>1. PICK recs, o : UNCHANGED serverVars \/ LookedUp(recs, o)
      BY <2>4 DEF Revalidate
    <3>2. zone' = zone /\ ages' \in [Answers -> Nat] /\ lossy' = lossy
      BY <3>1, LookupRotates DEF serverVars
    <3>3. place' = [place EXCEPT ![w] = "match"] /\ UNCHANGED <<got, exists>>
      BY <2>4 DEF Revalidate
    <3>4. QED BY <2>1, <3>2, <3>3
  <2>5. QED BY <1>3, <2>2, <2>3, <2>4
<1>4. QED BY <1>1, <1>2, <1>3 DEF WildNext

LEMMA ShownStep ==
  ASSUME RotationTypeOK, UndisturbedShown, mode # "root" => shown = {}, Undisturbed => RotationInv,
         [WildNext]_wildVars, lossy' = lossy, mode' = mode, wildCtx => wildCtx'
  PROVE  UndisturbedShown' /\ (mode' # "root" => shown' = {})
<1>1. CASE shown' = shown
  BY <1>1 DEF UndisturbedShown
<1>2. CASE \E w \in Checker : Match(w) /\ shown' # shown
  <2>1. PICK w \in Checker : Match(w) /\ shown' # shown
    BY <1>2
  <2>2. /\ place[w] = "match" /\ ~Covered(got[w]) /\ mode = "root"
        /\ shown' = shown \cup {<<exists[w], got[w]>>}
    BY <2>1 DEF Match, RotationTypeOK
  <2>3. ~lossy /\ ~wildCtx => exists[w]
    <3>1. SUFFICES ASSUME ~lossy, ~wildCtx PROVE exists[w]
      OBVIOUS
    <3>2. Served \subseteq fp /\ (exists[w] \/ (got[w] # {} /\ got[w] \subseteq Served))
      BY <2>2, <3>1 DEF Undisturbed, RotationInv, ReportInv
    <3>3. QED BY <2>2, <3>2 DEF Covered
  <2>4. QED BY <2>2, <2>3 DEF UndisturbedShown
<1>3. shown' = shown \/ \E w \in Checker : Match(w)
  BY DEF WildNext, Probe, Conclude, AskAgain, CancelWild, FindResult, Revalidate, wildVars, resultVars
<1>4. QED BY <1>1, <1>2, <1>3

LEMMA FilterInvStep ==
  ASSUME ShortRotation, FilterInv, [WildNext]_wildVars
  PROVE  FilterInv'
<1>1. WildInv /\ RotationTypeOK /\ (Undisturbed => RotationInv)
  BY DEF FilterInv
<1>2. WildInv'
  <2>1. CASE UNCHANGED wildVars
    BY <1>1, <2>1 DEF wildVars, serverVars, checkVars, resultVars, WildInv, VerdictTrue,
                      OnlyServedFiltered, Served
  <2>2. QED BY <1>1, <2>1, CheckKeepsWild, WorkersKeepWild DEF WildNext
<1>3. RotationTypeOK' /\ zone' = zone /\ lossy' = lossy /\ mode' = mode /\ (wildCtx => wildCtx')
  BY <1>1, RotationTypeStep
<1>4. UndisturbedShown' /\ (mode' # "root" => shown' = {})
  BY <1>1, <1>3, ShownStep DEF FilterInv
<1>5. ASSUME Undisturbed' PROVE RotationInv'
  <2>1. Undisturbed /\ RotationInv
    BY <1>1, <1>3, <1>5 DEF Undisturbed
  <2>2. ~AskAgain /\ ~CancelWild
    BY <1>5, <2>1 DEF AskAgain, CancelWild, Undisturbed
  <2>3. CASE UNCHANGED wildVars
    BY <2>1, <2>3 DEF wildVars, serverVars, checkVars, resultVars, RotationInv, LearnedInv,
                      ReportInv, Checking, Served, Size
  <2>4. QED BY <1>1, <2>1, <2>2, <2>3, ProbeRotates, ConcludeRotates, WorkersRotate DEF WildNext
<1>6. QED BY <1>2, <1>3, <1>4, <1>5 DEF FilterInv

LEMMA FilterInvInit ==
  ASSUME WildInit
  PROVE  FilterInv
<1>1. WildInv
  BY DEF WildInit, WildInv, VerdictTrue, OnlyServedFiltered
<1>2. /\ zone \in Zones /\ mode \in {"root", "parent"}
      /\ ages = [a \in Answers |-> 0] /\ sent = 0 /\ stale = 0 /\ learned = {} /\ first = -1
      /\ stage = "probing" /\ verdict = "open" /\ shown = {}
      /\ place = [w \in Checker |-> "idle"] /\ got = [w \in Checker |-> {}]
      /\ exists = [w \in Checker |-> FALSE]
  BY DEF WildInit
<1>3. RotationTypeOK
  BY <1>2 DEF RotationTypeOK
<1>4. zone \subseteq Answers
  BY <1>2 DEF Answers
<1>5. RotationInv
  BY <1>2, <1>4, ConstantsNat DEF RotationInv, LearnedInv, ReportInv
<1>6. QED BY <1>1, <1>2, <1>3, <1>5 DEF FilterInv, UndisturbedShown

(* A wildcard zone whose answers rotate as ShortRotation says, with any number *)
(* of answers and of workers: no result with a record of its own is filtered,  *)
(* and unless a lookup fails or the scan is cancelled, no name that does not   *)
(* exist is reported (#48), since the check that FingerprintWildcard ends has  *)
(* seen every answer.                                                          *)
THEOREM FilterIsExact == ShortRotation => (WildSpec => []FilterExact)
<1> SUFFICES ASSUME ShortRotation PROVE WildSpec => []FilterExact
  OBVIOUS
<1>1. WildInit => FilterInv
  BY FilterInvInit
<1>2. FilterInv /\ [WildNext]_wildVars => FilterInv'
  BY FilterInvStep
<1>3. FilterInv => FilterExact
  BY DEF FilterInv, WildInv, FilterExact, UndisturbedShown
<1>4. QED BY <1>1, <1>2, <1>3, PTL DEF WildSpec

-----------------------------------------------------------------------------
(***************************************************************************)
(* The names of a scenario (LabZoneProps).  The ancestors of a name are    *)
(* its ends, one for each length.                                          *)
(***************************************************************************)
Names == Seq(Labels)

EndsWith(t, s) ==
  Len(s) <= Len(t) /\ \A i \in 1..Len(s) : s[i] = t[Len(t) - Len(s) + i]

LEMMA LinesKnown ==
  /\ Origins \subseteq Names /\ Questions \subseteq Names
  /\ \A l \in Lines : l.kind \in {"record", "delay", "limit"}
  /\ \A l \in Lines : l \notin RecordLines /\ l.kind # "delay" => l.value \in Nat /\ l.value > 0
  /\ \A l \in RecordLines :
       /\ l \in Lines /\ l.wild \in BOOLEAN /\ l.name \in Names
       /\ l.target.name \in Names /\ l.target.absolute \in BOOLEAN
       /\ l.type \in {"A", "AAAA", "CNAME"} \cup failures
  /\ Second \in Nat /\ Second > 0
  /\ <<>> \in Names
<1>1. <<>> \in Names
  BY EmptySeq DEF Names
<1>2. QED BY <1>1, LabZoneAssumption DEF Names, RecordLines

LEMMA SuffixIsEnd ==
  ASSUME NEW s \in Names, NEW t \in Names
  PROVE  IsSuffix(s, t) <=> EndsWith(t, s)
<1>1. /\ Len(s) \in Nat /\ Len(t) \in Nat
      /\ \A i \in 1..Len(s) : s[i] \in Labels
      /\ \A i \in 1..Len(t) : t[i] \in Labels
  BY ElementOfSeq, LenProperties DEF Names
<1> DEFINE rs == Reverse(s)
           rt == Reverse(t)
<1>2. /\ rs = [i \in 1..Len(s) |-> s[(Len(s) - i) + 1]]
      /\ rt = [i \in 1..Len(t) |-> t[(Len(t) - i) + 1]]
  BY DEF Reverse
<1>3. Len(rs) = Len(s) /\ Len(rt) = Len(t)
  BY <1>1, <1>2
<1>4. (\A i \in 1..Len(s) : rs[i] = s[(Len(s) - i) + 1]) /\ (\A i \in 1..Len(t) : rt[i] = t[(Len(t) - i) + 1])
  BY <1>2
<1> HIDE DEF rs, rt
<1>5. CASE Len(s) <= Len(t)
  <2>1. /\ \A i \in 1..Len(s) : rs[i] \in Labels
        /\ \A i \in 1..Len(s) : rt[i] \in Labels
    <3>1. \A i \in 1..Len(s) : (Len(s) - i) + 1 \in 1..Len(s) /\ (Len(t) - i) + 1 \in 1..Len(t)
                               /\ i \in 1..Len(t)
      BY <1>1, <1>5
    <3>2. QED BY <1>1, <1>4, <3>1
  <2>2. /\ SubSeq(rs, 1, Len(s)) \in Names /\ Len(SubSeq(rs, 1, Len(s))) = Len(s)
        /\ SubSeq(rt, 1, Len(s)) \in Names /\ Len(SubSeq(rt, 1, Len(s))) = Len(s)
        /\ \A i \in 1..Len(s) : SubSeq(rs, 1, Len(s))[i] = rs[i] /\ SubSeq(rt, 1, Len(s))[i] = rt[i]
    <3>1. \A i \in 1..Len(s) : i \in 1..(Len(s) - 1 + 1) /\ 1 + i - 1 = i
      BY <1>1
    <3>2. /\ SubSeq(rs, 1, Len(s)) \in Seq(Labels)
          /\ Len(SubSeq(rs, 1, Len(s))) = (IF 1 <= Len(s) THEN Len(s) - 1 + 1 ELSE 0)
          /\ \A i \in 1 .. Len(s) - 1 + 1 : SubSeq(rs, 1, Len(s))[i] = rs[1 + i - 1]
      BY <1>1, <2>1, SubSeqProperties
    <3>3. /\ SubSeq(rt, 1, Len(s)) \in Seq(Labels)
          /\ Len(SubSeq(rt, 1, Len(s))) = (IF 1 <= Len(s) THEN Len(s) - 1 + 1 ELSE 0)
          /\ \A i \in 1 .. Len(s) - 1 + 1 : SubSeq(rt, 1, Len(s))[i] = rt[1 + i - 1]
      BY <1>1, <2>1, SubSeqProperties
    <3>4. QED BY <1>1, <3>1, <3>2, <3>3 DEF Names
  <2>3. SubSeq(rs, 1, Len(s)) = SubSeq(rt, 1, Len(s)) <=> \A i \in 1..Len(s) : rs[i] = rt[i]
    BY <2>2, SeqEqual DEF Names
  <2>4. (\A i \in 1..Len(s) : rs[i] = rt[i]) <=> \A i \in 1..Len(s) : s[i] = t[Len(t) - Len(s) + i]
    <3>1. ASSUME \A i \in 1..Len(s) : rs[i] = rt[i], NEW i \in 1..Len(s)
          PROVE  s[i] = t[Len(t) - Len(s) + i]
      <4> DEFINE j == (Len(s) - i) + 1
      <4>1. j \in 1..Len(s) /\ j \in 1..Len(t) /\ (Len(s) - j) + 1 = i /\ (Len(t) - j) + 1 = Len(t) - Len(s) + i
        BY <1>1, <1>5
      <4>2. rs[j] = s[i] /\ rt[j] = t[Len(t) - Len(s) + i]
        BY <1>4, <4>1
      <4>3. QED BY <3>1, <4>1, <4>2
    <3>2. ASSUME \A i \in 1..Len(s) : s[i] = t[Len(t) - Len(s) + i], NEW i \in 1..Len(s)
          PROVE  rs[i] = rt[i]
      <4> DEFINE j == (Len(s) - i) + 1
      <4>1. j \in 1..Len(s) /\ i \in 1..Len(t) /\ Len(t) - Len(s) + j = (Len(t) - i) + 1
        BY <1>1, <1>5
      <4>2. s[j] = t[Len(t) - Len(s) + j]
        BY <3>2, <4>1
      <4>3. QED BY <1>4, <4>1, <4>2
    <3>3. QED BY <3>1, <3>2
  <2>5. IsSuffix(s, t) <=> SubSeq(rs, 1, Len(s)) = SubSeq(rt, 1, Len(s))
    BY <1>3, <1>5 DEF IsSuffix, IsPrefix, rs, rt
  <2>6. QED BY <1>5, <2>3, <2>4, <2>5 DEF EndsWith
<1>6. CASE ~(Len(s) <= Len(t))
  BY <1>3, <1>6 DEF IsSuffix, IsPrefix, EndsWith, rs, rt
<1>7. QED BY <1>5, <1>6

(* The end of a name that leaves k labels out. *)
LEMMA EndOf ==
  ASSUME NEW t \in Names, NEW k \in 0..Len(t)
  PROVE  /\ Under(t, k) \in Names /\ Len(Under(t, k)) = Len(t) - k
         /\ \A i \in 1..(Len(t) - k) : Under(t, k)[i] = t[k + i]
         /\ EndsWith(t, Under(t, k))
<1>1. Len(t) \in Nat /\ \A i \in 1..Len(t) : t[i] \in Labels
  BY ElementOfSeq, LenProperties DEF Names
<1>2. k \in Nat /\ k + 1 \in Int /\ Len(t) \in Int /\ \A i \in k + 1..Len(t) : t[i] \in Labels
  BY <1>1
<1>3. /\ Under(t, k) \in Seq(Labels)
      /\ Len(Under(t, k)) = IF k + 1 <= Len(t) THEN Len(t) - (k + 1) + 1 ELSE 0
      /\ \A i \in 1 .. Len(t) - (k + 1) + 1 : Under(t, k)[i] = t[k + 1 + i - 1]
  BY <1>2, SubSeqProperties DEF Under
<1>4. Len(t) - (k + 1) + 1 = Len(t) - k /\ \A i \in 1..(Len(t) - k) : k + 1 + i - 1 = k + i
  BY <1>1
<1>5. Len(Under(t, k)) = Len(t) - k
  BY <1>1, <1>3
<1>6. \A i \in 1..(Len(t) - k) : Under(t, k)[i] = t[k + i]
  BY <1>3, <1>4
<1>7. EndsWith(t, Under(t, k))
  BY <1>1, <1>5, <1>6 DEF EndsWith
<1>8. QED BY <1>3, <1>5, <1>6, <1>7 DEF Names

LEMMA EndIsUnder ==
  ASSUME NEW s \in Names, NEW t \in Names, EndsWith(t, s)
  PROVE  Len(t) - Len(s) \in 0..Len(t) /\ s = Under(t, Len(t) - Len(s))
<1>1. Len(s) \in Nat /\ Len(t) \in Nat /\ Len(s) <= Len(t)
  BY LenProperties DEF Names, EndsWith
<1> DEFINE k == Len(t) - Len(s)
<1>2. k \in 0..Len(t) /\ Len(t) - k = Len(s)
  BY <1>1
<1>3. /\ Under(t, k) \in Names /\ Len(Under(t, k)) = Len(s)
      /\ \A i \in 1..Len(s) : Under(t, k)[i] = t[k + i]
  BY <1>2, EndOf
<1>4. \A i \in 1..Len(s) : s[i] = Under(t, k)[i]
  BY <1>3 DEF EndsWith
<1>5. s = Under(t, k)
  BY <1>3, <1>4, SeqEqual DEF Names
<1>6. QED BY <1>2, <1>5

LEMMA EndsCompare ==
  ASSUME NEW s \in Names, NEW u \in Names, NEW t \in Names, EndsWith(t, s), EndsWith(t, u)
  PROVE  /\ Len(s) <= Len(u) <=> EndsWith(u, s)
         /\ Len(s) = Len(u) => s = u
<1>1. Len(s) \in Nat /\ Len(u) \in Nat /\ Len(t) \in Nat /\ Len(s) <= Len(t) /\ Len(u) <= Len(t)
  BY LenProperties DEF Names, EndsWith
<1>2. ASSUME Len(s) <= Len(u), NEW i \in 1..Len(s)
      PROVE  s[i] = u[Len(u) - Len(s) + i]
  <2> DEFINE j == Len(u) - Len(s) + i
  <2>1. j \in 1..Len(u) /\ Len(t) - Len(u) + j = Len(t) - Len(s) + i
    BY <1>1, <1>2
  <2>2. u[j] = t[Len(t) - Len(u) + j] /\ s[i] = t[Len(t) - Len(s) + i]
    BY <2>1 DEF EndsWith
  <2>3. QED BY <2>1, <2>2
<1>3. Len(s) = Len(u) => s = u
  <2>1. SUFFICES ASSUME Len(s) = Len(u) PROVE s = u
    OBVIOUS
  <2>2. \A i \in 1..Len(s) : s[i] = u[i]
    BY <1>1, <2>1 DEF EndsWith
  <2>3. QED BY <2>1, <2>2, SeqEqual DEF Names
<1>4. QED BY <1>1, <1>2, <1>3 DEF EndsWith

LEMMA EndsItself == ASSUME NEW s \in Names PROVE EndsWith(s, s)
<1>1. Len(s) \in Nat
  BY LenProperties DEF Names
<1>2. QED BY <1>1 DEF EndsWith

(* The names a defined name makes exist. *)
LEMMA AncestorsAreEnds ==
  ASSUME NEW t \in Names
  PROVE  /\ Ancestors(t) \subseteq Names
         /\ \A s \in Names : s \in Ancestors(t) <=> EndsWith(t, s)
<1>1. Len(t) \in Nat
  BY LenProperties DEF Names
<1>2. \A k \in 1..(Len(t) + 1) : k - 1 \in 0..Len(t) /\ SubSeq(t, k, Len(t)) = Under(t, k - 1)
  BY <1>1 DEF Under
<1>3. ASSUME NEW k \in 1..(Len(t) + 1)
      PROVE  SubSeq(t, k, Len(t)) \in Names /\ EndsWith(t, SubSeq(t, k, Len(t)))
  BY <1>2, EndOf
<1>4. ASSUME NEW s \in Names, EndsWith(t, s) PROVE s \in Ancestors(t)
  <2> DEFINE k == Len(t) - Len(s)
  <2>1. k \in 0..Len(t) /\ s = Under(t, k)
    BY <1>4, EndIsUnder
  <2>2. k + 1 \in 1..(Len(t) + 1) /\ s = SubSeq(t, k + 1, Len(t))
    BY <1>1, <2>1 DEF Under
  <2>3. QED BY <2>2 DEF Ancestors
<1>5. QED BY <1>3, <1>4 DEF Ancestors

LEMMA SuffixesAreEnds ==
  ASSUME NEW t \in Names, NEW s \in Names
  PROVE  s \in Suffixes(t) <=> EndsWith(t, s)
<1>1. Len(t) \in Nat
  BY LenProperties DEF Names
<1>2. EndsWith(t, <<>>)
  BY <1>1 DEF EndsWith
<1>3. ASSUME NEW l \in 1..Len(t) PROVE EndsWith(t, SubSeq(t, l, Len(t)))
  <2>1. l - 1 \in 0..Len(t) /\ SubSeq(t, l, Len(t)) = Under(t, l - 1)
    BY <1>1 DEF Under
  <2>2. QED BY <2>1, EndOf
<1>4. ASSUME EndsWith(t, s), s # <<>> PROVE \E l \in 1..Len(t) : s = SubSeq(t, l, Len(t))
  <2> DEFINE k == Len(t) - Len(s)
  <2>1. k \in 0..Len(t) /\ s = Under(t, k)
    BY <1>4, EndIsUnder
  <2>2. Len(s) \in Nat /\ Len(s) # 0
    BY <1>4, EmptySeq DEF Names
  <2>3. k + 1 \in 1..Len(t)
    BY <1>1, <2>1, <2>2
  <2>4. QED BY <2>1, <2>3 DEF Under
<1>5. QED BY <1>2, <1>3, <1>4 DEF Suffixes

-----------------------------------------------------------------------------
(* An entry of the tables sums up the lines of its owner.                      *)
LineValues == {l.value : l \in RecordLines}
LineTargets == {l.target : l \in RecordLines}
EntryType ==
  [a : SUBSET LineValues, aaaa : SUBSET LineValues, cname : SUBSET LineTargets,
   fail : {"none"} \cup failures]

Sums(e, set) ==
  /\ e.a = Of(set, "A") /\ e.aaaa = Of(set, "AAAA")
  /\ e.cname = {l.target : l \in {r \in set : r.type = "CNAME"}}
  /\ \A l \in set : l.type \in failures => e.fail = l.type
  /\ (\A l \in set : l.type \notin failures) => e.fail = "none"
  /\ \A l \in set : l.type \notin {"A", "AAAA"} => set = {l}

LEMMA FailureNames ==
  \A x \in failures : x # "A" /\ x # "AAAA" /\ x # "CNAME" /\ x # "none"
  BY DEF failures

LEMMA EmptyEntry ==
  /\ Undefined \in EntryType /\ Sums(Undefined, {})
  /\ \A e \in EntryType :
       e = Undefined <=> e.a = {} /\ e.aaaa = {} /\ e.cname = {} /\ e.fail = "none"
<1>1. Undefined \in EntryType
  BY DEF Undefined, EntryType
<1>2. Sums(Undefined, {})
  BY DEF Undefined, Sums, Of
<1>3. ASSUME NEW e \in EntryType, e.a = {}, e.aaaa = {}, e.cname = {}, e.fail = "none"
      PROVE  e = Undefined
  BY <1>3 DEF Undefined, EntryType
<1>4. QED BY <1>1, <1>2, <1>3 DEF Undefined

(* What an entry tells of the lines it sums up. *)
LEMMA EntryTells ==
  ASSUME NEW e \in EntryType, NEW set \in SUBSET RecordLines, Sums(e, set)
  PROVE  /\ e = Undefined <=> set = {}
         /\ e.fail = "none" <=> \A l \in set : l.type \notin failures
         /\ e.cname = {} <=> \A l \in set : l.type # "CNAME"
<1>1. \A l \in set : l.type \in {"A", "AAAA", "CNAME"} \cup failures
  BY LinesKnown
<1>2. e.fail = "none" <=> \A l \in set : l.type \notin failures
  BY FailureNames DEF Sums
<1>3. e.cname = {} <=> \A l \in set : l.type # "CNAME"
  BY DEF Sums
<1>4. ASSUME set # {}, e = Undefined PROVE FALSE
  <2>1. PICK l \in set : TRUE
    BY <1>4
  <2>2. e.a = {} /\ e.aaaa = {} /\ e.cname = {} /\ e.fail = "none"
    BY <1>4, EmptyEntry
  <2>3. l.type \in {"A", "AAAA"}
    BY <1>1, <1>2, <1>3, <2>1, <2>2
  <2>4. l.value \in Of(set, l.type)
    BY <2>1 DEF Of
  <2>5. QED BY <2>2, <2>3, <2>4 DEF Sums
<1>5. ASSUME set = {} PROVE e = Undefined
  <2>1. e.a = {} /\ e.aaaa = {}
    BY <1>5 DEF Sums, Of
  <2>2. QED BY <1>2, <1>3, <1>5, <2>1, EmptyEntry
<1>6. QED BY <1>2, <1>3, <1>4, <1>5

(* A line combines with an entry exactly if it contradicts none of its lines.  *)
LEMMA CombinesTells ==
  ASSUME NEW e \in EntryType, NEW set \in SUBSET RecordLines, Sums(e, set), NEW l \in RecordLines
  PROVE  Combines(l, e) <=> \A r \in set : {r.type, l.type} \subseteq {"A", "AAAA"}
<1>1. \A r \in set \cup {l} : r.type \in {"A", "AAAA", "CNAME"} \cup failures
  BY LinesKnown
<1>2. CASE l.type \in {"A", "AAAA"}
  BY <1>1, <1>2, EntryTells, FailureNames DEF Combines
<1>3. CASE l.type \notin {"A", "AAAA"}
  BY <1>3, EntryTells DEF Combines
<1>4. QED BY <1>2, <1>3

LEMMA OfOneMore ==
  ASSUME NEW set, NEW l, NEW type
  PROVE  Of(set \cup {l}, type) = IF l.type = type THEN Of(set, type) \cup {l.value} ELSE Of(set, type)
  BY DEF Of

LEMMA ExtendedSums ==
  ASSUME NEW e \in EntryType, NEW set \in SUBSET RecordLines, Sums(e, set), NEW l \in RecordLines,
         Combines(l, e)
  PROVE  Extended(l, e) \in EntryType /\ Sums(Extended(l, e), set \cup {l})
<1> DEFINE x == Extended(l, e)
           more == set \cup {l}
<1>1. \A r \in more : r.type \in {"A", "AAAA", "CNAME"} \cup failures
  BY LinesKnown
<1>2. l.value \in LineValues /\ l.target \in LineTargets
  BY DEF LineValues, LineTargets
<1>3. CASE l.type \in {"A", "AAAA"}
  <2>1. \A r \in more : r.type \in {"A", "AAAA"}
    BY <1>3, CombinesTells
  <2>2. e.fail = "none" /\ e.cname = {}
    BY <2>1, EntryTells, FailureNames
  <2>3. /\ x \in EntryType /\ x.fail = "none" /\ x.cname = {}
        /\ x.a = IF l.type = "A" THEN e.a \cup {l.value} ELSE e.a
        /\ x.aaaa = IF l.type = "AAAA" THEN e.aaaa \cup {l.value} ELSE e.aaaa
    BY <1>2, <1>3, <2>2 DEF Extended, EntryType
  <2>4. x.a = Of(more, "A") /\ x.aaaa = Of(more, "AAAA")
    <3>1. /\ Of(more, "A") = IF l.type = "A" THEN Of(set, "A") \cup {l.value} ELSE Of(set, "A")
          /\ Of(more, "AAAA") =
               IF l.type = "AAAA" THEN Of(set, "AAAA") \cup {l.value} ELSE Of(set, "AAAA")
      BY OfOneMore
    <3> HIDE DEF x, more
    <3>2. QED BY <1>3, <2>3, <3>1 DEF Sums
  <2>5. x.cname = {r.target : r \in {q \in more : q.type = "CNAME"}}
    BY <2>1, <2>3
  <2>6. \A r \in more : r.type \notin failures /\ r.type \in {"A", "AAAA"}
    BY <2>1, FailureNames
  <2> HIDE DEF x, more
  <2>7. Sums(x, more)
    BY <2>3, <2>4, <2>5, <2>6 DEF Sums
  <2>8. QED BY <2>3, <2>7 DEF x, more
<1>4. CASE l.type \notin {"A", "AAAA"}
  <2>1. set = {} /\ more = {l} /\ e = Undefined
    BY <1>4, CombinesTells, EntryTells
  <2>2. Of(more, "A") = {} /\ Of(more, "AAAA") = {}
    BY <1>4, <2>1 DEF Of
  <2>3. CASE l.type = "CNAME"
    <3>1. /\ x \in EntryType /\ x.fail = "none" /\ x.cname = {l.target} /\ x.a = {} /\ x.aaaa = {}
      BY <1>2, <2>1, <2>3 DEF Extended, EntryType, Undefined
    <3>2. l.type \notin failures
      BY <2>3, FailureNames
    <3>3. {r.target : r \in {q \in more : q.type = "CNAME"}} = {l.target}
      BY <2>1, <2>3
    <3> HIDE DEF x
    <3>4. Sums(x, {l})
      BY <2>1, <2>2, <3>1, <3>2, <3>3 DEF Sums
    <3>5. QED BY <2>1, <3>1, <3>4 DEF x
  <2>4. CASE l.type \in failures
    <3>1. /\ x \in EntryType /\ x.fail = l.type /\ x.cname = {} /\ x.a = {} /\ x.aaaa = {}
      BY <1>2, <2>1, <2>4, FailureNames DEF Extended, EntryType, Undefined
    <3>2. {r.target : r \in {q \in more : q.type = "CNAME"}} = {}
      BY <2>1, <2>4, FailureNames
    <3> HIDE DEF x
    <3>3. Sums(x, {l})
      BY <2>1, <2>2, <2>4, <3>1, <3>2 DEF Sums
    <3>4. QED BY <2>1, <3>1, <3>3 DEF x
  <2>5. QED BY <1>1, <1>4, <2>3, <2>4
<1>5. QED BY <1>3, <1>4

-----------------------------------------------------------------------------
(* Reading a file. *)

SameOwner(l, r) == l.wild = r.wild /\ l.name = r.name
Contradicted(i, j) ==
  i < j /\ {lines[i], lines[j]} \subseteq RecordLines /\ Clash(lines[i], lines[j])

ReadTypeOK ==
  /\ zonePc \in {"parse", "serve", "error"}
  /\ lines \in Seq(Lines) /\ limit \in Nat /\ delay \in BOOLEAN
  /\ tables \in [Owner -> EntryType]

TablesSum == \A o \in Owner : Sums(tables[o], At(o.wild, o.name))
NamedExist == named \subseteq Names /\ \A n \in Names : n \in named <=> Exists(n)

ReadInv ==
  /\ ReadTypeOK
  /\ zonePc # "error" => TablesSum /\ NamedExist /\ ~(\E i, j \in DOMAIN lines : Contradicted(i, j))
  /\ zonePc = "serve" => Given # {}
  /\ zonePc = "error" => Given = {} \/ \E i, j \in DOMAIN lines : Contradicted(i, j)

LEMMA GivenKnown ==
  /\ Given \subseteq RecordLines
  /\ \A wild, name : At(wild, name) \subseteq RecordLines
  BY DEF Given, At

LEMMA GivenAppended ==
  ASSUME lines \in Seq(Lines), NEW l \in Lines, lines' = Append(lines, l)
  PROVE  /\ lines' \in Seq(Lines) /\ DOMAIN lines' = DOMAIN lines \cup {Len(lines) + 1}
         /\ DOMAIN lines = 1..Len(lines) /\ Len(lines) \in Nat
         /\ \A i \in DOMAIN lines : lines'[i] = lines[i]
         /\ lines'[Len(lines) + 1] = l
         /\ ToSet(lines)' = ToSet(lines) \cup {l}
         /\ Given' = Given \cup ({l} \cap RecordLines)
<1>1. /\ lines' \in Seq(Lines) /\ Len(lines') = Len(lines) + 1 /\ Len(lines) \in Nat
      /\ DOMAIN lines = 1..Len(lines) /\ DOMAIN lines' = 1..Len(lines')
      /\ \A i \in 1..Len(lines) : lines'[i] = lines[i]
      /\ lines'[Len(lines) + 1] = l
  BY AppendProperties, LenProperties
<1>2. DOMAIN lines' = DOMAIN lines \cup {Len(lines) + 1}
  BY <1>1
<1>3. ToSet(lines)' = ToSet(lines) \cup {l}
  BY <1>1, <1>2 DEF ToSet
<1>4. Given' = Given \cup ({l} \cap RecordLines)
  BY <1>3 DEF Given
<1>5. QED BY <1>1, <1>2, <1>3, <1>4

(* A directive gives no record. *)
LEMMA DirectiveReads ==
  ASSUME ReadInv, NEW l \in Lines, Directive(l)
  PROVE  ReadInv'
<1>1. /\ zonePc = "parse" /\ zonePc' = "parse" /\ l \notin RecordLines /\ lines' = Append(lines, l)
      /\ UNCHANGED <<tables, named>>
      /\ \/ l.kind = "delay" /\ delay' = TRUE /\ limit' = limit
         \/ l.kind # "delay" /\ limit' = l.value /\ delay' = delay
  BY DEF Directive, ReadLine, ReadInv
<1>2. /\ lines' \in Seq(Lines) /\ DOMAIN lines' = DOMAIN lines \cup {Len(lines) + 1}
      /\ \A i \in DOMAIN lines : lines'[i] = lines[i]
      /\ lines'[Len(lines) + 1] = l /\ Given' = Given
  BY <1>1, GivenAppended DEF ReadInv, ReadTypeOK
<1>3. ReadTypeOK'
  BY <1>1, <1>2, LinesKnown DEF ReadInv, ReadTypeOK
<1>4. TablesSum' /\ NamedExist'
  BY <1>1, <1>2 DEF ReadInv, TablesSum, NamedExist, At, Exists
<1>5. ~(\E i, j \in DOMAIN lines' : Contradicted(i, j)')
  <2>1. SUFFICES ASSUME NEW i \in DOMAIN lines', NEW j \in DOMAIN lines', Contradicted(i, j)' PROVE FALSE
    OBVIOUS
  <2>2. lines'[i] \in RecordLines /\ lines'[j] \in RecordLines
    BY <2>1 DEF Contradicted
  <2>3. i \in DOMAIN lines /\ j \in DOMAIN lines
    BY <1>1, <1>2, <2>2
  <2>4. Contradicted(i, j)
    BY <1>2, <2>1, <2>3 DEF Contradicted
  <2>5. QED BY <1>1, <2>3, <2>4 DEF ReadInv
<1>6. QED BY <1>1, <1>3, <1>4, <1>5 DEF ReadInv

(* A record joins the entry of its owner, or contradicts an earlier one.       *)
LEMMA RecordReads ==
  ASSUME ReadInv, NEW l \in Lines, Record(l)
  PROVE  ReadInv'
<1> DEFINE o == [wild |-> l.wild, name |-> l.name]
           mine == At(l.wild, l.name)
<1>1. /\ zonePc = "parse" /\ l \in RecordLines /\ lines' = Append(lines, l) /\ UNCHANGED <<delay, limit>>
      /\ IF Combines(l, tables[o])
         THEN /\ tables' = [tables EXCEPT ![o] = Extended(l, @)]
              /\ named' = named \cup Ancestors(l.name)
              /\ UNCHANGED zonePc
         ELSE zonePc' = "error" /\ UNCHANGED <<tables, named>>
  BY DEF Record, ReadLine
<1>2. /\ lines' \in Seq(Lines) /\ DOMAIN lines' = DOMAIN lines \cup {Len(lines) + 1}
      /\ DOMAIN lines = 1..Len(lines) /\ Len(lines) \in Nat
      /\ \A i \in DOMAIN lines : lines'[i] = lines[i]
      /\ lines'[Len(lines) + 1] = l /\ Given' = Given \cup {l}
  BY <1>1, GivenAppended DEF ReadInv, ReadTypeOK
<1>3. /\ o \in Owner /\ o.wild = l.wild /\ o.name = l.name
      /\ tables \in [Owner -> EntryType] /\ TablesSum /\ NamedExist
      /\ ~(\E i, j \in DOMAIN lines : Contradicted(i, j))
  BY <1>1 DEF ReadInv, ReadTypeOK, Owner
<1>4. tables[o] \in EntryType /\ Sums(tables[o], mine) /\ mine \in SUBSET RecordLines
  BY <1>3, GivenKnown DEF TablesSum
<1>5. Combines(l, tables[o]) <=> \A r \in mine : ~Clash(r, l)
  <2>1. Combines(l, tables[o]) <=> \A r \in mine : {r.type, l.type} \subseteq {"A", "AAAA"}
    BY <1>1, <1>4, CombinesTells
  <2>2. \A r \in mine : r.wild = l.wild /\ r.name = l.name
    BY DEF At
  <2>3. QED BY <2>1, <2>2 DEF Clash
<1>6. \A r \in Given : Clash(r, l) => r \in mine
  BY DEF Clash, At
<1>7. \A r \in Given : \E i \in DOMAIN lines : lines[i] = r
  BY DEF Given, ToSet
<1>8. CASE ~Combines(l, tables[o])
  <2>1. PICK r \in mine : Clash(r, l)
    BY <1>5, <1>8
  <2>2. PICK i \in DOMAIN lines : lines[i] = r
    BY <1>7, <2>1 DEF At
  <2>3. PICK n : n = Len(lines) + 1
    OBVIOUS
  <2>4. r \in RecordLines /\ i < n /\ i \in DOMAIN lines' /\ n \in DOMAIN lines'
    BY <1>2, <2>1, <2>2, <2>3, GivenKnown
  <2>5. lines'[i] = r /\ lines'[n] = l
    BY <1>2, <2>2, <2>3
  <2>6. i < n /\ {lines'[i], lines'[n]} \subseteq RecordLines /\ Clash(lines'[i], lines'[n])
    BY <1>1, <2>1, <2>4, <2>5
  <2>7. \E j, k \in DOMAIN lines' : Contradicted(j, k)'
    BY <2>4, <2>6 DEF Contradicted
  <2>8. ReadTypeOK' /\ zonePc' = "error"
    BY <1>1, <1>2, <1>8 DEF ReadInv, ReadTypeOK
  <2>9. QED BY <2>7, <2>8 DEF ReadInv
<1>9. CASE Combines(l, tables[o])
  <2>1. /\ tables' = [tables EXCEPT ![o] = Extended(l, @)] /\ named' = named \cup Ancestors(l.name)
        /\ zonePc' = zonePc
    BY <1>1, <1>9
  <2>2. Extended(l, tables[o]) \in EntryType /\ Sums(Extended(l, tables[o]), mine \cup {l})
    BY <1>1, <1>4, <1>9, ExtendedSums
  <2>3. ReadTypeOK'
    BY <1>1, <1>2, <1>3, <2>1, <2>2 DEF ReadInv, ReadTypeOK
  <2>4. TablesSum'
    <3>1. SUFFICES ASSUME NEW p \in Owner PROVE Sums(tables'[p], At(p.wild, p.name)')
      BY DEF TablesSum, Sums, Of
    <3>2. CASE p = o
      <4>1. At(p.wild, p.name)' = mine \cup {l}
        BY <1>2, <1>3, <3>2 DEF At
      <4>2. QED BY <1>3, <2>1, <2>2, <3>2, <4>1
    <3>3. CASE p # o
      <4>1. p = [wild |-> p.wild, name |-> p.name]
        BY DEF Owner
      <4>2. ~(l.wild = p.wild /\ l.name = p.name)
        BY <3>3, <4>1
      <4>3. At(p.wild, p.name)' = At(p.wild, p.name)
        BY <1>2, <4>2 DEF At
      <4>4. tables'[p] = tables[p]
        BY <1>3, <2>1, <3>3
      <4>5. QED BY <1>3, <4>3, <4>4 DEF TablesSum
    <3>4. QED BY <3>2, <3>3
  <2>5. NamedExist'
    <3>1. l.name \in Names
      BY <1>1, LinesKnown
    <3>2. \A n \in Names : n \in Ancestors(l.name) <=> IsSuffix(n, l.name)
      BY <3>1, AncestorsAreEnds, SuffixIsEnd
    <3>3. \A n : Exists(n)' <=> Exists(n) \/ IsSuffix(n, l.name)
      BY <1>2 DEF Exists
    <3>4. Ancestors(l.name) \subseteq Names
      BY <3>1, AncestorsAreEnds
    <3>5. QED BY <1>3, <2>1, <3>2, <3>3, <3>4 DEF NamedExist
  <2>6. ~(\E i, j \in DOMAIN lines' : Contradicted(i, j)')
    <3>1. SUFFICES ASSUME NEW i \in DOMAIN lines', NEW j \in DOMAIN lines', Contradicted(i, j)' PROVE FALSE
      OBVIOUS
    <3>2. i < j /\ {lines'[i], lines'[j]} \subseteq RecordLines /\ Clash(lines'[i], lines'[j])
      BY <3>1 DEF Contradicted
    <3>3. i \in DOMAIN lines
      BY <1>2, <3>2
    <3>4. CASE j \in DOMAIN lines
      <4>1. Contradicted(i, j)
        BY <1>2, <3>2, <3>3, <3>4 DEF Contradicted
      <4>2. QED BY <1>3, <3>3, <3>4, <4>1
    <3>5. CASE j = Len(lines) + 1
      <4>1. lines[i] \in Given /\ Clash(lines[i], l)
        BY <1>2, <3>2, <3>3, <3>5 DEF Given, ToSet
      <4>2. QED BY <1>5, <1>6, <1>9, <4>1
    <3>6. QED BY <1>2, <3>4, <3>5
  <2>7. QED BY <1>1, <2>1, <2>3, <2>4, <2>5, <2>6 DEF ReadInv
<1>10. QED BY <1>8, <1>9

(* A file that defines nothing is refused. *)
LEMMA ParsedReads ==
  ASSUME ReadInv, Parsed
  PROVE  ReadInv'
<1>1. /\ zonePc = "parse" /\ UNCHANGED <<lines, tables, named, delay, limit>>
      /\ zonePc' = IF \A o \in Owner : tables[o] = Undefined THEN "error" ELSE "serve"
  BY DEF Parsed, parsed
<1>2. tables \in [Owner -> EntryType] /\ TablesSum
  BY <1>1 DEF ReadInv, ReadTypeOK
<1>3. \A o \in Owner : tables[o] = Undefined <=> At(o.wild, o.name) = {}
  <2>1. ASSUME NEW o \in Owner PROVE tables[o] = Undefined <=> At(o.wild, o.name) = {}
    <3>1. tables[o] \in EntryType /\ Sums(tables[o], At(o.wild, o.name))
      BY <1>2 DEF TablesSum
    <3>2. At(o.wild, o.name) \in SUBSET RecordLines
      BY GivenKnown
    <3>3. QED BY <3>1, <3>2, EntryTells
  <2>2. QED BY <2>1
<1>4. (\A o \in Owner : At(o.wild, o.name) = {}) <=> Given = {}
  <2>1. ASSUME NEW l \in Given PROVE \E o \in Owner : l \in At(o.wild, o.name)
    <3> DEFINE o == [wild |-> l.wild, name |-> l.name]
    <3>1. o \in Owner /\ o.wild = l.wild /\ o.name = l.name
      BY GivenKnown DEF Owner
    <3>2. QED BY <3>1 DEF At
  <2>2. QED BY <2>1 DEF At
<1>5. Given' = Given /\ TablesSum' = TablesSum /\ NamedExist' = NamedExist
  BY <1>1 DEF Given, TablesSum, NamedExist, At, Exists
<1>6. \A i, j : Contradicted(i, j)' = Contradicted(i, j)
  BY <1>1 DEF Contradicted
<1>7. QED BY <1>1, <1>3, <1>4, <1>5, <1>6 DEF ReadInv, ReadTypeOK

-----------------------------------------------------------------------------
(* Answering from the tables. *)

Serving == ReadTypeOK /\ TablesSum /\ NamedExist

LEMMA EntrySums ==
  ASSUME Serving, NEW wild, NEW name
  PROVE  /\ Entry(wild, name) \in EntryType /\ At(wild, name) \in SUBSET RecordLines
         /\ Sums(Entry(wild, name), At(wild, name))
<1> DEFINE o == [wild |-> wild, name |-> name]
<1>1. At(wild, name) \in SUBSET RecordLines
  BY GivenKnown
<1>2. CASE o \in Owner
  <2>1. Entry(wild, name) = tables[o] /\ o.wild = wild /\ o.name = name
    BY <1>2 DEF Entry
  <2>2. QED BY <1>1, <1>2, <2>1 DEF Serving, TablesSum, ReadTypeOK
<1>3. CASE o \notin Owner
  <2>1. Entry(wild, name) = Undefined
    BY <1>3 DEF Entry
  <2>2. At(wild, name) = {}
    <3>1. \A l \in At(wild, name) : l \in RecordLines /\ l.wild = wild /\ l.name = name
      BY <1>1 DEF At
    <3>2. QED BY <1>3, <3>1 DEF Owner
  <2>3. QED BY <1>1, <2>1, <2>2, EmptyEntry
<1>4. QED BY <1>2, <1>3

(* The closest ancestor of a name that does not exist. *)
LEMMA EncloserIsClosest ==
  ASSUME Serving, NEW rel \in Names, rel \notin named
  PROVE  /\ Encloser(rel) \in Names /\ Encloser(rel) \in named /\ EndsWith(rel, Encloser(rel))
         /\ \A s \in Names : s \in named /\ EndsWith(rel, s) => Len(s) <= Len(Encloser(rel))
<1>1. <<>> \in named /\ <<>> \in Names /\ named \subseteq Names
  BY LinesKnown DEF Serving, NamedExist, Exists
<1>2. Len(rel) \in Nat /\ Len(rel) > 0
  BY <1>1, LenProperties, EmptySeq DEF Names
<1> DEFINE T == {k \in 1..Len(rel) : Encloses(rel, k)}
<1>3. Under(rel, Len(rel)) = <<>>
  <2>1. Under(rel, Len(rel)) \in Names /\ Len(Under(rel, Len(rel))) = 0
    BY <1>2, EndOf
  <2>2. QED BY <2>1, EmptySeq DEF Names
<1>4. T \subseteq Nat /\ T # {}
  BY <1>1, <1>2, <1>3 DEF Encloses
<1>5. \E x \in T : \A y \in T : x <= y
  <2> HIDE DEF T
  <2>1. IsWellFoundedOn(OpToRel(<, Nat), Nat)
    BY NatLessThanWellFounded
  <2>2. PICK x \in T : \A y \in T : ~(<<y, x>> \in OpToRel(<, Nat))
    BY <1>4, <2>1, WFMin
  <2>3. \A y \in T : ~(y < x)
    BY <1>4, <2>2 DEF OpToRel
  <2>4. QED BY <1>4, <2>3
<1> DEFINE closest(k) == Encloses(rel, k) /\ \A j \in 1..(k - 1) : ~Encloses(rel, j)
<1>6. \E k \in 1..Len(rel) : closest(k)
  <2>1. PICK x \in T : \A y \in T : x <= y
    BY <1>5
  <2>2. \A j \in 1..(x - 1) : j \in 1..Len(rel) /\ ~(x <= j)
    BY <1>2
  <2>3. QED BY <2>1, <2>2
<1>7. PICK k \in 1..Len(rel) : closest(k) /\ Encloser(rel) = Under(rel, k)
  <2> HIDE DEF closest
  <2>1. (CHOOSE k \in 1..Len(rel) : closest(k)) \in 1..Len(rel)
    BY <1>6
  <2>2. closest(CHOOSE k \in 1..Len(rel) : closest(k))
    BY <1>6
  <2>3. Encloser(rel) = Under(rel, CHOOSE k \in 1..Len(rel) : closest(k))
    BY DEF Encloser, closest
  <2>4. QED BY <2>1, <2>2, <2>3
<1>8. k \in 0..Len(rel) /\ k \in Nat
  BY <1>2
<1>9. /\ Encloser(rel) \in Names /\ Encloser(rel) \in named /\ EndsWith(rel, Encloser(rel))
      /\ Len(Encloser(rel)) = Len(rel) - k
  BY <1>7, <1>8, EndOf DEF Encloses
<1>10. ASSUME NEW s \in Names, s \in named, EndsWith(rel, s) PROVE Len(s) <= Len(Encloser(rel))
  <2> DEFINE j == Len(rel) - Len(s)
  <2>1. j \in 0..Len(rel) /\ s = Under(rel, j) /\ Len(s) \in Nat
    BY <1>10, EndIsUnder, LenProperties DEF Names
  <2>2. j # 0
    <3>1. j = 0 => Len(s) = Len(rel)
      BY <1>2, <2>1
    <3>2. EndsWith(rel, rel)
      BY EndsItself
    <3>3. j = 0 => s = rel
      BY <1>10, <3>1, <3>2, EndsCompare
    <3>4. QED BY <1>10, <3>3
  <2>3. ~(j \in 1..(k - 1))
    BY <1>7, <1>10, <2>1 DEF Encloses
  <2>4. QED BY <1>2, <1>8, <1>9, <2>1, <2>2, <2>3
<1>11. QED BY <1>9, <1>10

(* The wildcards that cover a name are those of its closest ancestor. *)
LEMMA CoveringIsAt ==
  ASSUME Serving, NEW rel \in Names, rel \notin named
  PROVE  Covering(rel) = At(TRUE, Encloser(rel))
<1> DEFINE enc == Encloser(rel)
<1>1. /\ enc \in Names /\ enc \in named /\ EndsWith(rel, enc)
      /\ \A s \in Names : s \in named /\ EndsWith(rel, s) => Len(s) <= Len(enc)
  BY EncloserIsClosest
<1> HIDE DEF enc
<1>2. \A n \in Names : n \in named <=> Exists(n)
  BY DEF Serving, NamedExist
<1>3. \A l \in Given : l \in RecordLines /\ l.name \in Names /\ l.wild \in BOOLEAN
  BY GivenKnown, LinesKnown
<1>4. \A m : m \in Suffixes(rel) => m \in Names
  <2>1. Len(rel) \in Nat /\ <<>> \in Names
    BY LenProperties, LinesKnown DEF Names
  <2>2. ASSUME NEW l \in 1..Len(rel) PROVE SubSeq(rel, l, Len(rel)) \in Names
    <3>1. l - 1 \in 0..Len(rel) /\ SubSeq(rel, l, Len(rel)) = Under(rel, l - 1)
      BY <2>1 DEF Under
    <3>2. QED BY <3>1, EndOf
  <2>3. QED BY <2>1, <2>2 DEF Suffixes
<1>5. \A m : m \in Suffixes(rel) <=> m \in Names /\ EndsWith(rel, m)
  BY <1>4, SuffixesAreEnds
<1>6. ASSUME NEW l \in Given, l.wild, l.name = enc PROVE l \in Covering(rel)
  <2>1. IsStrictSuffix(enc, rel)
    BY <1>1, SuffixIsEnd DEF IsStrictSuffix
  <2>2. \A m \in Suffixes(rel) : Exists(m) => Len(m) <= Len(enc)
    BY <1>1, <1>2, <1>5
  <2>3. QED BY <1>6, <2>1, <2>2 DEF Covering
<1>7. ASSUME NEW l \in Covering(rel) PROVE l \in Given /\ l.wild /\ l.name = enc
  <2>1. /\ l \in Given /\ l.wild /\ IsSuffix(l.name, rel)
        /\ \A m \in Suffixes(rel) : Exists(m) => Len(m) <= Len(l.name)
    BY DEF Covering, IsStrictSuffix
  <2>2. l.name \in Names /\ EndsWith(rel, l.name) /\ EndsWith(l.name, l.name)
    <3>1. l.name \in Names /\ EndsWith(rel, l.name)
      BY <1>3, <2>1, SuffixIsEnd
    <3>2. QED BY <3>1, EndsItself
  <2>3. Exists(l.name)
    <3>1. IsSuffix(l.name, l.name)
      BY <2>2, SuffixIsEnd
    <3>2. QED BY <2>1, <3>1 DEF Exists
  <2>4. Len(l.name) <= Len(enc) /\ Len(enc) <= Len(l.name)
    BY <1>1, <1>2, <1>5, <2>1, <2>2, <2>3
  <2>5. Len(l.name) \in Nat /\ Len(enc) \in Nat
    BY <1>1, <2>2, LenProperties DEF Names
  <2>6. l.name = enc
    BY <1>1, <2>2, <2>4, <2>5, EndsCompare
  <2>7. QED BY <2>1, <2>6
<1>8. \A l : l \in At(TRUE, enc) <=> l \in Given /\ l.wild = TRUE /\ l.name = enc
  BY DEF At
<1>9. \A l : l \in Covering(rel) <=> l \in At(TRUE, enc)
  BY <1>3, <1>6, <1>7, <1>8
<1>10. QED BY <1>9 DEF enc

LEMMA FoundSums ==
  ASSUME Serving, NEW rel \in Names
  PROVE  /\ Found(rel) \in EntryType /\ Source(rel) \in SUBSET RecordLines
         /\ Sums(Found(rel), Source(rel))
<1>1. rel \in named <=> Exists(rel)
  BY DEF Serving, NamedExist
<1>2. Entry(FALSE, rel) # Undefined <=> At(FALSE, rel) # {}
  BY EntrySums, EntryTells
<1>3. CASE At(FALSE, rel) # {}
  <2>1. Found(rel) = Entry(FALSE, rel) /\ Source(rel) = At(FALSE, rel)
    BY <1>2, <1>3 DEF Found, Source
  <2>2. QED BY <2>1, EntrySums
<1>4. CASE At(FALSE, rel) = {} /\ rel \in named
  <2>1. Found(rel) = Undefined /\ Source(rel) = {}
    BY <1>1, <1>2, <1>4 DEF Found, Source
  <2>2. QED BY <2>1, EmptyEntry
<1>5. CASE At(FALSE, rel) = {} /\ rel \notin named
  <2>1. Found(rel) = Entry(TRUE, Encloser(rel)) /\ Source(rel) = Covering(rel)
    BY <1>1, <1>2, <1>5 DEF Found, Source
  <2>2. Source(rel) = At(TRUE, Encloser(rel))
    BY <1>5, <2>1, CoveringIsAt
  <2>3. QED BY <2>1, <2>2, EntrySums
<1>6. QED BY <1>3, <1>4, <1>5

LEMMA SetOfOne == \A set, l, type : set = {l} /\ l.type # type => Of(set, type) = {}
  BY DEF Of

LEMMA RelativeIsName ==
  ASSUME NEW name \in Names, NEW origin \in Names, IsSuffix(origin, name)
  PROVE  Relative(name, origin) \in Names
<1>1. /\ Len(name) \in Nat /\ Len(origin) \in Nat /\ Len(origin) <= Len(name)
      /\ \A i \in 1..Len(name) : name[i] \in Labels
  BY SuffixIsEnd, ElementOfSeq, LenProperties DEF Names, EndsWith
<1>2. /\ Len(name) - Len(origin) \in Int
      /\ \A i \in 1..(Len(name) - Len(origin)) : name[i] \in Labels
  BY <1>1
<1>3. QED BY <1>2, SubSeqProperties DEF Relative, Names

(* A record whose address lists are those of its addressed lines. *)
LEMMA AddressesOnly ==
  ASSUME NEW e \in EntryType, NEW set \in SUBSET RecordLines, Sums(e, set)
  PROVE  LET adds == e.fail = "none" /\ e.cname = {}
         IN /\ adds <=> \A l \in set : l.type \in {"A", "AAAA"}
            /\ Of(Unaliased(set), "A") = IF adds THEN e.a ELSE {}
            /\ Of(Unaliased(set), "AAAA") = IF adds THEN e.aaaa ELSE {}
<1> DEFINE adds == e.fail = "none" /\ e.cname = {}
<1>1. \A l \in set : l.type \in {"A", "AAAA", "CNAME"} \cup failures
  BY LinesKnown
<1>2. adds <=> \A l \in set : l.type \in {"A", "AAAA"}
  BY <1>1, EntryTells, FailureNames
<1>3. CASE adds
  <2>1. Unaliased(set) = set
    BY <1>2, <1>3 DEF Unaliased
  <2>2. QED BY <1>2, <1>3, <2>1 DEF Sums
<1>4. CASE ~adds
  <2>1. Unaliased(set) = {}
    BY <1>2, <1>4 DEF Unaliased
  <2>2. QED BY <1>2, <1>4, <2>1 DEF Of
<1>5. QED BY <1>3, <1>4

(* An alias is followed one step within the zone, and no further. *)
LEMMA FollowingSays ==
  ASSUME Serving, NEW origin \in Names, NEW e \in EntryType, NEW set \in SUBSET RecordLines,
         Sums(e, set), NEW l \in set, l.type = "CNAME"
  PROVE  LET aliases == {Absolute(r.target, origin) : r \in {q \in set : q.type = "CNAME"}}
             within == {Relative(n, origin) : n \in {m \in aliases : IsSuffix(origin, m)}}
             addresses == UNION {Unaliased(At(FALSE, n)) : n \in within}
         IN /\ aliases # {}
            /\ Following(e, origin) =
                 [code |-> "NOERROR", cname |-> aliases, delayed |-> FALSE,
                  a |-> Of(addresses, "A"), aaaa |-> Of(addresses, "AAAA")]
<1> DEFINE aliases == {Absolute(r.target, origin) : r \in {q \in set : q.type = "CNAME"}}
           within == {Relative(n, origin) : n \in {m \in aliases : IsSuffix(origin, m)}}
           addresses == UNION {Unaliased(At(FALSE, n)) : n \in within}
           full == Absolute(l.target, origin)
           held == IF IsSuffix(origin, full) THEN Entry(FALSE, Relative(full, origin)) ELSE Undefined
           adds == held.fail = "none" /\ held.cname = {}
<1>1. set = {l} /\ e.cname = {l.target}
  BY DEF Sums
<1>2. aliases = {full}
  BY <1>1
<1>3. (CHOOSE t \in e.cname : TRUE) = l.target
  BY <1>1
<1>4. /\ Of(addresses, "A") = IF adds THEN held.a ELSE {}
      /\ Of(addresses, "AAAA") = IF adds THEN held.aaaa ELSE {}
  <2>1. CASE IsSuffix(origin, full)
    <3> DEFINE n == Relative(full, origin)
    <3>1. within = {n}
      BY <1>2, <2>1
    <3>2. addresses = Unaliased(At(FALSE, n)) /\ held = Entry(FALSE, n)
      BY <2>1, <3>1
    <3> HIDE DEF addresses, held, n
    <3>3. QED BY <3>2, EntrySums, AddressesOnly
  <2>2. CASE ~IsSuffix(origin, full)
    <3>1. within = {}
      BY <1>2, <2>2
    <3>2. addresses = {} /\ held = Undefined
      BY <2>2, <3>1
    <3>3. Of(addresses, "A") = {} /\ Of(addresses, "AAAA") = {}
      BY <3>2 DEF Of
    <3> HIDE DEF addresses, held
    <3>4. held.a = {} /\ held.aaaa = {}
      BY <3>2 DEF Undefined
    <3>5. QED BY <3>3, <3>4
  <2>3. QED BY <2>1, <2>2
<1>5. Following(e, origin) =
        [NoReply EXCEPT !.code = "NOERROR", !.cname = {full},
           !.a = IF adds THEN held.a ELSE {}, !.aaaa = IF adds THEN held.aaaa ELSE {}]
  <2> DEFINE to(c) ==
        LET name == Absolute(c, origin)
            kept == IF IsSuffix(origin, name) THEN Entry(FALSE, Relative(name, origin)) ELSE Undefined
            adding == kept.fail = "none" /\ kept.cname = {}
        IN [NoReply EXCEPT !.code = "NOERROR", !.cname = {name},
              !.a = IF adding THEN kept.a ELSE {}, !.aaaa = IF adding THEN kept.aaaa ELSE {}]
  <2>1. Following(e, origin) = to(CHOOSE t \in e.cname : TRUE)
    BY DEF Following
  <2>2. to(l.target) =
          [NoReply EXCEPT !.code = "NOERROR", !.cname = {full},
             !.a = IF adds THEN held.a ELSE {}, !.aaaa = IF adds THEN held.aaaa ELSE {}]
    OBVIOUS
  <2> HIDE DEF to
  <2>3. QED BY <1>3, <2>1, <2>2
<1> HIDE DEF addresses, adds, held
<1>6. Following(e, origin) =
        [code |-> "NOERROR", cname |-> aliases, delayed |-> FALSE,
         a |-> Of(addresses, "A"), aaaa |-> Of(addresses, "AAAA")]
  BY <1>2, <1>4, <1>5 DEF NoReply
<1>7. QED BY <1>2, <1>6 DEF addresses

(* The zone's answer to a name is what its lines say of it. *)
LEMMA AnswerSays ==
  ASSUME Serving, NEW rel \in Names, NEW origin \in Names
  PROVE  AnswerFor(rel, origin) = ZoneSays(rel, origin)
<1> DEFINE e == Found(rel)
           set == Source(rel)
           aliases == {Absolute(l.target, origin) : l \in {r \in set : r.type = "CNAME"}}
           within == {Relative(n, origin) : n \in {m \in aliases : IsSuffix(origin, m)}}
           followed == UNION {Unaliased(At(FALSE, n)) : n \in within}
           addresses == IF aliases = {} THEN set ELSE followed
<1>1. e \in EntryType /\ set \in SUBSET RecordLines /\ Sums(e, set)
  BY FoundSums
<1>2. rel \in named <=> Exists(rel)
  BY DEF Serving, NamedExist
<1>3. ZoneSays(rel, origin) =
        [code |-> Code(set, rel), cname |-> aliases, delayed |-> FALSE,
         a |-> Of(addresses, "A"), aaaa |-> Of(addresses, "AAAA")]
  BY DEF ZoneSays
<1>4. \A l \in set : l.type \in {"A", "AAAA", "CNAME"} \cup failures
  BY <1>1, LinesKnown
<1>5. CASE e = Undefined
  <2>1. set = {} /\ Of({}, "A") = {} /\ Of({}, "AAAA") = {}
    BY <1>1, <1>5, EntryTells DEF Of
  <2>2. aliases = {} /\ addresses = {}
    BY <2>1
  <2>3. Code(set, rel) = IF rel \in named THEN "NOERROR" ELSE "NXDOMAIN"
    BY <1>2, <2>1 DEF Code
  <2>4. AnswerFor(rel, origin) = [NoReply EXCEPT !.code = IF rel \in named THEN "NOERROR" ELSE "NXDOMAIN"]
    BY <1>5 DEF AnswerFor
  <2> HIDE DEF addresses, aliases, set
  <2>5. QED BY <1>3, <2>1, <2>2, <2>3, <2>4 DEF NoReply
<1>6. CASE e # Undefined /\ e.fail # "none"
  <2>1. PICK l \in set : l.type \in failures
    BY <1>1, <1>6, EntryTells
  <2>2. /\ set = {l} /\ e.fail = l.type
        /\ l.type # "A" /\ l.type # "AAAA" /\ l.type # "CNAME"
    BY <1>1, <2>1, FailureNames DEF Sums
  <2>3. aliases = {} /\ addresses = set
    BY <2>2
  <2>4. Of(set, "A") = {} /\ Of(set, "AAAA") = {}
    BY <2>2, SetOfOne
  <2>5. Code(set, rel) = l.type
    <3>1. (CHOOSE r \in {l} : TRUE) = l
      OBVIOUS
    <3>2. Code({l}, rel) = (CHOOSE r \in {l} : TRUE).type
      BY <2>1 DEF Code
    <3>3. QED BY <2>2, <3>1, <3>2
  <2>6. AnswerFor(rel, origin) = [NoReply EXCEPT !.code = l.type]
    BY <1>6, <2>2 DEF AnswerFor
  <2> HIDE DEF addresses, aliases, set
  <2>7. QED BY <1>3, <2>3, <2>4, <2>5, <2>6 DEF NoReply
<1>7. CASE e # Undefined /\ e.fail = "none" /\ e.cname # {}
  <2>1. PICK l \in set : l.type = "CNAME"
    BY <1>1, <1>7, EntryTells
  <2>2. \A r \in set : r.type \notin failures
    BY <1>1, <1>7, EntryTells
  <2>3. Code(set, rel) = "NOERROR"
    BY <2>1, <2>2 DEF Code
  <2>4. AnswerFor(rel, origin) = Following(e, origin)
    BY <1>7 DEF AnswerFor
  <2>5. /\ aliases # {}
        /\ Following(e, origin) =
             [code |-> "NOERROR", cname |-> aliases, delayed |-> FALSE,
              a |-> Of(followed, "A"), aaaa |-> Of(followed, "AAAA")]
    <3> HIDE DEF e, set
    <3>1. QED BY <1>1, <2>1, FollowingSays
  <2> HIDE DEF followed, aliases, set, e
  <2>6. addresses = followed
    BY <2>5
  <2> HIDE DEF addresses
  <2>7. QED BY <1>3, <2>3, <2>4, <2>5, <2>6
<1>8. CASE e # Undefined /\ e.fail = "none" /\ e.cname = {}
  <2>1. \A l \in set : l.type \notin failures /\ l.type # "CNAME"
    BY <1>1, <1>8, EntryTells
  <2>2. set # {}
    BY <1>1, <1>8, EntryTells
  <2>3. Code(set, rel) = "NOERROR"
    BY <2>1, <2>2 DEF Code
  <2>4. aliases = {} /\ addresses = set
    BY <2>1
  <2>5. AnswerFor(rel, origin) = [NoReply EXCEPT !.code = "NOERROR", !.a = e.a, !.aaaa = e.aaaa]
    BY <1>8 DEF AnswerFor
  <2>6. e.a = Of(set, "A") /\ e.aaaa = Of(set, "AAAA")
    BY <1>1 DEF Sums
  <2> HIDE DEF addresses, aliases, set, e
  <2>7. QED BY <1>3, <2>3, <2>4, <2>5, <2>6 DEF NoReply
<1>9. QED BY <1>5, <1>6, <1>7, <1>8

(* Of the scanned domains a name is below, the longest is below all others.    *)
LEMMA BestIsDeepest ==
  ASSUME NEW name \in Names
  PROVE  LET domains == {o \in Origins : IsSuffix(o, name)}
         IN /\ Best(name) = {o \in domains : \A p \in domains : IsSuffix(p, o)}
            /\ Best(name) = {} <=> domains = {}
            /\ Best(name) \subseteq Names
<1> DEFINE domains == {o \in Origins : IsSuffix(o, name)}
<1>1. domains \subseteq Names /\ Best(name) \subseteq domains
  BY LinesKnown DEF Best
<1>2. \A o \in domains : EndsWith(name, o)
  BY <1>1, SuffixIsEnd
<1>3. \A o, p \in domains : Len(p) <= Len(o) <=> IsSuffix(p, o)
  BY <1>1, <1>2, EndsCompare, SuffixIsEnd
<1>4. Best(name) = {o \in domains : \A p \in domains : Len(p) <= Len(o)}
  BY DEF Best
<1>5. Best(name) = {o \in domains : \A p \in domains : IsSuffix(p, o)}
  BY <1>3, <1>4
<1>6. ASSUME domains # {} PROVE Best(name) # {}
  <2>1. Len(name) \in Nat
    BY LenProperties DEF Names
  <2>2. \A o \in domains : Len(o) \in Nat /\ Len(o) <= Len(name)
    BY <1>1, <1>2, LenProperties DEF Names, EndsWith
  <2> DEFINE T == {Len(name) - Len(o) : o \in domains}
  <2>3. T \subseteq Nat /\ T # {}
    BY <1>6, <2>1, <2>2
  <2>4. \E x \in T : \A y \in T : x <= y
    <3> HIDE DEF T
    <3>1. IsWellFoundedOn(OpToRel(<, Nat), Nat)
      BY NatLessThanWellFounded
    <3>2. PICK x \in T : \A y \in T : ~(<<y, x>> \in OpToRel(<, Nat))
      BY <2>3, <3>1, WFMin
    <3>3. \A y \in T : ~(y < x)
      BY <2>3, <3>2 DEF OpToRel
    <3>4. QED BY <2>3, <3>3
  <2>5. PICK o \in domains : \A p \in domains : Len(name) - Len(o) <= Len(name) - Len(p)
    BY <2>4
  <2>6. \A p \in domains : Len(p) <= Len(o)
    BY <2>1, <2>2, <2>5
  <2>7. QED BY <1>4, <2>6
<1>7. QED BY <1>1, <1>5, <1>6

LEMMA ResolvedExpected ==
  ASSUME Serving, NEW name \in Names
  PROVE  Resolved(name) = Expected(name)
<1> DEFINE domains == {o \in Origins : IsSuffix(o, name)}
           mine == {o \in domains : \A p \in domains : IsSuffix(p, o)}
<1>1. Best(name) = mine /\ (Best(name) = {} <=> domains = {}) /\ Best(name) \subseteq Names
  BY BestIsDeepest
<1>2. CASE domains = {}
  BY <1>1, <1>2 DEF Resolved, Expected
<1>3. CASE domains # {}
  <2> DEFINE o == CHOOSE o \in mine : TRUE
  <2>1. o \in mine /\ o \in Names /\ IsSuffix(o, name)
    BY <1>1, <1>3
  <2>2. AnswerFor(Relative(name, o), o) = ZoneSays(Relative(name, o), o)
    <3> HIDE DEF o
    <3>1. QED BY <2>1, RelativeIsName, AnswerSays
  <2>3. Resolved(name) =
          [AnswerFor(Relative(name, o), o) EXCEPT
             !.delayed = delay /\ AnswerFor(Relative(name, o), o).code # "TIMEOUT"]
    <3>1. Best(name) # {} /\ o = CHOOSE p \in Best(name) : TRUE
      BY <1>1, <1>3
    <3> HIDE DEF o
    <3>2. QED BY <3>1 DEF Resolved
  <2>4. Expected(name) =
          [ZoneSays(Relative(name, o), o) EXCEPT
             !.delayed = delay /\ ZoneSays(Relative(name, o), o).code # "TIMEOUT"]
    BY <1>3 DEF Expected
  <2> HIDE DEF o
  <2>5. QED BY <2>2, <2>3, <2>4
<1>4. QED BY <1>2, <1>3

-----------------------------------------------------------------------------
(***************************************************************************)
(* The limit.  The queries the handler's window counts are the last ones,  *)
(* and all of them came within a second; those before came before the      *)
(* window.                                                                 *)
(***************************************************************************)
Counted(i) == i > Len(asked) - inWindow

RateInv ==
  /\ window \in Int /\ inWindow \in Nat /\ clock \in Nat /\ asked \in Seq(Nat)
  /\ inWindow <= Len(asked) /\ window <= clock
  /\ \A i \in 1..Len(asked) :
       /\ asked[i] <= clock /\ asked[i] < window + Second
       /\ Counted(i) <=> window <= asked[i]

ReplyTrue ==
  \/ reply = Expected(question) /\ (limit > 0 => Within(1) <= limit)
  \/ reply = Refusal /\ limit > 0 /\ Within(Second) > limit

ZoneInv ==
  /\ ReadInv /\ RateInv
  /\ reply # NoReply => zonePc = "serve" /\ ReplyTrue

(* The numbers from k + 1 to n, and sets between. *)
LEMMA CountFrom ==
  ASSUME NEW n \in Nat, NEW m \in Nat, m <= n, NEW S \in SUBSET (1..n)
  PROVE  /\ IsFiniteSet(S) /\ Cardinality(S) \in Nat
         /\ (\A i \in S : i > n - m) => Cardinality(S) <= m
         /\ (\A i \in 1..n : i > n - m => i \in S) => Cardinality(S) >= m
<1> DEFINE late == (n - m + 1)..n
<1>1. /\ IsFiniteSet(late) /\ Cardinality(late) = m /\ IsFiniteSet(1..n)
  BY FS_Interval
<1>2. IsFiniteSet(S) /\ Cardinality(S) \in Nat
  BY <1>1, FS_Subset, FS_CardinalityType
<1>3. ASSUME \A i \in S : i > n - m PROVE Cardinality(S) <= m
  <2>1. S \subseteq late
    BY <1>3
  <2> HIDE DEF late
  <2>2. QED BY <1>1, <2>1, FS_Subset
<1>4. ASSUME \A i \in 1..n : i > n - m => i \in S PROVE Cardinality(S) >= m
  <2>1. late \subseteq S
    BY <1>4
  <2> HIDE DEF late
  <2>2. Cardinality(late) <= Cardinality(S)
    BY <1>2, <2>1, FS_Subset
  <2>3. QED BY <1>1, <1>2, <2>2
<1>5. QED BY <1>2, <1>3, <1>4

(* A limited query moves the window on once a second is over.                  *)
LEMMA AskCounts ==
  ASSUME RateInv, limit \in Nat, NEW name, Ask(name), limit # 0
  PROVE  /\ RateInv' /\ asked' # <<>> /\ Last(asked)' = clock
         /\ Within(1)' \in Nat /\ Within(Second)' \in Nat
         /\ Within(1)' <= inWindow' /\ Within(Second)' >= inWindow'
<1>1. /\ asked' = Append(asked, clock) /\ clock' = clock
      /\ window' = IF WindowOver THEN clock ELSE window
      /\ inWindow' = IF WindowOver THEN 1 ELSE inWindow + 1
  BY DEF Ask
<1>2. /\ window \in Int /\ inWindow \in Nat /\ clock \in Nat /\ asked \in Seq(Nat)
      /\ inWindow <= Len(asked) /\ window <= clock
      /\ Second \in Nat /\ Second > 0
      /\ \A i \in 1..Len(asked) :
           /\ asked[i] <= clock /\ asked[i] < window + Second
           /\ Counted(i) <=> window <= asked[i]
  BY LinesKnown DEF RateInv
<1>n. PICK n : n = Len(asked)
  OBVIOUS
<1>3. /\ n \in Nat /\ asked' \in Seq(Nat) /\ Len(asked') = n + 1 /\ asked' # <<>>
      /\ DOMAIN asked' = 1..(n + 1)
      /\ \A i \in 1..n : asked'[i] = asked[i] /\ asked[i] \in Nat
      /\ asked'[n + 1] = clock
  BY <1>1, <1>2, <1>n, AppendProperties, LenProperties, ElementOfSeq
<1>4. /\ window' \in Int /\ inWindow' \in Nat /\ inWindow' <= n + 1 /\ window' <= clock
      /\ clock < window' + Second /\ inWindow' > 0
  BY <1>1, <1>2, <1>3, <1>n DEF WindowOver
<1>5. ASSUME NEW i \in 1..(n + 1)
      PROVE  /\ asked'[i] <= clock /\ asked'[i] < window' + Second
             /\ i > (n + 1) - inWindow' <=> window' <= asked'[i]
  <2>1. CASE i = n + 1
    <3>1. asked'[i] = clock /\ clock \in Nat
      BY <1>2, <1>3, <2>1
    <3>2. i > (n + 1) - inWindow'
      <4>1. n \in Nat /\ inWindow' \in Nat /\ inWindow' > 0
        BY <1>3, <1>4
      <4>2. PICK m : m = inWindow'
        OBVIOUS
      <4>3. n \in Nat /\ m \in Nat /\ m > 0
        BY <4>1, <4>2
      <4>4. n + 1 > (n + 1) - m
        BY <4>3
      <4>5. QED BY <2>1, <4>2, <4>4
    <3>3. QED BY <1>4, <3>1, <3>2
  <2>2. CASE i \in 1..n /\ WindowOver
    <3>1. window' = clock /\ inWindow' = 1 /\ asked'[i] = asked[i] /\ window + Second <= clock
      BY <1>1, <1>2, <1>3, <2>2 DEF WindowOver
    <3>2. asked[i] < clock /\ asked[i] \in Nat
      BY <1>2, <1>3, <1>n, <2>2, <3>1
    <3>3. QED BY <1>2, <1>3, <1>n, <2>2, <3>1, <3>2
  <2>3. CASE i \in 1..n /\ ~WindowOver
    <3>1. window' = window /\ inWindow' = inWindow + 1 /\ asked'[i] = asked[i]
      BY <1>1, <1>3, <2>3
    <3>2. QED BY <1>2, <1>3, <1>n, <2>3, <3>1 DEF Counted
  <2>4. QED BY <1>3, <2>1, <2>2, <2>3
<1>6. RateInv'
  BY <1>1, <1>2, <1>3, <1>4, <1>5, <1>n DEF RateInv, Counted
<1>7. Last(asked)' = clock
  BY <1>3 DEF Last
<1> DEFINE S(ticks) == {i \in 1..(n + 1) : asked'[i] > clock - ticks}
<1>8. Within(1)' = Cardinality(S(1)) /\ Within(Second)' = Cardinality(S(Second))
  BY <1>1, <1>3, <1>7, LinesKnown DEF Within
<1>9. Cardinality(S(1)) \in Nat /\ Cardinality(S(1)) <= inWindow'
  <2>1. \A i \in S(1) : i > (n + 1) - inWindow'
    <3>1. SUFFICES ASSUME NEW i \in S(1) PROVE window' <= asked'[i]
      BY <1>5
    <3>2. asked'[i] \in Nat /\ asked'[i] > clock - 1
      BY <1>2, <1>3
    <3>3. QED BY <1>2, <1>4, <3>2
  <2>2. S(1) \in SUBSET (1..(n + 1)) /\ n + 1 \in Nat
    BY <1>3
  <2> HIDE DEF S
  <2>3. QED BY <1>4, <2>1, <2>2, CountFrom
<1>10. Cardinality(S(Second)) \in Nat /\ Cardinality(S(Second)) >= inWindow'
  <2>1. \A i \in 1..(n + 1) : i > (n + 1) - inWindow' => i \in S(Second)
    <3>1. SUFFICES ASSUME NEW i \in 1..(n + 1), window' <= asked'[i] PROVE asked'[i] > clock - Second
      BY <1>5
    <3>2. asked'[i] \in Nat /\ clock \in Nat /\ Second \in Nat
      BY <1>2, <1>3
    <3>3. PICK start, t : start = window' /\ t = asked'[i]
      OBVIOUS
    <3>4. /\ start \in Int /\ t \in Nat /\ clock \in Nat /\ Second \in Nat
          /\ clock < start + Second /\ start <= t
      BY <1>4, <3>1, <3>2, <3>3
    <3>5. t > clock - Second
      BY <3>4
    <3>6. QED BY <3>3, <3>5
  <2>2. S(Second) \in SUBSET (1..(n + 1)) /\ n + 1 \in Nat
    BY <1>3
  <2> HIDE DEF S
  <2>3. QED BY <1>4, <2>1, <2>2, CountFrom
<1> HIDE DEF S
<1>11. QED BY <1>3, <1>6, <1>7, <1>8, <1>9, <1>10

LEMMA AskAnswers ==
  ASSUME ZoneInv, NEW name \in Questions, Ask(name)
  PROVE  ZoneInv'
<1>1. /\ zonePc = "serve" /\ question' = name
      /\ UNCHANGED <<zonePc, lines, tables, named, delay, limit, clock>>
  BY DEF Ask, parsed
<1>2. /\ ReadInv /\ RateInv /\ limit \in Nat /\ Serving
  BY <1>1 DEF ZoneInv, ReadInv, ReadTypeOK, Serving
<1>3. ReadInv'
  <2>1. Given' = Given /\ TablesSum' = TablesSum /\ NamedExist' = NamedExist
    BY <1>1 DEF Given, TablesSum, NamedExist, At, Exists
  <2>2. \A i, j : Contradicted(i, j)' = Contradicted(i, j)
    BY <1>1 DEF Contradicted
  <2>3. QED BY <1>1, <1>2, <2>1, <2>2 DEF ReadInv, ReadTypeOK
<1>4. Resolved(name) = Expected(question)'
  <2>1. name \in Names
    BY LinesKnown
  <2>2. Expected(name)' = Expected(name)
    BY <1>1 DEF Expected, ZoneSays, Source, Covering, Code, Exists, At, Given, Of, Unaliased
  <2>3. Expected(question)' = Expected(name)'
    BY <1>1
  <2>4. QED BY <1>2, <2>1, <2>2, <2>3, ResolvedExpected
<1>5. CASE limit = 0
  <2>1. reply' = Resolved(name) /\ UNCHANGED <<window, inWindow, asked>>
    BY <1>5 DEF Ask
  <2>2. RateInv'
    BY <1>1, <1>2, <2>1 DEF RateInv, Counted
  <2>3. ReplyTrue'
    BY <1>1, <1>4, <1>5, <2>1 DEF ReplyTrue
  <2>4. QED BY <1>1, <1>3, <2>2, <2>3 DEF ZoneInv
<1>6. CASE limit # 0
  <2>1. reply' = IF inWindow' > limit THEN Refusal ELSE Resolved(name)
    BY <1>6 DEF Ask
  <2>2. /\ RateInv' /\ Within(1)' \in Nat /\ Within(Second)' \in Nat
        /\ Within(1)' <= inWindow' /\ Within(Second)' >= inWindow' /\ inWindow' \in Nat
    BY <1>2, <1>6, AskCounts DEF RateInv
  <2>3. limit' = limit /\ limit > 0
    BY <1>1, <1>2, <1>6
  <2>4. ReplyTrue'
    <3>1. CASE inWindow' > limit
      <4>1. Within(Second)' > limit' /\ reply' = Refusal'
        BY <1>2, <2>1, <2>2, <2>3, <3>1 DEF Refusal, NoReply
      <4>2. QED BY <2>3, <4>1 DEF ReplyTrue
    <3>2. CASE ~(inWindow' > limit)
      <4>1. Within(1)' <= limit' /\ reply' = Expected(question)'
        BY <1>2, <1>4, <2>1, <2>2, <2>3, <3>2
      <4>2. QED BY <4>1 DEF ReplyTrue
    <3>3. QED BY <3>1, <3>2
  <2>5. QED BY <1>1, <1>3, <2>2, <2>4 DEF ZoneInv
<1>7. QED BY <1>5, <1>6

(* Time passes, or nothing does. *)
LEMMA QuietKeepsZone ==
  ASSUME ZoneInv, UNCHANGED <<zonePc, parsed, served>>, clock' \in {clock, clock + 1}
  PROVE  ZoneInv'
<1>1. UNCHANGED <<zonePc, lines, tables, named, delay, limit, window, inWindow, asked, question, reply>>
  BY DEF parsed, served
<1>2. Given' = Given /\ TablesSum' = TablesSum /\ NamedExist' = NamedExist
  BY <1>1 DEF Given, TablesSum, NamedExist, At, Exists
<1>3. \A i, j : Contradicted(i, j)' = Contradicted(i, j)
  BY <1>1 DEF Contradicted
<1>4. ReadInv'
  BY <1>1, <1>2, <1>3 DEF ZoneInv, ReadInv, ReadTypeOK
<1>5. RateInv'
  <2>1. clock \in Nat /\ clock' \in Nat /\ clock <= clock' /\ window \in Int /\ asked \in Seq(Nat) /\ RateInv
    BY DEF ZoneInv, RateInv
  <2>2. \A i \in 1..Len(asked) : asked[i] \in Nat
    BY <2>1, ElementOfSeq
  <2>3. QED BY <1>1, <2>1, <2>2 DEF RateInv, Counted
<1>6. ReplyTrue' <=> ReplyTrue
  <2>1. Expected(question)' = Expected(question)
    BY <1>1 DEF Expected, ZoneSays, Source, Covering, Code, Exists, At, Given, Of, Unaliased
  <2>2. Within(1)' = Within(1) /\ Within(Second)' = Within(Second)
    BY <1>1 DEF Within
  <2>3. QED BY <1>1, <2>1, <2>2 DEF ReplyTrue
<1>7. QED BY <1>1, <1>4, <1>5, <1>6 DEF ZoneInv

LEMMA ZoneInvInit == ZoneInit => ZoneInv
<1> SUFFICES ASSUME ZoneInit PROVE ZoneInv
  OBVIOUS
<1>1. /\ zonePc = "parse" /\ lines = <<>> /\ tables = [o \in Owner |-> Undefined] /\ named = {<<>>}
      /\ delay = FALSE /\ limit = 0 /\ window = -Second /\ inWindow = 0 /\ clock = 0
      /\ asked = <<>> /\ reply = NoReply
  BY DEF ZoneInit
<1>2. lines \in Seq(Lines) /\ DOMAIN lines = {} /\ asked \in Seq(Nat) /\ Len(asked) = 0
  BY <1>1, EmptySeq, LenProperties
<1>3. Given = {}
  BY <1>2 DEF Given, ToSet
<1>4. ReadTypeOK
  BY <1>1, <1>2, EmptyEntry DEF ReadTypeOK
<1>5. TablesSum
  <2>1. \A wild, name : At(wild, name) = {}
    BY <1>3 DEF At
  <2>2. QED BY <1>1, <2>1, EmptyEntry DEF TablesSum
<1>6. NamedExist
  BY <1>1, <1>3, LinesKnown DEF NamedExist, Exists
<1>7. RateInv
  BY <1>1, <1>2, LinesKnown DEF RateInv
<1>8. QED BY <1>1, <1>2, <1>4, <1>5, <1>6, <1>7 DEF ZoneInv, ReadInv

LEMMA ZoneInvStep ==
  ASSUME ZoneInv, [ZoneNext]_zoneVars
  PROVE  ZoneInv'
<1>1. CASE \E l \in Lines : Directive(l) \/ Record(l)
  <2>1. ReadInv' /\ zonePc = "parse"
    BY <1>1, DirectiveReads, RecordReads DEF ZoneInv, Directive, Record, ReadLine
  <2>2. UNCHANGED <<served, clock>>
    BY <1>1 DEF Directive, Record, ReadLine
  <2>3. UNCHANGED <<window, inWindow, asked, reply, clock>>
    BY <2>2 DEF served
  <2>4. QED BY <2>1, <2>3 DEF ZoneInv, RateInv, Counted
<1>2. CASE Parsed
  <2>1. ReadInv' /\ zonePc = "parse" /\ UNCHANGED <<window, inWindow, asked, reply, clock>>
    BY <1>2, ParsedReads DEF ZoneInv, Parsed, served
  <2>2. QED BY <2>1 DEF ZoneInv, RateInv, Counted
<1>3. CASE TimePasses \/ UNCHANGED zoneVars
  BY <1>3, QuietKeepsZone DEF TimePasses, Tick, zoneVars
<1>4. QED BY <1>1, <1>2, <1>3, AskAnswers DEF ZoneNext

(* Whatever a scenario's lines are and in whatever order they come, whatever   *)
(* is asked and whenever: the file is refused exactly if it should be, and     *)
(* what the tables and the window answer is what the lines and the times say.  *)
THEOREM ScenarioAnswered == ZoneSpec => []AnswersAsZone
<1>1. ZoneInv /\ [ZoneNext]_zoneVars => ZoneInv'
  BY ZoneInvStep
<1>2. ZoneInv => AnswersAsZone
  <2> SUFFICES ASSUME ZoneInv PROVE AnswersAsZone
    OBVIOUS
  <2>1. zonePc \in {"parse", "serve", "error"}
    BY DEF ZoneInv, ReadInv, ReadTypeOK
  <2>2. zonePc = "error" <=>
          \/ \E i, j \in DOMAIN lines : Contradicted(i, j)
          \/ zonePc # "parse" /\ Given = {}
    BY <2>1 DEF ZoneInv, ReadInv
  <2>3. reply # NoReply => ReplyTrue
    BY DEF ZoneInv
  <2>4. QED BY <2>2, <2>3 DEF AnswersAsZone, Contradicted, ReplyTrue
<1>3. QED BY <1>1, <1>2, ZoneInvInit, PTL DEF ZoneSpec
=============================================================================
