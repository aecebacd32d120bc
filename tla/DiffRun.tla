------------------------------- MODULE DiffRun -------------------------------
(***************************************************************************)
(* What -diff reports (main_diff.go): the names a run finds that a         *)
(* previous results file did not hold, and the names of that file which    *)
(* answer no more.  A name the run did not find is looked up once more by *)
(* the workers of scan.Verify (internal/scan/verify.go) before it is       *)
(* reported removed.                                                       *)
(***************************************************************************)
EXTENDS Integers, Sequences, FiniteSets, SequencesExt

CONSTANTS
  Worker,      \* the workers of Verify
  Candidates,  \* the names this run looks up
  Previous,    \* the names of the previous results file
  Existing,    \* the names that exist
  Resolving,   \* those with a record of a type this run asks for
  InTargets,   \* the names under one of this run's targets
  Excluded     \* the names -exclude keeps out of scope

ASSUME DiffAssumption ==
  /\ IsFiniteSet(Previous) /\ IsFiniteSet(Worker) /\ Worker # {}
  /\ Candidates \subseteq InTargets \ Excluded /\ Resolving \subseteq Existing

VARIABLES
  phase,    \* where run() and emitRemoved are
  tried,    \* the candidates whose lookup is over
  current,  \* differ.current
  added,    \* differ.added
  verdict,  \* the run's verdict, "" before it is known
  missing,  \* missingNames, in the order they are fed
  fed,      \* how many of them the feed loop has passed
  holder,   \* holder[w]: the name a worker looks up, {} for none
  answer,   \* answer[w]: its outcome, before the worker stores it
  outcomes, \* the map Verify returns, as a set of <<name, outcome>>
  diffCtx,      \* the context is cancelled
  removed, still, unverified  \* names counted Removed, StillResolving, Unverified

workVars == <<holder, answer, outcomes>>
runVars == <<tried, current, added, verdict>>
tallyVars == <<removed, still, unverified>>
diffVars == <<phase, runVars, missing, fed, workVars, diffCtx, tallyVars>>

Answers == {"found", "nxdomain", "failed", "canceled"}

DiffInit ==
  /\ phase = "scan" /\ tried = {} /\ current = {} /\ added = {} /\ verdict = ""
  /\ missing = <<>> /\ fed = 0
  /\ holder = [w \in Worker |-> {}] /\ answer = [w \in Worker |-> ""]
  /\ outcomes = {} /\ diffCtx = FALSE
  /\ removed = {} /\ still = {} /\ unverified = {}

-----------------------------------------------------------------------------
(* The scan, and differ.observe for each hit.  A lookup may fail under a run   *)
(* that is still graded complete.                                              *)
Observe(n) ==
  /\ phase = "scan" /\ n \notin tried
  /\ tried' = tried \cup {n}
  /\ \/ /\ n \in Resolving
        /\ current' = current \cup {n}
        /\ added' = IF n \in Previous THEN added ELSE added \cup {n}
     \/ UNCHANGED <<current, added>>
  /\ UNCHANGED <<phase, verdict, missing, fed, workVars, diffCtx, tallyVars>>

(* Every candidate is answered, unless a signal or the guard stops the run.    *)
(* A signal that comes after the target's status was set is not in the verdict.*)
EndScan ==
  /\ phase = "scan"
  /\ \/ tried = Candidates /\ ~diffCtx /\ verdict' = "complete"
     \/ verdict' \in {"degraded", "unreliable"}
  /\ phase' = "grade"
  /\ UNCHANGED <<tried, current, added, missing, fed, workVars, diffCtx, tallyVars>>

(* missingNames *)
Missing == {n \in Previous : n \notin current /\ n \notin Excluded /\ n \in InTargets}

Grade ==
  /\ phase = "grade"
  /\ IF verdict = "complete" /\ Missing # {}
     THEN missing' = SetToSeq(Missing) /\ phase' = "feed"
     ELSE phase' = "done" /\ UNCHANGED missing
  /\ UNCHANGED <<runVars, fed, workVars, diffCtx, tallyVars>>

-----------------------------------------------------------------------------
(* Verify: the feed loop hands each name to a worker, or stops once the context is *)
(* done; the channel is then closed and the workers drain.                     *)
Idle(w) == holder[w] = {}

Feed(w) ==
  /\ phase = "feed" /\ fed < Len(missing) /\ Idle(w)
  /\ holder' = [holder EXCEPT ![w] = {missing[fed + 1]}]
  /\ fed' = fed + 1
  /\ UNCHANGED <<phase, runVars, missing, answer, outcomes, diffCtx, tallyVars>>

StopFeeding ==
  /\ phase = "feed" /\ (fed = Len(missing) \/ diffCtx)
  /\ phase' = "join"
  /\ UNCHANGED <<runVars, missing, fed, workVars, diffCtx, tallyVars>>

(* What the trusted resolver says of a name when the lookup succeeds.          *)
Reply(n) ==
  IF n \in Resolving THEN "records" ELSE IF n \in Existing THEN "nodata" ELSE "nxdomain"

(* ResolveDomainWithRetry: OutcomeNXDomain is also the outcome of a name that  *)
(* exists but has no record of the types asked for (NODATA).                   *)
Classified(reply) == IF reply = "records" THEN "found" ELSE "nxdomain"

VerifyLookup(w) ==
  /\ ~Idle(w) /\ answer[w] = ""
  /\ \E n \in holder[w], o \in Answers :
       /\ o \in {Classified(Reply(n)), "failed", "canceled"}
       /\ o = "canceled" => diffCtx
       /\ answer' = [answer EXCEPT ![w] = o]
  /\ UNCHANGED <<phase, runVars, missing, fed, holder, outcomes, diffCtx, tallyVars>>

(* Whatever is not a hit counts as cancelled once diffCtx is done. *)
Stored(o) == IF o # "found" /\ diffCtx THEN "canceled" ELSE o

Store(w) ==
  /\ ~Idle(w) /\ answer[w] # ""
  /\ \E n \in holder[w] : outcomes' = outcomes \cup {<<n, Stored(answer[w])>>}
  /\ holder' = [holder EXCEPT ![w] = {}]
  /\ answer' = [answer EXCEPT ![w] = ""]
  /\ UNCHANGED <<phase, runVars, missing, fed, diffCtx, tallyVars>>

FirstIdle == \E w \in Worker : Idle(w)
AllIdle == \A w \in Worker : Idle(w)

Join ==
  /\ phase = "join" /\ AllIdle
  /\ phase' = "tally"
  /\ UNCHANGED <<runVars, missing, fed, workVars, diffCtx, tallyVars>>

(* A name the map does not hold reads as the zero Outcome, OutcomeFound. *)
OutcomeOf(n) ==
  IF \E o \in Answers : <<n, o>> \in outcomes
  THEN CHOOSE o \in Answers : <<n, o>> \in outcomes
  ELSE "found"

NotFound == {"nxdomain", "failed", "canceled"}
Gone == {"nxdomain"}

Tally ==
  /\ phase = "tally"
  /\ removed' = {n \in ToSet(missing) : OutcomeOf(n) \in Gone}
  /\ still' = {n \in ToSet(missing) : OutcomeOf(n) = "found"}
  /\ unverified' = {n \in ToSet(missing) : OutcomeOf(n) \notin Gone \cup {"found"}}
  /\ phase' = "done"
  /\ UNCHANGED <<runVars, missing, fed, workVars, diffCtx>>

CancelDiff ==
  /\ ~diffCtx /\ phase # "done"
  /\ diffCtx' = TRUE
  /\ UNCHANGED <<phase, runVars, missing, fed, workVars, tallyVars>>

-----------------------------------------------------------------------------
Work(w) == Feed(w) \/ VerifyLookup(w) \/ Store(w)

DiffMain == EndScan \/ Grade \/ StopFeeding \/ Join \/ Tally

DiffNext ==
  \/ \E n \in Candidates : Observe(n)
  \/ DiffMain
  \/ \E w \in Worker : Work(w)
  \/ CancelDiff

DiffSpec == DiffInit /\ [][DiffNext]_diffVars
=============================================================================
