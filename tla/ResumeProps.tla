----------------------------- MODULE ResumeProps -----------------------------
(* What interrupting and resuming a run must not change: the properties of   *)
(* module ResumeRun.                                                         *)
EXTENDS ResumeRun

-----------------------------------------------------------------------------
(* What one uninterrupted run with a working resolver and working logs finds.  *)
WholeList == Candidates([names |-> world.logNames])
Everything == Names(WholeList)

FirstLevel == {n \in Everything : Resolves(n)}
NextLevel(names) == {n \in {e \o p : e \in Everything, p \in names \ world.wild} : Resolves(n)}

MainHits ==
  IF ~world.recursive THEN FirstLevel
  ELSE LET level[d \in 1..world.depth] == IF d = 1 THEN FirstLevel ELSE NextLevel(level[d - 1])
       IN  UNION {level[d] : d \in 1..world.depth}

PermHits ==
  IF ~world.permute THEN {}
  ELSE LET list == PermNames(MainHits \cup Names(world.logNames), Everything)
       IN  {n \in Names(list) : Resolves(n)}

ExpectedHits ==
  {[name |-> n, perm |-> FALSE] : n \in MainHits} \cup
  {[name |-> n, perm |-> TRUE] : n \in PermHits}

Written(i) == {h[2] : h \in {g \in out : g[1] = i}}
FinishedClean == phase = "exited" /\ ~signal /\ ~AnyFailed

(* No lookup fails, no cap cuts a pass short and no parent is a wildcard.      *)
Unhindered == ~world.flaky /\ world.maxQueries = 0 /\ world.wild = {} /\ ~world.logsFail

(* And a recursive scan has no candidate of several labels: a resumed run does *)
(* not expand it again (RestoredRescanned).                                    *)
Undotted == \A n \in Everything : Len(n) = 1
Calm == Unhindered /\ (world.recursive => Undotted)

(* However often a run is interrupted, killed and resumed, the run that        *)
(* finishes has written exactly what one uninterrupted run would have found    *)
(* (README: "-o and JSON output end up complete"), and a target the state file *)
(* calls done has all of its hits saved; and no run writes a name twice,       *)
(* restored or found again.                                                    *)
AllFound ==
  Calm =>
    /\ FinishedClean => \A i \in TargetIndex : Written(i) = ExpectedHits
    /\ file # NoState => \A i \in TargetIndex : file[i].done => file[i].results = ExpectedHits

NoneTwice == again = {}

SameAsUninterrupted == AllFound /\ NoneTwice

(* The state file never claims more than was scanned: every entry below a      *)
(* target's resume point that resolves is among its saved results, unless      *)
(* lookups may fail or the logs may answer one run and not the next.           *)
StateCoversPoint ==
  ~world.flaky /\ ~world.logsFail /\ file # NoState =>
    \A i \in TargetIndex : \A k \in 1..file[i].rootDone :
      Resolves(WholeList[k]) => WholeList[k] \in AllNames(file[i].results)

(* -max-queries covers the whole scan: the answered lookups of all runs of a   *)
(* pass together stay below it (#108).                                         *)
BudgetCoversRuns ==
  world.maxQueries > 0 =>
    /\ \A i \in TargetIndex :
         result[i].processed <= world.maxQueries /\ result[i].perm.processed <= world.maxQueries
    /\ phase = "main" =>
         pass.counted + (IF Resuming THEN Saved.processed ELSE 0) <= world.maxQueries

(* Worlds in which the runs of a scan permute the same names: a resumed run    *)
(* expands restored names again and may find more, logs that fail once may     *)
(* answer the next run, and a target skipped behind an aborted one loses its   *)
(* results (UnreachedKeepsState).                                              *)
NoneSkipped == world.targets = 1 \/ world.noAbort \/ ~world.flaky
SameLists == ~world.recursive /\ ~world.logsFail /\ NoneSkipped

(* What the state file holds is only ever added to, or spent (#109), as long   *)
(* as the logs answer.  The resume point of a target this run did not skip     *)
(* never moves back, however early a resumed run is interrupted again; the     *)
(* file is gone only after a run that finished every target; and a run that    *)
(* was not interrupted writes none.                                            *)
TargetAdvances(i) ==
  /\ file'[i].rootDone >= file[i].rootDone
  /\ file'[i].processed >= file[i].processed
  /\ file[i].done => file'[i].done
  /\ SameLists /\ file[i].perm.started => file'[i].perm.rootDone >= file[i].perm.rootDone

StateAdvances ==
  /\ file = NoState => signal
  /\ file' = NoState => \A i \in TargetIndex : status[i] = "ok" /\ result[i].done
  /\ file # NoState /\ file' # NoState =>
       \A i \in TargetIndex : status[i] # "skipped" => TargetAdvances(i)
StateOnlyAdvances == [][~world.logsFail => StateAdvances]_file

(* runPermutationPass: the names found "decide the candidate list, which a     *)
(* resumed pass has to rebuild identically", so that its saved index points    *)
(* at the same candidate.  It does in the worlds of SameLists; if the logs     *)
(* answer one run and not the next, its list has other candidates than the     *)
(* interrupted one's.                                                          *)
PermListRebuilt ==
  phase = "perm" /\ PermSaved => pass.list = seeds[at]

(* The results a resumed run started from are still in a file whenever it has  *)
(* ended or was killed: in its state file, or in the results file that         *)
(* replaced the earlier one.  The state file is written or removed first, and  *)
(* a run that did not reach every target commits a results file without the    *)
(* others' names.  (A target skipped behind an aborted one is the exception    *)
(* UnreachedKeepsState shows.)                                                 *)
SavedSurvives ==
  ~Running /\ Resuming =>
    \A i \in {j \in TargetIndex : status[j] # "skipped"} :
      resume[i].results \subseteq
        {g[2] : g \in {h \in published : h[1] = i}} \cup (IF file = NoState THEN {} ELSE file[i].results)

-----------------------------------------------------------------------------
(* What a document or comment says and the code does not do. *)

(* README:368: "In recursive mode, names found before the interrupt have their *)
(* children re-scanned."  Here once the resumed main pass came to its end, of  *)
(* the candidates of the first level.                                          *)
RestoredRescanned ==
  Unhindered /\ world.recursive /\ world.depth > 1
    /\ Resuming /\ phase = "permute" /\ ~ctx =>
    \A n \in Everything \cap MainNames(Saved.results), e \in Everything :
      Resolves(e \o n) => e \o n \in MainNames(cur)

(* saveResumeState: a target "this run never reached keeps its saved state     *)
(* unchanged".  One skipped behind an aborted target keeps its resume point    *)
(* and loses its results.                                                      *)
UnreachedKeepsState ==
  [][file # NoState /\ file' # NoState =>
       \A i \in TargetIndex : at <= i => file'[i].results = file[i].results]_file
=============================================================================
