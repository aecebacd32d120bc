-------------------------- MODULE ScanContractProofs --------------------------
(* Proof that the scan engine implements the contract of module ScanContract,  *)
(* whatever the wordlist, the number of workers, the depth and the query cap.  *)
EXTENDS ScanProofs, SequenceTheorems

-----------------------------------------------------------------------------
(* What is decided about a hit.  Between its answer and the moment its worker  *)
(* queues its children, or finds that it has none, a name is being decided on; *)
(* nothing is expanded from it before, and it is never pruned after.           *)

Pruned == {n[2] : n \in {m \in notices : m[1] = "skip"}}
Deciding(w) == Unsent(w) \/ wpc[w] \in {"probe", "enqueue"}
DepthLimit == IF Recursive THEN MaxDepth ELSE 1

DecideInv ==
  /\ \A w \in Worker : Deciding(w) => wjob[w].name \in TestedNames \ Pruned
  /\ \A v, w \in Worker : Deciding(v) /\ Deciding(w) /\ v # w => wjob[v].name # wjob[w].name
  /\ \A w \in Worker : wpc[w] \in {"probe", "enqueue"} =>
       /\ wjob[w] \in tested /\ wout[w] = "found"
       /\ wjob[w].name \in results /\ wjob[w].depth < DepthLimit
  /\ Pruned \subseteq results

-----------------------------------------------------------------------------
(* Every job is a candidate.  A name the contract lets the scan expand, and    *)
(* that stays one.                                                             *)
Decided(n) == \A w \in Worker : Deciding(w) => wjob[w].name # n

Grown(p) ==
  \/ p \in ResumedParents
  \/ \E t \in tested :
       /\ p = [name |-> t.name, depth |-> t.depth] /\ t.depth < DepthLimit
       /\ t.name \in results \ Pruned /\ Decided(t.name)

JobGrown(job) ==
  /\ ~Excluded(job.name)
  /\ \/ job.depth = 1 /\ \E i \in Start..(N - 1) : job.name = Entry(i)
     \/ \E p \in [name : Name, depth : Nat], i \in 0..(N - 1) :
          Grown(p) /\ job.depth = p.depth + 1 /\ job.name = Child(i, p.name)

QueueGrown ==
  \A k \in DOMAIN frontier : frontier[k].next < N /\ frontier[k].depth # 1 =>
    Grown([name |-> frontier[k].parent, depth |-> frontier[k].depth - 1])
ReadyGrown == ready # NoJob => JobGrown(ready)
HeldGrown == \A w \in Worker : Waiting(w) => JobGrown(wjob[w])

GrownInv == QueueGrown /\ ReadyGrown /\ HeldGrown

-----------------------------------------------------------------------------
(* The budget.  What was admitted was looked up, is about to be, or was cut.   *)
WaitingSet == {w \in Worker : Waiting(w)}
Admitted == Cardinality(tested) + Cardinality(WaitingSet) + (IF ready = NoJob THEN 0 ELSE 1)

BudgetInv == Admitted <= admitted /\ (~cancelled => Admitted = admitted)

-----------------------------------------------------------------------------
(* No candidate is lost.  A child is excluded, generated, or still ahead of    *)
(* the dispatcher in its queue.                                                *)
Owed(p, i) ==
  \/ Excluded(Child(i, p)) \/ Child(i, p) \in visited
  \/ \E k \in DOMAIN frontier : frontier[k].parent = p /\ frontier[k].next <= i

RootsOwed == ~capped => \A i \in Start..(N - 1) : Owed(<<>>, i)

ChildrenOwed ==
  ~capped /\ ~cancelled => \A p : Grown(p) => \A i \in 0..(N - 1) : Owed(p.name, i)

VisitedHeld ==
  ~cancelled => \A n \in visited :
    \/ Excluded(n) \/ n \in TestedNames
    \/ ready # NoJob /\ ready.name = n
    \/ \E w \in Worker : Waiting(w) /\ wjob[w].name = n

HandEmpty == disp \in {"off", "next"} => ready = NoJob
SelectLate == disp = "select" /\ ready = NoJob => frontier = <<>>
ClosedQuiet ==
  disp \in {"closing", "closed"} /\ ~cancelled => ready = NoJob /\ frontier = <<>> /\ Busy = {}
CapPositive == capped => MaxQueries > 0

QueueEnds == HandEmpty /\ SelectLate /\ ClosedQuiet /\ CapPositive

CompleteInv == RootsOwed /\ ChildrenOwed /\ VisitedHeld /\ QueueEnds

(* What is known of every reachable state from the other proofs. *)
Groundwork ==
  /\ TypeOK /\ ShutdownInv /\ PendingInv /\ CapInv /\ TotalsInv /\ MarkInv

-----------------------------------------------------------------------------
(* How a step changes what is decided. *)

LEMMA PrunedFrame ==
  ASSUME notices \subseteq notices',
         \A m \in notices' \ notices : m[1] # "skip"
  PROVE  Pruned' = Pruned
BY DEF Pruned

(* No action but a worker's probe prunes a name. *)
LEMMA PrunedStep ==
  ASSUME TypeOK, [Next]_vars
  PROVE  \/ Pruned' = Pruned
         \/ \E w \in Worker : /\ ProbeParent(w) /\ wpc' = [wpc EXCEPT ![w] = "report"]
                              /\ Pruned' = Pruned \cup {wjob[w].name}
<1> USE DEF argVars, ctlVars, genVars, lossVars, markVars, dispVars, workVars, sumVars,
            stopVars, tickVars, outVars, poolVars, restVars, workEnv
<1>1. CASE UNCHANGED notices
  BY <1>1, PrunedFrame
<1>2. CASE CheckScope \/ CheckCeiling \/ Preflight \/ DetectWildcard
  <2>1. /\ notices \subseteq notices'
        /\ notices' \subseteq notices \cup {<<"ceiling", <<>>>>, <<"wildcard", <<>>>>}
    BY <1>2 DEF CheckScope, CheckCeiling, Preflight, DetectWildcard, GoOn
  <2> QED BY <2>1, PrunedFrame
<1>3. CASE CloseJobs
  BY <1>3, PrunedFrame DEF CloseJobs
<1>4. ASSUME NEW w \in Worker, ProbeParent(w)
      PROVE  \/ Pruned' = Pruned
             \/ wpc' = [wpc EXCEPT ![w] = "report"] /\ Pruned' = Pruned \cup {wjob[w].name}
  <2>1. \/ UNCHANGED notices
        \/ /\ notices' = notices \cup {<<"skip", wjob[w].name>>}
           /\ wpc' = [wpc EXCEPT ![w] = "report"]
    BY <1>4 DEF ProbeParent, Goto
  <2> QED BY <1>1, <2>1 DEF Pruned
<1>5. ASSUME NEW w \in Worker, Work(w) \/ Meet(w), ~ProbeParent(w) PROVE UNCHANGED notices
  <2>1. CASE Meet(w)
    BY <2>1 DEF Meet, Dispatch, Enqueue, Complete
  <2>2. CASE Work(w)
    BY <1>5, <2>2 DEF Work, Exit, Begin, Lookup, Count, CheckReliability, Trip, CountFound,
       SendResult, GiveUp
  <2> QED BY <1>5, <2>1, <2>2
<1>6. ASSUME \/ Spawn \/ JoinWorkers \/ SendDone \/ Close \/ Ticker \/ Cancel \/ UNCHANGED vars
             \/ PopExpansion \/ HitCap \/ SkipDuplicate \/ SkipExcluded \/ Admit \/ NoneLeft
             \/ BeginClose
      PROVE UNCHANGED notices
  BY <1>6 DEF Spawn, JoinWorkers, SendDone, Close, Ticker, Tick, LoadTick, SendProgress,
     StopTicker, Cancel, vars, PopExpansion, HitCap, SkipDuplicate, SkipExcluded, Admit,
     NoneLeft, BeginClose
<1> QED BY <1>1, <1>2, <1>3, <1>4, <1>5, <1>6 DEF Next, Main, Dispatcher, Returned

(* Where the workers go in a step, as far as decisions are concerned. *)
LEMMA StandStill ==
  ASSUME \/ Cancel \/ CheckScope \/ CheckCeiling \/ Preflight \/ DetectWildcard
         \/ JoinWorkers \/ SendDone \/ Close \/ Ticker \/ Dispatcher \/ UNCHANGED vars
  PROVE  UNCHANGED <<wpc, wjob, wout, tested, results>>
BY DEF Cancel, CheckScope, CheckCeiling, Preflight, DetectWildcard, JoinWorkers, SendDone,
   Close, Ticker, Tick, LoadTick, SendProgress, StopTicker, Dispatcher, PopExpansion, HitCap,
   SkipDuplicate, SkipExcluded, Admit, NoneLeft, BeginClose, CloseJobs, vars, argVars, ctlVars,
   genVars, lossVars, markVars, dispVars, workVars, sumVars, stopVars, tickVars, outVars,
   poolVars, restVars, workEnv

(* The moves of one worker: the others stay, and it leaves its decision, goes  *)
(* on with it, or takes up a new one with a counted lookup.                    *)
OthersStay(w) ==
  \A v \in Worker : v # w => wpc'[v] = wpc[v] /\ wjob'[v] = wjob[v] /\ wout'[v] = wout[v]

LEMMA WorkerMoves ==
  ASSUME TypeOK, NEW w \in Worker, Work(w) \/ Meet(w)
  PROVE  /\ OthersStay(w)
         /\ Dispatch(w) \/ UNCHANGED wjob
         /\ tested' = tested \/ (Lookup(w) /\ tested' = tested \cup {wjob[w]})
         /\ results' = results \/ (SendResult(w) /\ results' = results \cup {wjob[w].name})
<1> USE DEF argVars, ctlVars, genVars, lossVars, markVars, dispVars, workVars, sumVars,
            stopVars, tickVars, outVars, poolVars, restVars, workEnv
<1>1. wpc \in [Worker -> WorkPcs] /\ wjob \in [Worker -> Jobs]
      /\ wout \in [Worker -> Counted \cup {"cut"}]
  BY DEF TypeOK, WorkType
<1>2. /\ \E pc : wpc' = [wpc EXCEPT ![w] = pc]
      /\ UNCHANGED wjob \/ (Dispatch(w) /\ wjob' = [wjob EXCEPT ![w] = ready])
      /\ UNCHANGED wout \/ \E v : wout' = [wout EXCEPT ![w] = v]
      /\ tested' = tested \/ (Lookup(w) /\ tested' = tested \cup {wjob[w]})
      /\ results' = results \/ (SendResult(w) /\ results' = results \cup {wjob[w].name})
  <2>1. CASE Meet(w)
    BY <2>1 DEF Meet, Dispatch, Enqueue, Complete
  <2>2. CASE Lookup(w)
    BY <2>2 DEF Lookup, Goto
  <2>3. CASE SendResult(w)
    BY <2>3 DEF SendResult, Goto
  <2>4. CASE Exit(w) \/ Begin(w) \/ GiveUp(w)
    BY <2>4 DEF Exit, Begin, GiveUp, Goto
  <2>5. CASE Count(w) \/ CheckReliability(w) \/ Trip(w) \/ CountFound(w) \/ ProbeParent(w)
    BY <2>5 DEF Count, CheckReliability, Trip, CountFound, ProbeParent, Goto
  <2> QED BY <2>1, <2>2, <2>3, <2>4, <2>5 DEF Work
<1> QED BY <1>1, <1>2 DEF OthersStay

(* A worker decides on the job it has just looked up, or goes on deciding. *)
LEMMA DecisionBegins ==
  ASSUME TypeOK, ResultsOnce, NEW w \in Worker, Work(w) \/ Meet(w), Deciding(w)'
  PROVE  /\ wjob'[w] = wjob[w]
         /\ \/ Deciding(w)
            \/ wpc[w] = "lookup" /\ tested' = tested \cup {wjob[w]} /\ results' = results
         /\ wpc'[w] \in {"probe", "enqueue"} =>
              \/ wpc[w] \in {"probe", "enqueue"}
              \/ /\ wpc[w] = "result" /\ results' = results \cup {wjob[w].name}
                 /\ wjob[w].depth < DepthLimit
         /\ wpc'[w] \in {"probe", "enqueue"} /\ Deciding(w) => wout'[w] = wout[w]
<1> USE DEF argVars, ctlVars, genVars, lossVars, markVars, dispVars, workVars, sumVars,
            stopVars, tickVars, outVars, poolVars, restVars, workEnv
<1>1. wpc \in [Worker -> WorkPcs] /\ wjob \in [Worker -> Jobs]
      /\ wout \in [Worker -> Counted \cup {"cut"}]
  BY DEF TypeOK, WorkType
<1>2. \A pc : wpc' = [wpc EXCEPT ![w] = pc] => wpc'[w] = pc
  BY <1>1
<1> USE DEF Deciding, Unsent, HitPcs
<1>3. ~(Meet(w) \/ Exit(w) \/ Begin(w) \/ GiveUp(w))
  BY <1>2 DEF Meet, Dispatch, Enqueue, Complete, Exit, Begin, GiveUp, Goto
<1>4. CASE Lookup(w)
  <2>1. /\ wpc[w] = "lookup" /\ UNCHANGED <<wjob, results>>
        /\ \/ wpc' = [wpc EXCEPT ![w] = "report"]
           \/ wpc' = [wpc EXCEPT ![w] = "count"] /\ tested' = tested \cup {wjob[w]}
    BY <1>4 DEF Lookup, Goto
  <2> QED BY <1>2, <2>1
<1>5. CASE Count(w) \/ CheckReliability(w) \/ Trip(w) \/ CountFound(w)
  <2>1. /\ UNCHANGED <<wjob, wout>> /\ wpc[w] \in {"count", "guard", "trip", "found"}
        /\ \E pc \in {"guard", "trip", "found", "result", "report"} : wpc' = [wpc EXCEPT ![w] = pc]
    BY <1>5 DEF Count, CheckReliability, Trip, CountFound, Goto, AfterGuard
  <2> QED BY <1>2, <2>1
<1>6. CASE SendResult(w)
  <2>1. /\ UNCHANGED <<wjob, wout>> /\ wpc[w] = "result" /\ results' = results \cup {wjob[w].name}
        /\ wpc' = [wpc EXCEPT ![w] = AfterResult(wjob[w])]
    BY <1>6 DEF SendResult, Goto
  <2>2. AfterResult(wjob[w]) = "report" \/ wjob[w].depth < DepthLimit
    BY DEF AfterResult, DepthLimit
  <2>3. wout[w] = "found"
    BY <2>1 DEF ResultsOnce
  <2>4. AfterResult(wjob[w]) \in {"report", "probe", "enqueue"}
    BY DEF AfterResult
  <2> QED BY <1>2, <2>1, <2>2, <2>3, <2>4
<1>7. CASE ProbeParent(w)
  BY <1>7 DEF ProbeParent
<1> QED BY <1>3, <1>4, <1>5, <1>6, <1>7 DEF Work

(* A decision ends with the children queued, with none to queue, or with the   *)
(* scan cancelled.                                                             *)
LEMMA DecisionEnds ==
  ASSUME TypeOK, JobsRooted, ResultsOnce, NEW w \in Worker, Work(w) \/ Meet(w),
         Deciding(w), ~Deciding(w)'
  PROVE  \/ Enqueue(w) \/ cancelled
         \/ ProbeParent(w) /\ wjob[w].name \in Pruned'
         \/ SendResult(w) /\ ~(wjob[w].depth < DepthLimit)
<1> USE DEF argVars, ctlVars, genVars, lossVars, markVars, dispVars, workVars, sumVars,
            stopVars, tickVars, outVars, poolVars, restVars, workEnv
<1>1. wpc \in [Worker -> WorkPcs]
  BY DEF TypeOK, WorkType
<1>2. \A pc : wpc' = [wpc EXCEPT ![w] = pc] => wpc'[w] = pc
  BY <1>1
<1> USE DEF Deciding, Unsent, HitPcs
<1>3. ~(Dispatch(w) \/ Complete(w) \/ Exit(w) \/ Begin(w) \/ Lookup(w))
  BY DEF Dispatch, Complete, Exit, Begin, Lookup
<1>4. CASE Count(w) \/ CheckReliability(w) \/ Trip(w) \/ CountFound(w)
  <2>1. /\ UNCHANGED wout /\ wpc[w] \in {"count", "guard", "trip", "found"}
        /\ \E pc \in {"guard", "trip", "found", "result", "report"} :
             wpc' = [wpc EXCEPT ![w] = pc] /\ (pc = "report" => wout[w] # "found")
    BY <1>4 DEF Count, CheckReliability, Trip, CountFound, Goto, AfterGuard
  <2> QED BY <1>2, <2>1
<1>5. CASE SendResult(w)
  <2>1. wpc' = [wpc EXCEPT ![w] = AfterResult(wjob[w])]
    BY <1>5 DEF SendResult, Goto
  <2>2. AfterResult(wjob[w]) \in {"probe", "enqueue"} \/ ~(wjob[w].depth < DepthLimit)
    <3>1. wjob[w].depth \in Nat /\ wjob[w].depth >= 1 /\ MaxDepth \in Nat
      BY <1>5, HeldType, ScanAssumption DEF ScanAssumption, SendResult, JobsRooted
    <3> QED BY <3>1 DEF AfterResult, DepthLimit
  <2> QED BY <1>2, <1>5, <2>1, <2>2
<1>6. CASE ProbeParent(w)
  <2>1. \/ cancelled \/ wpc' = [wpc EXCEPT ![w] = "enqueue"]
        \/ notices' = notices \cup {<<"skip", wjob[w].name>>}
    BY <1>6 DEF ProbeParent, Goto
  <2>2. CASE notices' = notices \cup {<<"skip", wjob[w].name>>}
    <3> DEFINE m == <<"skip", wjob[w].name>>
    <3>1. m \in notices' /\ m[1] = "skip" /\ m[2] = wjob[w].name
      BY <2>2
    <3>2. wjob[w].name \in {n[2] : n \in {k \in notices' : k[1] = "skip"}}
      BY <3>1
    <3> QED BY <1>6, <3>2 DEF Pruned
  <2> QED BY <1>2, <1>6, <2>1, <2>2
<1>7. CASE GiveUp(w)
  BY <1>7 DEF GiveUp
<1> QED BY <1>3, <1>4, <1>5, <1>6, <1>7 DEF Work, Meet

LEMMA DecideInit == Init => DecideInv
<1> SUFFICES ASSUME Init PROVE DecideInv
  OBVIOUS
<1>1. \A w \in Worker : ~Deciding(w) /\ wpc[w] = "off"
  BY DEF Init, Deciding, Unsent, HitPcs
<1>2. Pruned = {}
  BY DEF Init, Pruned
<1> QED BY <1>1, <1>2 DEF DecideInv

LEMMA DecideStep == Groundwork /\ DecideInv /\ [Next]_vars => DecideInv'
<1> SUFFICES ASSUME Groundwork, DecideInv, [Next]_vars PROVE DecideInv'
  OBVIOUS
<1>0. TypeOK /\ ResultsOnce /\ NamesOnce /\ JobsRooted /\ AnswerTested
  BY DEF Groundwork, TotalsInv, MarkInv
<1>00. wpc \in [Worker -> WorkPcs]
  BY <1>0 DEF TypeOK, WorkType
<1>1. ASSUME UNCHANGED <<wpc, wjob, wout, tested, results>> PROVE DecideInv'
  <2>1. Pruned' = Pruned
    BY <1>0, <1>00, <1>1, PrunedStep DEF ProbeParent
  <2> QED BY <1>1, <2>1 DEF DecideInv, Deciding, Unsent, TestedNames
<1>2. CASE Spawn
  <2>1. UNCHANGED notices /\ results' = results /\ \A w \in Worker : wpc'[w] = "recv"
    BY <1>2 DEF Spawn, outVars
  <2>2. Pruned' = Pruned /\ \A w \in Worker : ~Deciding(w)'
    BY <2>1, PrunedFrame DEF Deciding, Unsent, HitPcs
  <2> QED BY <2>1, <2>2 DEF DecideInv
<1>3. ASSUME NEW w \in Worker, Work(w) \/ Meet(w) PROVE DecideInv'
  <2>1. OthersStay(w) /\ tested \subseteq tested' /\ results \subseteq results'
    BY <1>0, <1>3, WorkerMoves
  <2>2. \A v \in Worker : v # w => (Deciding(v)' <=> Deciding(v)) /\ wjob'[v] = wjob[v]
    BY <2>1 DEF OthersStay, Deciding, Unsent
  <2>3. \/ Pruned' = Pruned
        \/ Pruned' = Pruned \cup {wjob[w].name} /\ wpc[w] = "probe" /\ ~Deciding(w)'
    <3>1. CASE Pruned' = Pruned
      BY <3>1
    <3>2. ASSUME NEW u \in Worker, ProbeParent(u), wpc' = [wpc EXCEPT ![u] = "report"],
                 Pruned' = Pruned \cup {wjob[u].name}
          PROVE  Pruned' = Pruned \cup {wjob[w].name} /\ wpc[w] = "probe" /\ ~Deciding(w)'
      <4>1. wpc[u] = "probe" /\ wpc'[u] = "report"
        BY <1>00, <3>2 DEF ProbeParent
      <4>2. u = w
        BY <2>1, <4>1 DEF OthersStay
      <4> QED BY <3>2, <4>1, <4>2 DEF Deciding, Unsent, HitPcs
    <3> QED BY <1>0, <3>1, <3>2, PrunedStep
  <2>4. Deciding(w)' =>
          /\ wjob'[w] = wjob[w] /\ Pruned' = Pruned
          /\ Deciding(w) \/ (wpc[w] = "lookup" /\ tested' = tested \cup {wjob[w]})
    BY <1>0, <1>3, <2>3, DecisionBegins
  <2>5. wpc[w] = "lookup" => wjob[w].name \notin TestedNames
    BY <1>0 DEF NamesOnce, Waiting, Fresh, TestedNames
  <2>6. TestedNames \subseteq TestedNames' /\ Pruned \subseteq TestedNames
    BY <1>0, <2>1 DEF DecideInv, ResultsOnce, TestedNames
  <2>7. ASSUME NEW v \in Worker, Deciding(v)'
        PROVE  wjob'[v].name \in TestedNames' \ Pruned'
    <3>1. CASE v # w
      <4>1. Deciding(v) /\ wjob'[v] = wjob[v]
        BY <2>2, <2>7, <3>1
      <4>2. wpc[w] = "probe" => wjob[v].name # wjob[w].name
        BY <3>1, <4>1 DEF DecideInv, Deciding
      <4> QED BY <2>3, <2>6, <4>1, <4>2 DEF DecideInv
    <3>2. CASE v = w /\ Deciding(w)
      BY <2>4, <2>6, <2>7, <3>2 DEF DecideInv
    <3>3. CASE v = w /\ ~Deciding(w)
      <4>1. wjob'[w] = wjob[w] /\ Pruned' = Pruned /\ wpc[w] = "lookup" /\ wjob[w] \in tested'
        BY <2>4, <2>7, <3>3
      <4> QED BY <2>5, <2>6, <3>3, <4>1 DEF TestedNames
    <3> QED BY <3>1, <3>2, <3>3
  <2>8. ASSUME NEW v \in Worker, Deciding(v)', Deciding(w)', v # w
        PROVE  wjob'[v].name # wjob'[w].name
    <3>1. Deciding(v) /\ wjob'[v] = wjob[v] /\ wjob'[w] = wjob[w]
      BY <2>2, <2>4, <2>8
    <3> QED BY <2>4, <2>5, <2>8, <3>1 DEF DecideInv
  <2>9. \A u, v \in Worker : Deciding(u)' /\ Deciding(v)' /\ u # v => wjob'[u].name # wjob'[v].name
    BY <2>2, <2>8 DEF DecideInv
  <2>10. ASSUME NEW v \in Worker, wpc'[v] \in {"probe", "enqueue"}
         PROVE  /\ wjob'[v] \in tested' /\ wout'[v] = "found"
                /\ wjob'[v].name \in results' /\ wjob'[v].depth < DepthLimit
    <3>1. CASE v # w
      BY <2>1, <2>10, <3>1 DEF OthersStay, DecideInv
    <3>2. CASE v = w
      <4>1. Deciding(w)'
        BY <2>10, <3>2 DEF Deciding
      <4>2. \/ wpc[w] \in {"probe", "enqueue"}
            \/ /\ wpc[w] = "result" /\ results' = results \cup {wjob[w].name}
               /\ wjob[w].depth < DepthLimit
        BY <1>0, <1>3, <2>10, <3>2, <4>1, DecisionBegins
      <4>3. Deciding(w) /\ wout[w] = "found" /\ wjob[w] \in tested
        BY <1>0, <4>2 DEF DecideInv, ResultsOnce, AnswerTested, Deciding, Unsent, HitPcs
      <4>4. wjob'[w] = wjob[w] /\ wout'[w] = wout[w]
        BY <1>0, <1>3, <2>10, <3>2, <4>1, <4>3, DecisionBegins
      <4> QED BY <2>1, <3>2, <4>2, <4>3, <4>4 DEF DecideInv
    <3> QED BY <3>1, <3>2
  <2>11. Pruned' \subseteq results'
    BY <2>1, <2>3 DEF DecideInv
  <2> QED BY <2>7, <2>9, <2>10, <2>11 DEF DecideInv
<1> QED BY <1>1, <1>2, <1>3, StandStill DEF Next, Main, Returned

-----------------------------------------------------------------------------
(* What may be expanded stays so, and becomes so only when its worker queues   *)
(* its children.                                                               *)

LEMMA HistoryGrows ==
  ASSUME TypeOK, [Next]_vars
  PROVE  tested \subseteq tested' /\ results \subseteq results'
<1>1. ASSUME NEW w \in Worker, Work(w) \/ Meet(w)
      PROVE  tested \subseteq tested' /\ results \subseteq results'
  BY <1>1, WorkerMoves
<1>2. Spawn => UNCHANGED <<tested, results>>
  BY DEF Spawn, sumVars, outVars
<1> QED BY <1>1, <1>2, StandStill DEF Next, Main, Returned

LEMMA GrownStable ==
  ASSUME Groundwork, DecideInv, [Next]_vars, NEW p, Grown(p)
  PROVE  Grown(p)'
<1>0. TypeOK /\ ResultsOnce /\ NamesOnce /\ wpc \in [Worker -> WorkPcs]
  BY DEF Groundwork, TotalsInv, TypeOK, WorkType
<1>1. CASE p \in ResumedParents
  BY <1>1 DEF Grown
<1>2. ASSUME NEW t \in tested, t.depth < DepthLimit, t.name \in results \ Pruned, Decided(t.name)
      PROVE  t \in tested' /\ t.name \in results' \ Pruned' /\ Decided(t.name)'
  <2>1. t \in tested' /\ t.name \in results'
    BY <1>0, <1>2, HistoryGrows
  <2>2. t.name \notin Pruned'
    <3>1. \A w \in Worker : ProbeParent(w) => wjob[w].name # t.name
      BY <1>2 DEF ProbeParent, Decided, Deciding
    <3> QED BY <1>0, <1>2, <3>1, PrunedStep
  <2>3. ASSUME NEW w \in Worker, Deciding(w)' PROVE wjob'[w].name # t.name
    <3>1. CASE UNCHANGED <<wpc, wjob, wout>>
      BY <1>2, <2>3, <3>1 DEF Decided, Deciding, Unsent
    <3>2. CASE Spawn
      BY <2>3, <3>2 DEF Spawn, Deciding, Unsent, HitPcs
    <3>3. ASSUME NEW u \in Worker, Work(u) \/ Meet(u) PROVE wjob'[w].name # t.name
      <4>1. CASE u # w
        <5>1. OthersStay(u)
          BY <1>0, <3>3, WorkerMoves
        <5>2. Deciding(w) /\ wjob'[w] = wjob[w]
          BY <2>3, <4>1, <5>1 DEF OthersStay, Deciding, Unsent
        <5> QED BY <1>2, <5>2 DEF Decided
      <4>2. CASE u = w
        <5>1. wjob'[w] = wjob[w] /\ (Deciding(w) \/ wpc[w] = "lookup")
          BY <1>0, <2>3, <3>3, <4>2, DecisionBegins
        <5>2. wpc[w] = "lookup" => wjob[w].name # t.name
          BY <1>0, <1>2 DEF NamesOnce, Waiting, Fresh
        <5> QED BY <1>2, <5>1, <5>2 DEF Decided
      <4> QED BY <4>1, <4>2
    <3> QED BY <3>1, <3>2, <3>3, StandStill DEF Next, Main, Returned
  <2> QED BY <2>1, <2>2, <2>3 DEF Decided
<1> QED BY <1>1, <1>2 DEF Grown

LEMMA JobGrownStable ==
  ASSUME Groundwork, DecideInv, [Next]_vars, NEW job, JobGrown(job)
  PROVE  JobGrown(job)'
<1>1. \A p : Grown(p) => Grown(p)'
  BY GrownStable
<1> QED BY <1>1 DEF JobGrown

LEMMA TestedNameOnce ==
  ASSUME TypeOK, TallyInv, NEW j \in tested, NEW k \in tested, j.name = k.name
  PROVE  j = k
<1> DEFINE name == [i \in tested |-> i.name]
<1>1. name \in Surjection(tested, TestedNames)
  BY DEF Surjection, TestedNames
<1>2. name \in Injection(tested, TestedNames)
  BY <1>1, FS_SurjSameCardinalityImpliesInj DEF TallyInv, Tally
<1> QED BY <1>2 DEF Injection, IsInjective

LEMMA NewlyGrown ==
  ASSUME Groundwork, DecideInv, [Next]_vars, NEW p, Grown(p)', ~Grown(p), ~cancelled
  PROVE  \E w \in Worker : Enqueue(w) /\ p.name = wjob[w].name
<1>0. /\ TypeOK /\ ResultsOnce /\ NamesOnce /\ AnswerTested /\ JobsRooted /\ TallyInv
      /\ wpc \in [Worker -> WorkPcs]
  BY DEF Groundwork, TotalsInv, TypeOK, WorkType, MarkInv
<1>1. PICK t \in tested' :
        /\ p = [name |-> t.name, depth |-> t.depth] /\ t.depth < DepthLimit
        /\ t.name \in results' \ Pruned' /\ Decided(t.name)'
  BY DEF Grown
<1>2. t.name \notin Pruned
  <2>1. Pruned \subseteq Pruned'
    BY <1>0, PrunedStep
  <2> QED BY <1>1, <2>1
<1>3. \/ t \notin tested \/ t.name \notin results \/ ~Decided(t.name)
  BY <1>1, <1>2 DEF Grown
<1>4. ASSUME UNCHANGED <<wpc, wjob, wout, tested, results>> PROVE FALSE
  <2>1. Decided(t.name)' <=> Decided(t.name)
    BY <1>4 DEF Decided, Deciding, Unsent
  <2> QED BY <1>1, <1>3, <1>4, <2>1
<1>5. CASE Spawn
  <2>1. \A w \in Worker : wpc[w] = "off"
    BY <1>5 DEF Spawn, Groundwork, ShutdownInv, NobodyBeforeSpawn, NotSpawned
  <2>2. Decided(t.name)
    BY <2>1 DEF Decided, Deciding, Unsent, HitPcs
  <2> QED BY <1>1, <1>3, <1>5, <2>2 DEF Spawn, sumVars, outVars
<1>6. ASSUME NEW w \in Worker, Work(w) \/ Meet(w)
      PROVE  Enqueue(w) /\ p.name = wjob[w].name
  <2>1. /\ OthersStay(w) /\ (Dispatch(w) \/ UNCHANGED wjob)
        /\ tested' = tested \/ (Lookup(w) /\ tested' = tested \cup {wjob[w]})
        /\ results' = results \/ (SendResult(w) /\ results' = results \cup {wjob[w].name})
    BY <1>0, <1>6, WorkerMoves
  <2>2. Lookup(w) => wjob[w].name \notin TestedNames /\ results' = results
    BY <1>0 DEF Lookup, NamesOnce, Waiting, Fresh, TestedNames, outVars
  <2>3. results \subseteq TestedNames
    BY <1>0 DEF ResultsOnce
  <2>4. t \in tested
    BY <1>1, <2>1, <2>2, <2>3 DEF TestedNames
  <2>5. ~(SendResult(w) /\ t.name = wjob[w].name)
    <3> SUFFICES ASSUME SendResult(w), t.name = wjob[w].name PROVE FALSE
      OBVIOUS
    <3>1. wpc[w] = "result" /\ wpc' = [wpc EXCEPT ![w] = AfterResult(wjob[w])]
          /\ UNCHANGED wjob
      BY DEF SendResult, Goto, workEnv, dispVars
    <3>2. wjob[w] \in tested
      BY <1>0, <3>1 DEF AnswerTested, ResultsOnce
    <3>3. t = wjob[w]
      BY <1>0, <2>4, <3>2, TestedNameOnce
    <3>4. AfterResult(wjob[w]) \in {"probe", "enqueue"}
      <4>1. wjob[w].depth \in Nat /\ wjob[w].depth >= 1 /\ MaxDepth \in Nat
        BY <1>0, <3>1, HeldType, ScanAssumption DEF ScanAssumption, JobsRooted
      <4> QED BY <1>1, <3>3, <4>1 DEF AfterResult, DepthLimit
    <3>5. Deciding(w)' /\ wjob'[w].name = t.name
      BY <1>0, <3>1, <3>4 DEF Deciding
    <3> QED BY <1>1, <3>5 DEF Decided
  <2>6. t.name \in results
    BY <1>1, <2>1, <2>5
  <2>7. PICK v \in Worker : Deciding(v) /\ wjob[v].name = t.name
    BY <1>3, <2>4, <2>6 DEF Decided
  <2>8. v = w
    <3> SUFFICES ASSUME v # w PROVE FALSE
      OBVIOUS
    <3>1. Deciding(v)' /\ wjob'[v] = wjob[v]
      BY <2>1, <2>7 DEF OthersStay, Deciding, Unsent
    <3> QED BY <1>1, <2>7, <3>1 DEF Decided
  <2>9. ~Deciding(w)'
    <3>1. Deciding(w)' => wjob'[w] = wjob[w]
      BY <1>0, <1>6, DecisionBegins
    <3> QED BY <1>1, <2>7, <2>8, <3>1 DEF Decided
  <2>10. \/ Enqueue(w) \/ SendResult(w)
         \/ ProbeParent(w) /\ wjob[w].name \in Pruned'
    BY <1>0, <1>6, <2>7, <2>8, <2>9, DecisionEnds
  <2>11. t.name = wjob[w].name /\ p.name = t.name
    BY <1>1, <2>7, <2>8
  <2> QED BY <1>1, <2>5, <2>10, <2>11
<1> QED BY <1>4, <1>5, <1>6, StandStill DEF Next, Main, Returned

-----------------------------------------------------------------------------
(* Every job handed out is a candidate of the contract. *)

(* The dispatcher's state is touched by Spawn, by the dispatcher, and by the   *)
(* workers it meets.                                                           *)
LEMMA DispatcherIdle ==
  ASSUME [Next]_vars, ~Spawn, ~Dispatcher, \A w \in Worker : ~Meet(w)
  PROVE  UNCHANGED dispVars
<1> USE DEF argVars, ctlVars, genVars, lossVars, markVars, dispVars, workVars, sumVars,
            stopVars, tickVars, outVars, poolVars, restVars, workEnv
<1>1. ASSUME NEW w \in Worker, Work(w) PROVE UNCHANGED dispVars
  BY <1>1 DEF Work, Exit, Begin, Lookup, Count, CheckReliability, Trip, CountFound, SendResult,
     ProbeParent, GiveUp
<1>2. CASE CheckScope \/ CheckCeiling \/ Preflight \/ DetectWildcard \/ JoinWorkers
  BY <1>2 DEF CheckScope, CheckCeiling, Preflight, DetectWildcard, JoinWorkers
<1>3. CASE SendDone \/ Close \/ Ticker \/ Cancel \/ UNCHANGED vars
  BY <1>3 DEF SendDone, Close, Ticker, Tick, LoadTick, SendProgress, StopTicker, Cancel, vars
<1> QED BY <1>1, <1>2, <1>3 DEF Next, Main, Returned

(* A worker starts to wait for an answer when it is handed a job. *)
LEMMA WaitingBegins ==
  ASSUME TypeOK, [Next]_vars, NEW w \in Worker, Waiting(w)'
  PROVE  Dispatch(w) \/ (Waiting(w) /\ wjob'[w] = wjob[w])
<1> USE DEF argVars, ctlVars, genVars, lossVars, markVars, dispVars, workVars, sumVars,
            stopVars, tickVars, outVars, poolVars, restVars, workEnv
<1>0. wpc \in [Worker -> WorkPcs] /\ wjob \in [Worker -> Jobs]
  BY DEF TypeOK, WorkType
<1>1. CASE UNCHANGED <<wpc, wjob>>
  BY <1>1 DEF Waiting
<1>2. CASE Spawn
  BY <1>2 DEF Spawn, Waiting
<1>3. ASSUME NEW u \in Worker, Work(u) \/ Meet(u), u # w
      PROVE  Waiting(w) /\ wjob'[w] = wjob[w]
  BY <1>3, WorkerMoves DEF OthersStay, Waiting
<1>4. CASE Work(w)
  <2>1. \A pc : wpc' = [wpc EXCEPT ![w] = pc] => wpc'[w] = pc
    BY <1>0
  <2>2. ~(Exit(w) \/ GiveUp(w) \/ Count(w) \/ Trip(w) \/ CheckReliability(w))
    BY <2>1 DEF Exit, GiveUp, Count, Trip, CheckReliability, AfterGuard, Goto, Waiting
  <2>3. ~(CountFound(w) \/ ProbeParent(w) \/ SendResult(w) \/ Lookup(w))
    BY <2>1 DEF CountFound, ProbeParent, SendResult, AfterResult, Lookup, Goto, Waiting
  <2> QED BY <1>4, <2>2, <2>3 DEF Work, Begin, Waiting
<1>5. CASE Enqueue(w) \/ Complete(w)
  BY <1>0, <1>5 DEF Enqueue, Complete, Waiting
<1> QED BY <1>1, <1>2, <1>3, <1>4, <1>5, StandStill DEF Next, Main, Returned, Meet

(* The wait ends with an answer that is counted, unless the scan is cancelled. *)
LEMMA WaitingEnds ==
  ASSUME TypeOK, ShutdownInv, [Next]_vars, NEW w \in Worker, Waiting(w), ~Waiting(w)'
  PROVE  cancelled \/ (Lookup(w) /\ tested' = tested \cup {wjob[w]})
<1>1. ~UNCHANGED wpc
  BY DEF Waiting
<1>2. ~Spawn
  BY DEF Waiting, Spawn, ShutdownInv, NobodyBeforeSpawn, NotSpawned
<1>3. PICK u \in Worker : Work(u) \/ Meet(u)
  BY <1>1, <1>2, StandStill DEF Next, Main, Returned
<1>4. u = w
  BY <1>3, WorkerMoves DEF OthersStay, Waiting
<1>5. Begin(w) \/ Lookup(w)
  BY <1>3, <1>4 DEF Waiting, Work, Meet, Exit, Count, CheckReliability, Trip, CountFound,
     SendResult, ProbeParent, GiveUp, Dispatch, Enqueue, Complete
<1>6. CASE Begin(w)
  BY <1>6 DEF Begin, Goto, Waiting, TypeOK, WorkType
<1>7. CASE Lookup(w)
  <2>1. PICK o \in Outcomes : /\ o = "canceled" => cancelled
                             /\ \E v \in Verdicts(o) :
                                  v # "cut" => tested' = tested \cup {wjob[w]}
    BY <1>7 DEF Lookup
  <2>2. PICK v \in Verdicts(o) : v # "cut" => tested' = tested \cup {wjob[w]}
    BY <2>1
  <2>3. v = "cut" => cancelled
    BY <2>1, <2>2 DEF Verdicts, Outcomes
  <2> QED BY <1>7, <2>2, <2>3
<1> QED BY <1>5, <1>6, <1>7

LEMMA GrownInit == Init => GrownInv
<1> SUFFICES ASSUME Init PROVE GrownInv
  OBVIOUS
<1> DEFINE root == [parent |-> <<>>, depth |-> 1, next |-> Start]
<1>1. frontier = <<root>> \o ResumeExpansions
  BY DEF Init
<1>2. /\ frontier[1] = root /\ DOMAIN frontier = 1..(1 + Len(ResumeExpansions))
      /\ Len(ResumeExpansions) \in Nat /\ DOMAIN ResumeExpansions = 1..Len(ResumeExpansions)
      /\ \A k \in 2..(1 + Len(ResumeExpansions)) : frontier[k] = ResumeExpansions[k - 1]
  BY <1>1, ConstantTypes
<1>3. ASSUME NEW k \in DOMAIN ResumeExpansions, ResumeExpansions[k].next < N
      PROVE  [name |-> ResumeExpansions[k].parent, depth |-> ResumeExpansions[k].depth - 1]
               \in ResumedParents
  <2>1. Expandable(ResumeParents[k])
    BY <1>3, ConstantTypes DEF ResumeExpansions
  <2> QED BY <1>3, <2>1 DEF ResumedParents
<1>4. ASSUME NEW k \in DOMAIN frontier, frontier[k].next < N, frontier[k].depth # 1
      PROVE  Grown([name |-> frontier[k].parent, depth |-> frontier[k].depth - 1])
  <2>1. k \in 2..(1 + Len(ResumeExpansions)) /\ k - 1 \in DOMAIN ResumeExpansions
    BY <1>2, <1>4
  <2>2. frontier[k] = ResumeExpansions[k - 1]
    BY <1>2, <2>1
  <2> QED BY <1>3, <1>4, <2>1, <2>2 DEF Grown
<1> QED BY <1>4 DEF Init, GrownInv, QueueGrown, ReadyGrown, HeldGrown, Waiting

(* What the dispatcher's steps do to the queue. *)
LEMMA QueueMoves ==
  ASSUME TypeOK, [Next]_vars
  PROVE  \/ UNCHANGED frontier
         \/ PopExpansion /\ frontier' = Tail(frontier)
         \/ HitCap /\ frontier' = <<>>
         \/ HasCandidate /\ Take
         \/ \E w \in Worker :
              /\ Enqueue(w) /\ ~SubtreeExcluded(wjob[w].name) /\ ~capped
              /\ frontier' = Append(frontier,
                   [parent |-> wjob[w].name, depth |-> wjob[w].depth + 1, next |-> 0])
<1> USE DEF argVars, ctlVars, genVars, lossVars, markVars, dispVars, workVars, sumVars,
            stopVars, tickVars, outVars, poolVars, restVars, workEnv
<1>1. CASE UNCHANGED dispVars
  BY <1>1
<1>2. CASE Spawn
  BY <1>2 DEF Spawn
<1>3. CASE NoneLeft \/ BeginClose \/ CloseJobs
  BY <1>3 DEF NoneLeft, BeginClose, CloseJobs
<1>4. CASE PopExpansion \/ HitCap
  BY <1>4 DEF PopExpansion, HitCap
<1>5. CASE SkipDuplicate \/ SkipExcluded \/ Admit
  BY <1>5 DEF SkipDuplicate, SkipExcluded, Admit
<1>6. ASSUME NEW w \in Worker, Dispatch(w) \/ Complete(w) PROVE UNCHANGED frontier
  BY <1>6 DEF Dispatch, Complete
<1>7. ASSUME NEW w \in Worker, Enqueue(w), ~UNCHANGED frontier
      PROVE  /\ ~SubtreeExcluded(wjob[w].name) /\ ~capped
             /\ frontier' = Append(frontier,
                  [parent |-> wjob[w].name, depth |-> wjob[w].depth + 1, next |-> 0])
  BY <1>7 DEF Enqueue
<1> QED BY <1>1, <1>2, <1>3, <1>4, <1>5, <1>6, <1>7, DispatcherIdle DEF Dispatcher, Meet

(* A name taken from the queue is a candidate. *)
LEMMA CandidateGrown ==
  ASSUME TypeOK, MarkInv, QueueGrown, HasCandidate, ~Excluded(Candidate)
  PROVE  JobGrown([name |-> Candidate, depth |-> frontier[1].depth, root |-> RootIndex])
<1>1. frontier[1] \in Expansion /\ Cursor \in 0..(N - 1) /\ 1 \in DOMAIN frontier
  BY CandidateType DEF HasCandidate, TypeOK, QueueType
<1>2. CASE frontier[1].depth = 1
  BY <1>2, RootCandidate DEF AtRoot, HasCandidate, JobGrown
<1>3. CASE frontier[1].depth # 1
  <2> DEFINE p == [name |-> frontier[1].parent, depth |-> frontier[1].depth - 1]
  <2>1. p \in [name : Name, depth : Nat] /\ frontier[1].depth = p.depth + 1
    BY <1>1 DEF Expansion
  <2>2. Grown(p)
    BY <1>1, <1>3 DEF QueueGrown, HasCandidate, Cursor
  <2>3. Candidate = Child(Cursor, p.name)
    BY DEF Candidate
  <2> QED BY <1>1, <2>1, <2>2, <2>3 DEF JobGrown
<1> QED BY <1>2, <1>3

(* The parent that a worker queues is one the contract lets the scan expand. *)
LEMMA EnqueuedGrown ==
  ASSUME TypeOK, DecideInv, [Next]_vars, NEW w \in Worker, Enqueue(w)
  PROVE  Grown([name |-> wjob[w].name, depth |-> wjob[w].depth])'
<1> USE DEF argVars, ctlVars, genVars, lossVars, markVars, dispVars, workVars, sumVars,
            stopVars, tickVars, outVars, poolVars, restVars, workEnv
<1>1. wpc \in [Worker -> WorkPcs] /\ wpc[w] = "enqueue"
  BY DEF TypeOK, WorkType, Enqueue
<1>2. UNCHANGED <<wjob, wout, tested, results, notices>> /\ wpc' = [wpc EXCEPT ![w] = "report"]
  BY DEF Enqueue
<1>3. /\ wjob[w] \in tested /\ wjob[w].depth < DepthLimit
      /\ wjob[w].name \in results \ Pruned
  BY <1>1 DEF DecideInv, Deciding
<1>4. Pruned' = Pruned
  BY <1>2 DEF Pruned
<1>5. ASSUME NEW v \in Worker, Deciding(v)' PROVE wjob'[v].name # wjob[w].name
  <2>1. v # w /\ Deciding(v) /\ Deciding(w)
    BY <1>1, <1>2, <1>5 DEF Deciding, Unsent, HitPcs
  <2> QED BY <1>2, <2>1 DEF DecideInv
<1> QED BY <1>2, <1>3, <1>4, <1>5 DEF Grown, Decided

LEMMA GrownStep ==
  Groundwork /\ DecideInv /\ GrownInv /\ [Next]_vars => GrownInv'
<1> SUFFICES ASSUME Groundwork, DecideInv, GrownInv, [Next]_vars PROVE GrownInv'
  OBVIOUS
<1> USE DEF argVars, ctlVars, genVars, lossVars, markVars, dispVars, workVars, sumVars,
            stopVars, tickVars, outVars, poolVars, restVars, workEnv
<1>0. TypeOK /\ MarkInv /\ frontier \in Seq(Expansion)
  BY DEF Groundwork, TypeOK, QueueType
<1>1. QueueGrown'
  <2>1. \A k \in DOMAIN frontier : \A p :
          /\ frontier[k].next < N /\ frontier[k].depth # 1
          /\ p = [name |-> frontier[k].parent, depth |-> frontier[k].depth - 1]
          => Grown(p)'
    BY GrownStable DEF GrownInv, QueueGrown
  <2>2. CASE UNCHANGED frontier
    BY <2>1, <2>2 DEF QueueGrown
  <2>3. CASE PopExpansion /\ frontier' = Tail(frontier)
    <3>1. frontier # <<>>
      BY <2>3 DEF PopExpansion
    <3>2. \A k \in DOMAIN frontier' :
            k + 1 \in DOMAIN frontier /\ frontier'[k] = frontier[k + 1]
      BY <1>0, <2>3, <3>1
    <3> QED BY <2>1, <3>2 DEF QueueGrown
  <2>4. CASE frontier' = <<>>
    BY <2>4 DEF QueueGrown
  <2>5. CASE HasCandidate /\ Take
    <3>1. frontier' = [frontier EXCEPT ![1] = [frontier[1] EXCEPT !.next = Cursor + 1]]
      BY <2>5 DEF Take, Cursor
    <3>2. 1 \in DOMAIN frontier /\ frontier[1] \in Expansion /\ Cursor < N
      BY <1>0, <2>5 DEF HasCandidate
    <3>3. /\ DOMAIN frontier' = DOMAIN frontier
          /\ \A k \in DOMAIN frontier : frontier'[k].next < N => frontier[k].next < N
          /\ \A k \in DOMAIN frontier :
               frontier'[k].parent = frontier[k].parent /\ frontier'[k].depth = frontier[k].depth
      BY <1>0, <3>1, <3>2 DEF Expansion, Cursor
    <3> QED BY <2>1, <3>3 DEF QueueGrown
  <2>6. ASSUME NEW w \in Worker, Enqueue(w),
               frontier' = Append(frontier,
                 [parent |-> wjob[w].name, depth |-> wjob[w].depth + 1, next |-> 0])
        PROVE  QueueGrown'
    <3> DEFINE e == [parent |-> wjob[w].name, depth |-> wjob[w].depth + 1, next |-> 0]
    <3>1. Grown([name |-> wjob[w].name, depth |-> wjob[w].depth])'
      BY <1>0, <2>6, EnqueuedGrown
    <3>2. wjob[w].depth \in Nat
      BY <1>0, HeldType
    <3>3. \A k \in DOMAIN frontier' :
            \/ k \in DOMAIN frontier /\ frontier'[k] = frontier[k]
            \/ frontier'[k] = e
      BY <1>0, <2>6
    <3>4. \A p : p = [name |-> e.parent, depth |-> e.depth - 1] => Grown(p)'
      <4>1. UNCHANGED wjob
        BY <2>6 DEF Enqueue
      <4> QED BY <3>1, <3>2, <4>1
    <3> QED BY <2>1, <3>3, <3>4 DEF QueueGrown
  <2> QED BY <1>0, <2>2, <2>3, <2>4, <2>5, <2>6, QueueMoves
<1>2. ReadyGrown'
  <2>1. CASE UNCHANGED ready
    BY <2>1, JobGrownStable DEF GrownInv, ReadyGrown
  <2>2. CASE Admit
    <3>1. /\ HasCandidate /\ ~Excluded(Candidate)
          /\ ready' = [name |-> Candidate, depth |-> frontier[1].depth, root |-> RootIndex]
      BY <2>2 DEF Admit
    <3>2. JobGrown([name |-> Candidate, depth |-> frontier[1].depth, root |-> RootIndex])
      BY <1>0, <3>1, CandidateGrown DEF GrownInv
    <3>3. PICK j : j = [name |-> Candidate, depth |-> frontier[1].depth, root |-> RootIndex]
      OBVIOUS
    <3>4. JobGrown(j)'
      BY <3>2, <3>3, JobGrownStable
    <3> QED BY <3>1, <3>3, <3>4 DEF ReadyGrown
  <2>3. CASE \E w \in Worker : Dispatch(w)
    BY <2>3 DEF Dispatch, ReadyGrown
  <2>4. CASE \E w \in Worker : Enqueue(w) \/ Complete(w)
    BY <2>1, <2>4 DEF Enqueue, Complete
  <2>5. CASE Spawn \/ (Dispatcher /\ ~Admit)
    BY <2>1, <2>5 DEF Spawn, Dispatcher, PopExpansion, HitCap, SkipDuplicate, SkipExcluded,
       NoneLeft, BeginClose, CloseJobs
  <2> QED BY <2>1, <2>2, <2>3, <2>4, <2>5, DispatcherIdle DEF Meet
<1>3. HeldGrown'
  <2>1. ASSUME NEW w \in Worker, Waiting(w)' PROVE JobGrown(wjob[w])' 
    <3>1. CASE Waiting(w) /\ wjob'[w] = wjob[w]
      <4>1. PICK j : j = wjob[w]
        OBVIOUS
      <4>2. JobGrown(j)'
        BY <3>1, <4>1, JobGrownStable DEF GrownInv, HeldGrown
      <4> QED BY <3>1, <4>1, <4>2
    <3>2. CASE Dispatch(w)
      <4>1. PICK j : j = ready
        OBVIOUS
      <4>2. JobGrown(j)' /\ wjob'[w] = j
        BY <1>0, <3>2, <4>1, JobGrownStable DEF Dispatch, GrownInv, ReadyGrown, TypeOK, WorkType
      <4> QED BY <4>2
    <3> QED BY <1>0, <2>1, <3>1, <3>2, WaitingBegins
  <2> QED BY <2>1 DEF HeldGrown
<1> QED BY <1>1, <1>2, <1>3 DEF GrownInv

-----------------------------------------------------------------------------
(* The dispatcher's end.  It closes jobs on its own accord only when it has    *)
(* nothing to hand out, nothing to generate and nobody to wait for.            *)

(* Nobody takes a cancellation back. *)
LEMMA CancelStays ==
  ASSUME TypeOK, [Next]_vars
  PROVE  cancelled => cancelled'
<1> USE DEF argVars, ctlVars, genVars, lossVars, markVars, dispVars, workVars, sumVars,
            stopVars, tickVars, outVars, poolVars, restVars, workEnv
<1>1. ASSUME NEW w \in Worker, Work(w) \/ Meet(w) PROVE cancelled => cancelled'
  <2>1. Trip(w) \/ UNCHANGED cancelled
    BY <1>1 DEF Work, Meet, Exit, Begin, Lookup, Count, CheckReliability, CountFound,
       SendResult, ProbeParent, GiveUp, Dispatch, Enqueue, Complete
  <2> QED BY <2>1 DEF Trip, TypeOK, CtlType
<1> QED BY <1>1 DEF Next, Main, Dispatcher, Ticker, Cancel, Returned, CheckScope, CheckCeiling,
   Preflight, DetectWildcard, Spawn, JoinWorkers, SendDone, Close, PopExpansion, HitCap,
   SkipDuplicate, SkipExcluded, Admit, NoneLeft, BeginClose, CloseJobs, Tick, LoadTick,
   SendProgress, StopTicker, vars

LEMMA EndsInit == Init => QueueEnds
BY DEF Init, QueueEnds, HandEmpty, SelectLate, ClosedQuiet, CapPositive

LEMMA EndsStep == TypeOK /\ ShutdownInv /\ PendingInv /\ QueueEnds /\ [Next]_vars => QueueEnds'
<1> SUFFICES ASSUME TypeOK, ShutdownInv, PendingInv, QueueEnds, [Next]_vars PROVE QueueEnds'
  OBVIOUS
<1> USE DEF argVars, ctlVars, genVars, lossVars, markVars, dispVars, workVars, sumVars,
            stopVars, tickVars, outVars, poolVars, restVars, workEnv
<1> USE DEF QueueEnds, HandEmpty, SelectLate, ClosedQuiet, CapPositive
<1>0. cancelled => cancelled'
  BY CancelStays
<1>1. CASE UNCHANGED dispVars
  <2>1. disp \in {"closing", "closed"} /\ Busy = {} => Busy' = {}
    <3> SUFFICES ASSUME disp \in {"closing", "closed"}, Busy = {} PROVE Busy' = {}
      OBVIOUS
    <3>1. CASE UNCHANGED wpc
      BY <3>1 DEF Busy
    <3>2. CASE Spawn
      BY <1>1, <3>2 DEF Spawn
    <3>3. ASSUME NEW w \in Worker, Work(w) \/ Meet(w) PROVE Busy' = {}
      <4>1. Exit(w)
        BY <3>3 DEF Busy, Meet, Dispatch, Enqueue, Complete, InSelect, Work, Begin, Lookup,
           Count, CheckReliability, Trip, CountFound, SendResult, ProbeParent, GiveUp
      <4> QED BY <4>1 DEF Exit, Goto, Busy, TypeOK, WorkType
    <3> QED BY <3>1, <3>2, <3>3, StandStill DEF Next, Main, Returned
  <2> QED BY <1>0, <1>1, <2>1
<1>2. CASE Spawn
  BY <1>2 DEF Spawn, ShutdownInv, NobodyBeforeSpawn, NotSpawned
<1>3. CASE PopExpansion \/ SkipDuplicate \/ SkipExcluded \/ NoneLeft
  BY <1>3 DEF PopExpansion, SkipDuplicate, SkipExcluded, NoneLeft, HasCandidate
<1>4. CASE HitCap
  BY <1>4 DEF HitCap, HasCandidate, CapReached
<1>5. CASE Admit
  <2>1. frontier[1].depth # 0
    BY <1>5, CandidateType DEF Admit, Expansion
  <2>2. ready'.depth = frontier[1].depth /\ disp' = "select" /\ UNCHANGED capped
    BY <1>5 DEF Admit
  <2> QED BY <2>1, <2>2 DEF NoJob
<1>6. CASE BeginClose
  <2>1. UNCHANGED <<ready, frontier, wpc, capped, cancelled>> /\ disp = "select" /\ disp' = "closing"
    BY <1>6 DEF BeginClose
  <2>2. ~cancelled => ready = NoJob /\ Busy = {}
    <3>1. ~cancelled => ready = NoJob /\ Cardinality(Busy) = 0
      BY <1>6, <2>1 DEF BeginClose, Drained, PendingInv, PendingExact
    <3>2. Busy \in SUBSET Worker
      BY DEF Busy
    <3> QED BY <3>1, <3>2, WorkersFinite, FS_EmptySet
  <2>3. Busy' = Busy
    BY <2>1 DEF Busy
  <2> QED BY <2>1, <2>2, <2>3
<1>7. CASE CloseJobs
  BY <1>7 DEF CloseJobs, Busy
<1>8. ASSUME NEW w \in Worker, Meet(w) PROVE QueueEnds'
  BY <1>8 DEF Meet, Dispatch, Enqueue, Complete, Resume, InSelect
<1> QED BY <1>1, <1>2, <1>3, <1>4, <1>5, <1>6, <1>7, <1>8, DispatcherIdle DEF Dispatcher

-----------------------------------------------------------------------------
(* The budget. *)

LEMMA BudgetInit == Init => BudgetInv
<1> SUFFICES ASSUME Init PROVE BudgetInv
  OBVIOUS
<1>1. tested = {} /\ WaitingSet = {} /\ ready = NoJob /\ admitted = 0
  BY DEF Init, WaitingSet, Waiting
<1> QED BY <1>1, FS_EmptySet DEF BudgetInv, Admitted

LEMMA BudgetStep ==
  TypeOK /\ ShutdownInv /\ NamesOnce /\ TallyInv /\ QueueEnds /\ BudgetInv /\ [Next]_vars => BudgetInv'
<1> SUFFICES ASSUME TypeOK, ShutdownInv, NamesOnce, TallyInv, QueueEnds, BudgetInv, [Next]_vars
             PROVE  BudgetInv'
  OBVIOUS
<1> USE DEF argVars, ctlVars, genVars, lossVars, markVars, dispVars, workVars, sumVars,
            stopVars, tickVars, outVars, poolVars, restVars, workEnv
<1> DEFINE Held == IF ready = NoJob THEN 0 ELSE 1
<1>0. /\ wpc \in [Worker -> WorkPcs] /\ wjob \in [Worker -> Jobs]
      /\ WaitingSet \in SUBSET Worker /\ Cardinality(WaitingSet) \in Nat
      /\ IsFiniteSet(tested) /\ Cardinality(tested) \in Nat /\ admitted \in Nat
      /\ Held \in {0, 1} /\ Admitted = Cardinality(tested) + Cardinality(WaitingSet) + Held
  BY WorkersFinite, FS_CardinalityType
  DEF TypeOK, WorkType, QueueType, WaitingSet, TallyInv, Admitted
<1>1. ASSUME UNCHANGED <<tested, ready, admitted>>, WaitingSet' = WaitingSet, cancelled => cancelled'
      PROVE  BudgetInv'
  BY <1>1 DEF BudgetInv, Admitted
<1>2. CASE UNCHANGED <<wpc, tested, ready, admitted>> /\ (cancelled => cancelled')
  BY <1>1, <1>2 DEF WaitingSet, Waiting
<1>3. CASE CheckScope \/ CheckCeiling \/ Preflight \/ DetectWildcard \/ JoinWorkers \/ SendDone
  BY <1>2, <1>3 DEF CheckScope, CheckCeiling, Preflight, DetectWildcard, JoinWorkers, SendDone
<1>4. CASE Close \/ Ticker \/ Cancel \/ UNCHANGED vars
  BY <1>2, <1>4 DEF Close, Ticker, Tick, LoadTick, SendProgress, StopTicker, Cancel, vars
<1>5. CASE Spawn
  <2>1. WaitingSet = {} /\ WaitingSet' = {}
    BY <1>5 DEF Spawn, ShutdownInv, NobodyBeforeSpawn, NotSpawned, WaitingSet, Waiting
  <2> QED BY <1>1, <1>5, <2>1 DEF Spawn
<1>6. CASE Dispatcher /\ ~Admit
  BY <1>2, <1>6 DEF Dispatcher, PopExpansion, HitCap, SkipDuplicate, SkipExcluded, NoneLeft,
     BeginClose, CloseJobs
<1>7. CASE Admit
  <2>1. frontier[1].depth # 0
    BY <1>7, CandidateType DEF Admit, Expansion
  <2>2. /\ ready'.depth = frontier[1].depth /\ disp = "next" /\ admitted' = admitted + 1
        /\ UNCHANGED <<tested, wpc, cancelled>>
    BY <1>7 DEF Admit, HasCandidate
  <2>3. ready = NoJob /\ ready' # NoJob
    BY <2>1, <2>2 DEF NoJob, QueueEnds, HandEmpty
  <2>4. Admitted' = Admitted + 1
    <3>1. WaitingSet' = WaitingSet
      BY <2>2 DEF WaitingSet, Waiting
    <3> QED BY <1>0, <2>2, <2>3, <3>1 DEF Admitted
  <2> QED BY <1>0, <2>2, <2>4 DEF BudgetInv
<1>8. ASSUME NEW w \in Worker, Dispatch(w) PROVE BudgetInv'
  <2>1. /\ ready # NoJob /\ ready' = NoJob /\ UNCHANGED <<tested, admitted, cancelled>>
        /\ wpc[w] = "recv" /\ wpc' = [wpc EXCEPT ![w] = "begin"]
    BY <1>8 DEF Dispatch
  <2>2. w \notin WaitingSet /\ WaitingSet' = WaitingSet \cup {w}
    BY <1>0, <2>1 DEF WaitingSet, Waiting
  <2>3. Admitted' = Admitted
    BY <1>0, <2>1, <2>2, OneWorkerMore DEF Admitted
  <2> QED BY <2>1, <2>3 DEF BudgetInv
<1>9. ASSUME NEW w \in Worker, Enqueue(w) \/ Complete(w) PROVE BudgetInv'
  <2>1. /\ wpc[w] \in {"enqueue", "report"} /\ UNCHANGED <<tested, ready, admitted, cancelled>>
        /\ \E pc \in {"report", "recv"} : wpc' = [wpc EXCEPT ![w] = pc]
    BY <1>9 DEF Enqueue, Complete
  <2>2. WaitingSet' = WaitingSet
    BY <1>0, <2>1 DEF WaitingSet, Waiting
  <2> QED BY <1>1, <2>1, <2>2
<1>10. ASSUME NEW w \in Worker, Work(w) PROVE BudgetInv'
  <2>1. UNCHANGED <<ready, admitted>> /\ (cancelled => cancelled')
    <3>1. UNCHANGED <<ready, admitted>> /\ (Trip(w) \/ UNCHANGED cancelled)
      BY <1>10 DEF Work, Exit, Begin, Lookup, Count, CheckReliability, Trip, CountFound,
         SendResult, ProbeParent, GiveUp
    <3> QED BY <3>1 DEF Trip, TypeOK, CtlType
  <2>2. \A v \in Worker : v # w => (v \in WaitingSet' <=> v \in WaitingSet)
    BY <1>10, WorkerMoves DEF OthersStay, WaitingSet, Waiting
  <2>3. ~Dispatch(w)
    BY <1>10 DEF Dispatch, Work, Exit, Begin, Lookup, Count, CheckReliability, Trip, CountFound,
       SendResult, ProbeParent, GiveUp, InSelect
  <2>4. Waiting(w)' => Waiting(w)
    BY <2>3, WaitingBegins
  <2>5. tested' = tested \/ (Lookup(w) /\ tested' = tested \cup {wjob[w]})
    BY <1>10, WorkerMoves
  <2>6. CASE tested' = tested \cup {wjob[w]} /\ Lookup(w) /\ tested' # tested
    <3>1. wjob[w] \notin tested /\ w \in WaitingSet
      BY <2>6 DEF Lookup, NamesOnce, Waiting, Fresh, WaitingSet
    <3>2. ~Waiting(w)'
      <4>1. wpc' = [wpc EXCEPT ![w] = "report"] \/ wpc' = [wpc EXCEPT ![w] = "count"]
        BY <2>6 DEF Lookup, Goto
      <4> QED BY <1>0, <4>1 DEF Waiting
    <3>3. WaitingSet' = WaitingSet \ {w}
      BY <2>2, <3>2 DEF WaitingSet
    <3>4. Cardinality(tested') = Cardinality(tested) + 1
      BY <1>0, <2>6, <3>1, FS_AddElement
    <3>5. Cardinality(WaitingSet') = Cardinality(WaitingSet) - 1
      BY <1>0, <3>1, <3>3, OneWorkerLess
    <3>6. Admitted' = Admitted
      BY <1>0, <2>1, <3>4, <3>5 DEF Admitted
    <3> QED BY <2>1, <3>6 DEF BudgetInv
  <2>7. CASE tested' = tested /\ (Waiting(w)' <=> Waiting(w))
    <3>1. WaitingSet' = WaitingSet
      BY <2>2, <2>7 DEF WaitingSet
    <3> QED BY <1>1, <2>1, <2>7, <3>1
  <2>8. CASE tested' = tested /\ Waiting(w) /\ ~Waiting(w)'
    <3>1. cancelled
      <4>1. wjob[w] \notin tested
        BY <2>8 DEF NamesOnce, Fresh
      <4> QED BY <2>8, <4>1, WaitingEnds
    <3>2. WaitingSet' = WaitingSet \ {w} /\ w \in WaitingSet
      BY <2>2, <2>8 DEF WaitingSet
    <3>3. Cardinality(WaitingSet') = Cardinality(WaitingSet) - 1
      BY <1>0, <3>2, OneWorkerLess
    <3>4. Admitted' = Admitted - 1
      BY <1>0, <2>1, <2>8, <3>3 DEF Admitted
    <3> QED BY <1>0, <2>1, <3>1, <3>4 DEF BudgetInv
  <2> QED BY <2>4, <2>5, <2>6, <2>7, <2>8
<1> QED BY <1>3, <1>4, <1>5, <1>6, <1>7, <1>8, <1>9, <1>10 DEF Next, Main, Returned, Meet

-----------------------------------------------------------------------------
(* No candidate is lost. *)

(* What lies below an excluded name is excluded. *)
LEMMA SubtreeBelow ==
  ASSUME NEW e \in Name, NEW p \in Name, e # <<>>, SubtreeExcluded(p)
  PROVE  Excluded(e \o p)
<1>1. PICK k \in 0..Len(p) : SubSeq(p, k + 1, Len(p)) \in TreeScope
  BY DEF SubtreeExcluded
<1>2. /\ Tail(e) \in Seq(Label) /\ Len(Tail(e)) = Len(e) - 1
      /\ Len(e) \in Nat /\ Len(e) > 0 /\ Len(p) \in Nat
      /\ e \o p # <<>> /\ Tail(e \o p) = Tail(e) \o p
  <2>1. /\ e \o p \in Seq(Label) /\ e \in Seq(Label) /\ p \in Seq(Label)
        /\ Len(e) \in Nat /\ Len(e) > 0 /\ Len(p) \in Nat /\ Len(e \o p) = Len(e) + Len(p)
    BY DEF Name
  <2>2. Tail(e) \in Seq(Label) /\ Len(Tail(e)) = Len(e) - 1
    BY <2>1
  <2>3. Tail(e \o p) = Tail(e) \o p
    BY <2>1, <2>2
  <2> QED BY <2>1, <2>2, <2>3
<1> DEFINE q == Tail(e) \o p
           m == Len(e) - 1 + k
<1>3. Len(q) = Len(e) - 1 + Len(p) /\ m \in 0..Len(q)
  BY <1>2 DEF Name
<1>4. SubSeq(q, m + 1, Len(q)) = SubSeq(p, k + 1, Len(p))
  <2>1. CASE k = Len(p)
    BY <1>2, <1>3, <2>1 DEF Name
  <2>2. CASE k < Len(p)
    <3>1. m + 1 \in Len(Tail(e)) + 1 .. Len(Tail(e)) + Len(p)
      BY <1>2, <2>2
    <3>2. Len(q) \in Len(Tail(e)) + 1 .. Len(Tail(e)) + Len(p)
      BY <1>2, <1>3, <2>2
    <3>3. SubSeq(q, m + 1, Len(q)) = SubSeq(p, m + 1 - Len(Tail(e)), Len(q) - Len(Tail(e)))
      BY <1>2, <3>1, <3>2, SubSeqOfConcat2 DEF Name
    <3>4. m + 1 - Len(Tail(e)) = k + 1 /\ Len(q) - Len(Tail(e)) = Len(p)
      BY <1>2, <1>3
    <3> QED BY <3>3, <3>4
  <2> QED BY <2>1, <2>2
<1>5. SubtreeExcluded(q)
  BY <1>1, <1>3, <1>4 DEF SubtreeExcluded
<1> QED BY <1>2, <1>5 DEF Excluded

(* A name is generated by the dispatcher alone. *)
LEMMA VisitedMoves ==
  ASSUME [Next]_vars
  PROVE  UNCHANGED visited \/ ((Admit \/ SkipExcluded) /\ visited' = visited \cup {Candidate})
<1> USE DEF genVars, dispVars
<1>1. CASE UNCHANGED dispVars
  BY <1>1
<1>2. CASE Spawn \/ PopExpansion \/ HitCap \/ SkipDuplicate \/ NoneLeft \/ BeginClose \/ CloseJobs
  BY <1>2 DEF Spawn, PopExpansion, HitCap, SkipDuplicate, NoneLeft, BeginClose, CloseJobs
<1>3. CASE Admit \/ SkipExcluded
  BY <1>3 DEF Admit, SkipExcluded
<1>4. ASSUME NEW w \in Worker, Meet(w) PROVE UNCHANGED visited
  BY <1>4 DEF Meet, Dispatch, Enqueue, Complete
<1> QED BY <1>1, <1>2, <1>3, <1>4, DispatcherIdle DEF Dispatcher

(* And so is the job to hand out next, which a worker takes from it. *)
LEMMA ReadyMoves ==
  ASSUME [Next]_vars
  PROVE  \/ UNCHANGED ready
         \/ Admit /\ ready' = [name |-> Candidate, depth |-> frontier[1].depth, root |-> RootIndex]
         \/ \E w \in Worker : Dispatch(w)
<1> USE DEF genVars, dispVars
<1>1. CASE UNCHANGED dispVars
  BY <1>1
<1>2. CASE Spawn \/ (Dispatcher /\ ~Admit)
  BY <1>2 DEF Spawn, Dispatcher, PopExpansion, HitCap, SkipDuplicate, SkipExcluded, NoneLeft,
     BeginClose, CloseJobs
<1>3. CASE Admit
  BY <1>3 DEF Admit
<1>4. ASSUME NEW w \in Worker, Enqueue(w) \/ Complete(w) PROVE UNCHANGED ready
  BY <1>4 DEF Enqueue, Complete
<1> QED BY <1>1, <1>2, <1>3, <1>4, DispatcherIdle DEF Meet

(* A child stays owed until the dispatcher generates it. *)
LEMMA OwedStable ==
  ASSUME TypeOK, [Next]_vars, ~capped', NEW p, NEW i \in 0..(N - 1), Owed(p, i)
  PROVE  Owed(p, i)'
<1> USE DEF argVars, ctlVars, genVars, lossVars, markVars, dispVars, workVars, sumVars,
            stopVars, tickVars, outVars, poolVars, restVars, workEnv
<1>0. frontier \in Seq(Expansion) /\ N \in Nat
  BY ConstantTypes DEF TypeOK, QueueType
<1>1. visited \subseteq visited'
  BY VisitedMoves
<1>2. CASE Excluded(Child(i, p)) \/ Child(i, p) \in visited
  BY <1>1, <1>2 DEF Owed
<1>3. ASSUME NEW k \in DOMAIN frontier, frontier[k].parent = p, frontier[k].next <= i
      PROVE  Owed(p, i)'
  <2>1. CASE UNCHANGED frontier
    BY <1>3, <2>1 DEF Owed
  <2>2. CASE PopExpansion /\ frontier' = Tail(frontier)
    <3>1. frontier # <<>> /\ frontier[1].next = N
      BY <2>2 DEF PopExpansion, Cursor
    <3>2. k # 1
      BY <1>0, <1>3, <3>1
    <3>3. k - 1 \in DOMAIN frontier' /\ frontier'[k - 1] = frontier[k]
      BY <1>0, <2>2, <3>1, <3>2
    <3> QED BY <1>3, <3>3 DEF Owed
  <2>3. CASE HitCap
    BY <2>3 DEF HitCap
  <2>4. CASE HasCandidate /\ Take
    <3>1. frontier' = [frontier EXCEPT ![1] = [frontier[1] EXCEPT !.next = Cursor + 1]]
      BY <2>4 DEF Take, Cursor
    <3>2. 1 \in DOMAIN frontier /\ frontier[1] \in Expansion /\ Cursor \in 0..(N - 1)
      BY <1>0, <2>4, CandidateType DEF HasCandidate
    <3>3. k # 1 => frontier'[k] = frontier[k] /\ k \in DOMAIN frontier'
      BY <1>0, <3>1, <3>2
    <3>4. CASE k # 1
      BY <1>3, <3>3, <3>4 DEF Owed
    <3>5. CASE k = 1 /\ Cursor < i
      <4>1. /\ 1 \in DOMAIN frontier' /\ frontier'[1].parent = p
            /\ frontier'[1].next = Cursor + 1
        BY <1>0, <1>3, <3>1, <3>2, <3>5 DEF Expansion
      <4>2. Cursor + 1 <= i
        BY <3>2, <3>5
      <4> QED BY <4>1, <4>2 DEF Owed
    <3>6. CASE k = 1 /\ Cursor = i
      <4>1. Candidate = Child(i, p)
        BY <1>3, <3>6 DEF Candidate
      <4>2. Candidate \in visited'
        <5>1. Admit \/ SkipExcluded \/ SkipDuplicate
          <6>1. ~UNCHANGED frontier /\ disp = "next"
            <7>1. frontier'[1].next = Cursor + 1
              BY <1>0, <3>1, <3>2 DEF Expansion
            <7> QED BY <2>4, <3>2, <7>1 DEF Cursor, HasCandidate
          <6>2. ~Spawn /\ \A w \in Worker : ~Meet(w)
            BY <6>1 DEF Spawn, Meet, Dispatch, Enqueue, Complete, InSelect
          <6>3. Dispatcher
            BY <6>1, <6>2, DispatcherIdle
          <6> QED BY <1>0, <2>4, <6>1, <6>3 DEF Dispatcher, PopExpansion, HitCap, NoneLeft,
                     BeginClose, CloseJobs, HasCandidate
        <5> QED BY <5>1 DEF Admit, SkipExcluded, SkipDuplicate
      <4> QED BY <4>1, <4>2 DEF Owed
    <3> QED BY <1>0, <1>3, <3>2, <3>4, <3>5, <3>6 DEF Cursor, Expansion
  <2>5. ASSUME NEW e, frontier' = Append(frontier, e) PROVE Owed(p, i)'
    <3>1. k \in DOMAIN frontier' /\ frontier'[k] = frontier[k]
      BY <1>0, <1>3, <2>5
    <3> QED BY <1>3, <3>1 DEF Owed
  <2> QED BY <2>1, <2>2, <2>3, <2>4, <2>5, QueueMoves
<1> QED BY <1>2, <1>3 DEF Owed

LEMMA CompleteInit == Init => CompleteInv
<1> SUFFICES ASSUME Init PROVE CompleteInv
  OBVIOUS
<1> DEFINE root == [parent |-> <<>>, depth |-> 1, next |-> Start]
<1>1. frontier = <<root>> \o ResumeExpansions /\ tested = {} /\ visited = {}
  BY DEF Init
<1>2. /\ frontier[1] = root /\ DOMAIN frontier = 1..(1 + Len(ResumeExpansions))
      /\ Len(ResumeExpansions) \in Nat /\ DOMAIN ResumeExpansions = 1..Len(ResumeExpansions)
      /\ \A k \in 1..Len(ResumeExpansions) : frontier[k + 1] = ResumeExpansions[k]
  BY <1>1, ConstantTypes
<1>3. RootsOwed
  <2>1. 1 \in DOMAIN frontier /\ frontier[1].parent = <<>> /\ frontier[1].next = Start
    BY <1>2
  <2> QED BY <2>1, ConstantTypes DEF RootsOwed, Owed
<1>4. ASSUME NEW p, Grown(p), NEW i \in 0..(N - 1) PROVE Owed(p.name, i)
  <2>1. PICK k \in DOMAIN ResumeExpansions :
          /\ Expandable(ResumeParents[k]) /\ p.name = ResumeExpansions[k].parent
    BY <1>1, <1>4 DEF Grown, ResumedParents
  <2>2. ResumeExpansions[k].next = 0
    BY <2>1 DEF ResumeExpansions
  <2>3. k + 1 \in DOMAIN frontier /\ frontier[k + 1] = ResumeExpansions[k]
    BY <1>2, <2>1
  <2> QED BY <2>1, <2>2, <2>3, ConstantTypes DEF Owed
<1> QED BY <1>1, <1>3, <1>4, EndsInit DEF CompleteInv, ChildrenOwed, VisitedHeld

LEMMA CompleteStep ==
  Groundwork /\ DecideInv /\ CompleteInv /\ [Next]_vars => CompleteInv'
<1> SUFFICES ASSUME Groundwork, DecideInv, CompleteInv, [Next]_vars PROVE CompleteInv'
  OBVIOUS
<1>0. /\ TypeOK /\ ShutdownInv /\ PendingInv /\ QueueEnds /\ NamesOnce
      /\ visited \subseteq visited' /\ (cancelled => cancelled')
  BY VisitedMoves, CancelStays DEF Groundwork, TotalsInv, CompleteInv
<1>00. ~capped' => ~capped
  BY <1>0, DispatcherIdle DEF Spawn, Dispatcher, PopExpansion, HitCap, SkipDuplicate, SkipExcluded,
     Admit, NoneLeft, BeginClose, CloseJobs, Meet, Dispatch, Enqueue, Complete, genVars, dispVars,
     TypeOK, QueueType
<1>1. RootsOwed'
  <2>1. \A i \in Start..(N - 1) : i \in 0..(N - 1)
    BY ConstantTypes
  <2> QED BY <1>0, <1>00, <2>1, OwedStable DEF CompleteInv, RootsOwed
<1>2. ASSUME ~capped', ~cancelled', NEW p, Grown(p)', NEW i \in 0..(N - 1) PROVE Owed(p.name, i)'
  <2>1. CASE Grown(p)
    <3>1. Owed(p.name, i)
      BY <1>0, <1>00, <1>2, <2>1 DEF CompleteInv, ChildrenOwed
    <3> QED BY <1>0, <1>2, <3>1, OwedStable
  <2>2. ASSUME NEW w \in Worker, Enqueue(w), p.name = wjob[w].name PROVE Owed(p.name, i)'
    <3>1. frontier \in Seq(Expansion) /\ wjob[w].name \in Name /\ wjob[w].name \in visited
      <4>1. wjob[w] \in tested
        BY <2>2 DEF DecideInv, Enqueue
      <4> QED BY <1>0, <4>1, HeldType DEF NamesOnce, TypeOK, QueueType
    <3>2. CASE SubtreeExcluded(wjob[w].name)
      <4>1. Entries[i + 1] \in Name
        BY ScanAssumption DEF ScanAssumption, N
      <4>2. CASE Entries[i + 1] = <<>>
        <5>1. Child(i, p.name) = p.name
          BY <2>2, <3>1, <4>2 DEF Child, Name
        <5> QED BY <1>0, <2>2, <3>1, <5>1 DEF Owed
      <4>3. CASE Entries[i + 1] # <<>>
        <5>1. Excluded(Child(i, p.name))
          BY <2>2, <3>1, <3>2, <4>1, <4>3, SubtreeBelow DEF Child
        <5> QED BY <5>1 DEF Owed
      <4> QED BY <4>2, <4>3
    <3>3. CASE ~SubtreeExcluded(wjob[w].name)
      <4> DEFINE e == [parent |-> wjob[w].name, depth |-> wjob[w].depth + 1, next |-> 0]
                 k == Len(frontier) + 1
      <4>1. frontier' = Append(frontier, e)
        BY <1>00, <1>2, <2>2, <3>3 DEF Enqueue
      <4>2. k \in DOMAIN frontier' /\ frontier'[k] = e
        BY <3>1, <4>1
      <4>3. frontier'[k].parent = p.name /\ frontier'[k].next <= i
        BY <2>2, <4>2
      <4> QED BY <4>2, <4>3 DEF Owed
    <3> QED BY <3>2, <3>3
  <2> QED BY <1>0, <1>2, <2>1, <2>2, NewlyGrown
<1>3. ASSUME ~cancelled', NEW n \in visited'
      PROVE  \/ Excluded(n) \/ n \in TestedNames'
             \/ ready' # NoJob /\ ready'.name = n
             \/ \E w \in Worker : Waiting(w)' /\ wjob'[w].name = n
  <2>1. ~cancelled /\ TestedNames \subseteq TestedNames'
    BY <1>0, <1>3, HistoryGrows DEF TestedNames
  <2>2. CASE n \notin visited
    <3>1. (Admit \/ SkipExcluded) /\ n = Candidate
      BY <1>3, <2>2, VisitedMoves
    <3>2. CASE SkipExcluded
      BY <3>1, <3>2 DEF SkipExcluded
    <3>3. CASE Admit
      <4>1. frontier[1].depth # 0
        BY <1>0, <3>3, CandidateType DEF Admit, Expansion
      <4>2. ready'.depth = frontier[1].depth /\ ready'.name = n
        BY <3>1, <3>3 DEF Admit
      <4> QED BY <4>1, <4>2 DEF NoJob
    <3> QED BY <3>1, <3>2, <3>3
  <2>3. CASE Excluded(n) \/ n \in TestedNames
    BY <2>1, <2>3
  <2>4. CASE ready # NoJob /\ ready.name = n
    <3>1. ~Admit
      BY <1>0, <2>4 DEF Admit, HasCandidate, QueueEnds, HandEmpty
    <3>2. ASSUME NEW w \in Worker, Dispatch(w) PROVE Waiting(w)' /\ wjob'[w].name = n
      BY <1>0, <2>4, <3>2 DEF Dispatch, Waiting, TypeOK, WorkType
    <3> QED BY <2>4, <3>1, <3>2, ReadyMoves
  <2>5. ASSUME NEW w \in Worker, Waiting(w), wjob[w].name = n
        PROVE  n \in TestedNames' \/ (Waiting(w)' /\ wjob'[w].name = n)
    <3>1. CASE ~Waiting(w)'
      BY <1>0, <2>1, <2>5, <3>1, WaitingEnds DEF TestedNames
    <3>2. CASE Waiting(w)'
      BY <1>0, <2>5, <3>2, WaitingBegins DEF Dispatch, Waiting
    <3> QED BY <3>1, <3>2
  <2> QED BY <2>1, <2>2, <2>3, <2>4, <2>5 DEF CompleteInv, VisitedHeld
<1>4. QueueEnds'
  BY <1>0, EndsStep
<1> QED BY <1>1, <1>2, <1>3, <1>4 DEF CompleteInv, ChildrenOwed, VisitedHeld

-----------------------------------------------------------------------------
(* The refinement: every step of the engine, seen through the mapping of       *)
(* ScanProps, is a step of the contract or leaves its variables alone.         *)

TestedPairs == {[name |-> j.name, depth |-> j.depth] : j \in tested}
Hits ==
  results \cup {wjob[w].name : w \in {v \in Worker : wout[v] = "found" /\ wpc[v] \in HitPcs}}
IsCut == cancelled \/ main = "stopped" \/ (done # <<>> /\ done[1].stopped)
IsOver == done # <<>>

EngineInv == Groundwork /\ DecideInv /\ GrownInv /\ BudgetInv /\ CompleteInv

LEMMA EngineInit == Init => EngineInv
<1>1. Init => TypeOK /\ ShutdownInv /\ PendingInv /\ CapInv /\ MarkInv
  BY InitType, ShutdownInit, PendingInit, CapInit, MarkInit
<1>2. Init => FinalTotals
  BY DEF Init, FinalTotals, Over
<1>3. Init => TotalsInv
  BY <1>2, NamesInit, TallyInit, GuardInit DEF TotalsInv
<1> QED BY <1>1, <1>3, DecideInit, GrownInit, BudgetInit, CompleteInit DEF EngineInv, Groundwork

LEMMA EngineStep == EngineInv /\ [Next]_vars => EngineInv'
<1> SUFFICES ASSUME EngineInv, [Next]_vars PROVE EngineInv'
  OBVIOUS
<1>1. TypeOK' /\ ShutdownInv' /\ PendingInv' /\ CapInv' /\ MarkInv'
  BY StepType, ShutdownStep, PendingStep, CapStep, MarkStep DEF EngineInv, Groundwork
<1>2. TotalsInv'
  BY NamesStep, TallyStep, GuardStep, FinalStep DEF EngineInv, Groundwork, TotalsInv
<1>3. DecideInv' /\ GrownInv' /\ CompleteInv'
  BY DecideStep, GrownStep, CompleteStep DEF EngineInv
<1>4. BudgetInv'
  BY BudgetStep DEF EngineInv, Groundwork, TotalsInv, CompleteInv
<1> QED BY <1>1, <1>2, <1>3, <1>4 DEF EngineInv, Groundwork

(* The contract counts as the engine does: it names the same Cardinality. *)
LEMMA SameCardinality ==
  ASSUME NEW S
  PROVE  Contract!Cardinality(S) = Cardinality(S)
BY DEF Contract!Cardinality, Cardinality

LEMMA CutOrNothing ==
  ASSUME UNCHANGED <<TestedPairs, Hits, results, Pruned, stats["failed"], IsOver>>,
         IsCut \in BOOLEAN, IsCut' \in BOOLEAN, IsCut => IsCut'
  PROVE  [Contract!Next]_(Contract!vars)
<1>1. CASE IsCut'
  <2>1. Contract!Cut
    BY <1>1 DEF Contract!Cut, TestedPairs, Hits, Pruned, IsOver, IsCut
  <2> QED BY <2>1 DEF Contract!Next
<1>2. CASE ~IsCut'
  BY <1>2 DEF Contract!vars, TestedPairs, Hits, Pruned, IsOver, IsCut
<1> QED BY <1>1, <1>2

LEMMA HitsFrame ==
  ASSUME UNCHANGED results,
         \A v \in Worker : (Unsent(v)' <=> Unsent(v)) /\ (Unsent(v) => wjob'[v] = wjob[v])
  PROVE  Hits' = Hits
<1>1. {wjob[w].name : w \in {v \in Worker : wout[v] = "found" /\ wpc[v] \in HitPcs}}
        = {wjob[w].name : w \in {v \in Worker : wout[v] = "found" /\ wpc[v] \in HitPcs}}'
  BY DEF Unsent
<1> QED BY <1>1 DEF Hits

(* As far as the caller is concerned two pairs are as many as their jobs. *)
LEMMA PairsAsTested ==
  ASSUME TypeOK, TallyInv
  PROVE  Cardinality(TestedPairs) = Cardinality(tested) /\ IsFiniteSet(TestedPairs)
<1> DEFINE pair == [j \in tested |-> [name |-> j.name, depth |-> j.depth]]
<1>1. pair \in Surjection(tested, TestedPairs)
  BY DEF Surjection, TestedPairs
<1>2. pair \in Injection(tested, TestedPairs)
  <2>1. \A i, j \in tested : pair[i] = pair[j] => i = j
    BY TestedNameOnce
  <2>2. pair \in [tested -> TestedPairs]
    BY DEF TestedPairs
  <2> QED BY <2>1, <2>2 DEF Injection, IsInjective
<1>3. pair \in Bijection(tested, TestedPairs)
  BY <1>1, <1>2 DEF Bijection
<1>4. ExistsBijection(tested, TestedPairs) /\ IsFiniteSet(tested)
  BY <1>3 DEF ExistsBijection, TallyInv
<1> QED BY <1>4, FS_Bijection

(* Workers only work while the scan is on. *)
LEMMA StillOn ==
  ASSUME EngineInv, NEW w \in Worker, wpc[w] \notin {"off", "exited"}
  PROVE  ~IsOver /\ (IsCut <=> cancelled)
<1>1. main \notin NotSpawned /\ main \notin Over
  BY DEF EngineInv, Groundwork, ShutdownInv, NobodyBeforeSpawn, NobodyOutlivesRun, Over
<1>2. done = <<>>
  BY <1>1 DEF EngineInv, Groundwork, ShutdownInv, DoneAtEnd
<1> QED BY <1>1, <1>2 DEF IsOver, IsCut, NotSpawned

(* The job of a worker about to hear an answer is an open candidate. *)
LEMMA WaitingOpen ==
  ASSUME EngineInv, NEW w \in Worker, Waiting(w)
  PROVE  /\ [name |-> wjob[w].name, depth |-> wjob[w].depth] \in Contract!Open
         /\ MaxQueries > 0 => Cardinality(TestedPairs) < MaxQueries
<1> DEFINE c == [name |-> wjob[w].name, depth |-> wjob[w].depth]
<1>0. TypeOK /\ TallyInv /\ NamesOnce /\ JobGrown(wjob[w]) /\ N \in Nat /\ Start \in 0..N
  BY ConstantTypes DEF EngineInv, Groundwork, TotalsInv, GrownInv, HeldGrown
<1>1. \A t \in TestedPairs : t.name # c.name
  BY <1>0 DEF NamesOnce, Fresh, TestedPairs
<1>2. c \in Contract!Candidates
  <2>1. CASE wjob[w].depth = 1 /\ \E i \in Start..(N - 1) : wjob[w].name = Entry(i)
    BY <1>0, <2>1 DEF Contract!Candidates, JobGrown, Entry
  <2>2. ASSUME NEW p \in [name : Name, depth : Nat], NEW i \in 0..(N - 1), Grown(p),
               wjob[w].depth = p.depth + 1, wjob[w].name = Child(i, p.name)
        PROVE  c \in Contract!Candidates
    <3>1. p \in Contract!Parents
      <4>1. CASE p \in ResumedParents
        BY <4>1 DEF Contract!Parents
      <4>2. ASSUME NEW t \in tested, p = [name |-> t.name, depth |-> t.depth],
                   t.depth < DepthLimit, t.name \in results \ Pruned
            PROVE  p \in Contract!Parents
        BY <4>2 DEF Contract!Parents, DepthLimit, Pruned
      <4> QED BY <2>2, <4>1, <4>2 DEF Grown
    <3>2. c.name \in InScopeChildren(p.name)
      BY <1>0, <2>2 DEF JobGrown, InScopeChildren
    <3>3. c \in {[name |-> n, depth |-> p.depth + 1] : n \in InScopeChildren(p.name)}
      BY <2>2, <3>2
    <3> QED BY <3>1, <3>3 DEF Contract!Candidates
  <2> QED BY <1>0, <2>1, <2>2 DEF JobGrown
<1>3. MaxQueries > 0 => Cardinality(TestedPairs) < MaxQueries
  <2>1. w \in WaitingSet /\ WaitingSet \in SUBSET Worker
    BY DEF WaitingSet
  <2>2. Cardinality(WaitingSet) \in Nat /\ Cardinality(WaitingSet) # 0
    BY <2>1, WorkersFinite, FS_EmptySet
  <2>3. Cardinality(tested) < admitted
    <3>1. Cardinality(tested) \in Nat /\ admitted \in Nat /\ Admitted <= admitted
      BY <1>0, FS_CardinalityType DEF TallyInv, TypeOK, QueueType, EngineInv, BudgetInv
    <3> QED BY <2>2, <3>1 DEF Admitted
  <2>4. MaxQueries > 0 => admitted <= MaxQueries
    BY DEF EngineInv, Groundwork, CapInv, BudgetKept
  <2>5. Cardinality(tested) \in Nat /\ admitted \in Nat /\ MaxQueries \in Nat
    BY <1>0, FS_CardinalityType, ScanAssumption
    DEF TallyInv, TypeOK, QueueType, ScanAssumption
  <2> QED BY <1>0, <2>3, <2>4, <2>5, PairsAsTested
<1> QED BY <1>1, <1>2, <1>3 DEF Contract!Open, TestedPairs

(* A lookup counted is a test, one cut short is nothing to the caller. *)
LEMMA TestStep ==
  ASSUME EngineInv, [Next]_vars, NEW w \in Worker, Lookup(w)
  PROVE  [Contract!Next]_(Contract!vars)
<1> USE DEF argVars, ctlVars, genVars, lossVars, markVars, dispVars, workVars, sumVars,
            stopVars, tickVars, outVars, poolVars, restVars, workEnv
<1> DEFINE c == [name |-> wjob[w].name, depth |-> wjob[w].depth]
<1>0. /\ TypeOK /\ Waiting(w) /\ wpc[w] = "lookup" /\ ~IsOver /\ (IsCut <=> cancelled)
      /\ wpc \in [Worker -> WorkPcs] /\ wout \in [Worker -> Counted \cup {"cut"}]
      /\ stats \in [Counted -> Nat]
  <2>1. Waiting(w) /\ wpc[w] = "lookup"
    BY DEF Lookup, Waiting
  <2> QED BY <2>1, StillOn DEF EngineInv, Groundwork, TypeOK, WorkType, CountType
<1>1. UNCHANGED <<wjob, results, notices, cancelled, main, done>>
  BY DEF Lookup
<1>2. Pruned' = Pruned /\ IsCut' = IsCut /\ IsOver' = IsOver
  BY <1>1 DEF Pruned, IsCut, IsOver
<1>3. \A v \in Worker : v # w => wpc'[v] = wpc[v] /\ wout'[v] = wout[v]
  BY <1>0, WorkerMoves DEF OthersStay, Work
<1>4. PICK o \in Outcomes : /\ o = "canceled" => cancelled
                            /\ \E v \in Verdicts(o) :
                                 /\ wout' = [wout EXCEPT ![w] = v]
                                 /\ IF v = "cut"
                                    THEN Goto(w, "report") /\ UNCHANGED <<stats, tested>>
                                    ELSE /\ stats' = [stats EXCEPT ![v] = @ + 1]
                                         /\ tested' = tested \cup {wjob[w]}
                                         /\ Goto(w, "count")
  BY DEF Lookup
<1>5. PICK v \in Verdicts(o) :
        /\ wout' = [wout EXCEPT ![w] = v]
        /\ IF v = "cut"
           THEN Goto(w, "report") /\ UNCHANGED <<stats, tested>>
           ELSE /\ stats' = [stats EXCEPT ![v] = @ + 1]
                /\ tested' = tested \cup {wjob[w]}
                /\ Goto(w, "count")
  BY <1>4
<1>6. CASE v = "cut"
  <2>1. wpc'[w] = "report" /\ UNCHANGED <<stats, tested>>
    BY <1>0, <1>5, <1>6 DEF Goto
  <2>2. \A u \in Worker : (Unsent(u)' <=> Unsent(u)) /\ wjob'[u] = wjob[u]
    BY <1>0, <1>1, <1>3, <2>1 DEF Unsent, HitPcs
  <2>3. Hits' = Hits
    BY <1>1, <2>2, HitsFrame
  <2>4. TestedPairs' = TestedPairs
    BY <2>1 DEF TestedPairs
  <2> QED BY <1>1, <1>2, <2>1, <2>3, <2>4
          DEF Contract!vars, TestedPairs, Hits, Pruned, IsCut, IsOver
<1>7. CASE v # "cut"
  <2>1. /\ wout'[w] = v /\ wpc'[w] = "count" /\ stats' = [stats EXCEPT ![v] = @ + 1]
        /\ tested' = tested \cup {wjob[w]}
    BY <1>0, <1>5, <1>7 DEF Goto
  <2>2. v \in Counted /\ (v = "failed" => ~cancelled)
    BY <1>4, <1>5, <1>7 DEF Verdicts, Outcomes, Counted
  <2>3. TestedPairs' = TestedPairs \cup {c}
    BY <2>1 DEF TestedPairs
  <2>4. Hits' = IF v = "found" THEN Hits \cup {c.name} ELSE Hits
    <3>1. {u \in Worker : wout[u] = "found" /\ wpc[u] \in HitPcs}' =
            IF v = "found" THEN {u \in Worker : wout[u] = "found" /\ wpc[u] \in HitPcs} \cup {w}
            ELSE {u \in Worker : wout[u] = "found" /\ wpc[u] \in HitPcs}
      BY <1>0, <1>3, <2>1 DEF HitPcs
    <3> QED BY <1>1, <3>1 DEF Hits
  <2>5. stats'["failed"] = IF v = "failed" THEN stats["failed"] + 1 ELSE stats["failed"]
    BY <1>0, <2>1, <2>2 DEF Counted
  <2>6. \/ Hits' \in {Hits, Hits \cup {c.name}} /\ stats'["failed"] = stats["failed"]
        \/ ~IsCut /\ stats'["failed"] = stats["failed"] + 1 /\ Hits' = Hits
    BY <1>0, <2>2, <2>4, <2>5
  <2>7. c \in Contract!Open /\ (MaxQueries > 0 => Cardinality(TestedPairs) < MaxQueries)
    BY <1>0, WaitingOpen
  <2>8. \E d \in Contract!Open :
          /\ TestedPairs' = TestedPairs \cup {d}
          /\ \/ Hits' \in {Hits, Hits \cup {d.name}} /\ UNCHANGED stats["failed"]
             \/ ~IsCut /\ stats'["failed"] = stats["failed"] + 1 /\ UNCHANGED Hits
    <3>1. c \in Contract!Open
      BY <2>7
    <3> HIDE DEF c
    <3> QED BY <2>3, <2>6, <3>1
  <2>9. UNCHANGED <<results, Pruned, IsCut, IsOver>>
    BY <1>1, <1>2
  <2>10. Contract!Test
    BY <1>0, <2>7, <2>8, <2>9, SameCardinality
    DEF Contract!Test, TestedPairs, Hits, Pruned, IsCut, IsOver
  <2> QED BY <2>10 DEF Contract!Next
<1> QED BY <1>6, <1>7

(* A result sent is a report. *)
LEMMA ReportStep ==
  ASSUME EngineInv, [Next]_vars, NEW w \in Worker, SendResult(w)
  PROVE  [Contract!Next]_(Contract!vars)
<1> USE DEF argVars, ctlVars, genVars, lossVars, markVars, dispVars, workVars, sumVars,
            stopVars, tickVars, outVars, poolVars, restVars, workEnv
<1> DEFINE n == wjob[w].name
<1>0. /\ TypeOK /\ ResultsOnce /\ wpc[w] = "result" /\ ~IsOver /\ wpc \in [Worker -> WorkPcs]
  <2>1. wpc[w] = "result"
    BY DEF SendResult
  <2> QED BY <2>1, StillOn DEF EngineInv, Groundwork, TotalsInv, TypeOK, WorkType
<1>1. /\ UNCHANGED <<wjob, wout, tested, stats, notices, cancelled, main, done>>
      /\ results' = results \cup {n} /\ wpc' = [wpc EXCEPT ![w] = AfterResult(wjob[w])]
  BY DEF SendResult, Goto
<1>2. AfterResult(wjob[w]) \notin HitPcs
  BY DEF AfterResult, HitPcs
<1>3. wout[w] = "found" /\ Unsent(w) /\ n \notin results
  BY <1>0 DEF ResultsOnce, Unsent, HitPcs
<1>4. {u \in Worker : wout[u] = "found" /\ wpc[u] \in HitPcs}' =
        {u \in Worker : wout[u] = "found" /\ wpc[u] \in HitPcs} \ {w}
  BY <1>0, <1>1, <1>2
<1>5. Hits' = Hits /\ n \in Hits
  BY <1>1, <1>3, <1>4 DEF Hits, Unsent
<1>6. TestedPairs' = TestedPairs /\ Pruned' = Pruned /\ IsCut' = IsCut /\ IsOver' = IsOver
  BY <1>1 DEF TestedPairs, Pruned, IsCut, IsOver
<1>7. Contract!Report
  BY <1>0, <1>1, <1>3, <1>5, <1>6
  DEF Contract!Report, TestedPairs, Hits, Pruned, IsCut, IsOver
<1> QED BY <1>7 DEF Contract!Next

(* A worker that only goes on leaves the hits as they are. *)
LEMMA HitsStay ==
  ASSUME EngineInv, [Next]_vars, NEW w \in Worker, Work(w) \/ Meet(w), ~Lookup(w), ~SendResult(w)
  PROVE  Hits' = Hits /\ TestedPairs' = TestedPairs /\ results' = results
<1> USE DEF argVars, ctlVars, genVars, lossVars, markVars, dispVars, workVars, sumVars,
            stopVars, tickVars, outVars, poolVars, restVars, workEnv
<1>0. TypeOK /\ ResultsOnce /\ wpc \in [Worker -> WorkPcs]
      /\ wout \in [Worker -> Counted \cup {"cut"}] /\ wjob \in [Worker -> Jobs]
  BY DEF EngineInv, Groundwork, TotalsInv, TypeOK, WorkType
<1>1. /\ OthersStay(w) /\ tested' = tested /\ results' = results /\ (Dispatch(w) \/ UNCHANGED wjob)
  BY <1>0, WorkerMoves
<1>2. (Unsent(w)' <=> Unsent(w)) /\ (Unsent(w) => wjob'[w] = wjob[w])
  <2>1. \A pc : wpc' = [wpc EXCEPT ![w] = pc] => wpc'[w] = pc
    BY <1>0
  <2>2. CASE Meet(w) \/ Exit(w) \/ Begin(w) \/ GiveUp(w) \/ ProbeParent(w)
    <3>1. ~Unsent(w)
      BY <2>2 DEF Meet, Dispatch, Enqueue, Complete, Exit, Begin, GiveUp, ProbeParent, Unsent,
         HitPcs
    <3>2. wpc'[w] \notin HitPcs
      BY <2>1, <2>2 DEF Meet, Dispatch, Enqueue, Complete, Exit, Begin, GiveUp, ProbeParent,
         Goto, HitPcs
    <3> QED BY <3>1, <3>2 DEF Unsent
  <2>3. CASE Count(w) \/ CountFound(w)
    BY <2>1, <2>3 DEF Count, CountFound, Goto, Unsent, HitPcs
  <2>4. CASE CheckReliability(w) \/ Trip(w)
    <3>1. /\ UNCHANGED <<wjob, wout>> /\ wpc[w] \in {"guard", "trip"}
          /\ wpc' = [wpc EXCEPT ![w] = AfterGuard(w)] \/ wpc' = [wpc EXCEPT ![w] = "trip"]
      BY <2>4 DEF CheckReliability, Trip, Goto
    <3> QED BY <2>1, <3>1 DEF AfterGuard, Unsent, HitPcs
  <2> QED BY <2>2, <2>3, <2>4 DEF Work
<1>3. \A v \in Worker : (Unsent(v)' <=> Unsent(v)) /\ (Unsent(v) => wjob'[v] = wjob[v])
  BY <1>1, <1>2 DEF OthersStay, Unsent
<1> QED BY <1>1, <1>3, HitsFrame DEF TestedPairs

(* The rest of a worker's steps: a parent pruned, a guard that cuts the scan.  *)
LEMMA WorkerStep ==
  ASSUME EngineInv, [Next]_vars, NEW w \in Worker, Work(w) \/ Meet(w), ~Lookup(w), ~SendResult(w)
  PROVE  [Contract!Next]_(Contract!vars)
<1> USE DEF argVars, ctlVars, genVars, lossVars, markVars, dispVars, workVars, sumVars,
            stopVars, tickVars, outVars, poolVars, restVars, workEnv
<1>1. Hits' = Hits /\ TestedPairs' = TestedPairs /\ results' = results
  BY HitsStay
<1>2. UNCHANGED <<stats, main, done>>
  BY DEF Work, Meet, Exit, Begin, Count, CheckReliability, Trip, CountFound, ProbeParent,
     GiveUp, Dispatch, Enqueue, Complete
<1>3. /\ TypeOK /\ IsOver' = IsOver /\ IsCut \in BOOLEAN /\ IsCut' \in BOOLEAN
      /\ (IsCut => IsCut')
  <2>1. TypeOK /\ (cancelled => cancelled') /\ cancelled \in BOOLEAN /\ cancelled' \in BOOLEAN
    BY CancelStays, StepType DEF EngineInv, Groundwork, TypeOK, CtlType
  <2>2. done = <<>>
    <3>1. wpc[w] \in {"off", "exited"} => FALSE
      BY DEF Work, Meet, Exit, Begin, Lookup, Count, CheckReliability, Trip, CountFound,
         SendResult, ProbeParent, GiveUp, Dispatch, Enqueue, Complete
    <3> QED BY <3>1, StillOn DEF IsOver
  <2> QED BY <1>2, <2>1, <2>2 DEF IsOver, IsCut
<1>4. CASE Pruned' = Pruned
  BY <1>1, <1>2, <1>3, <1>4, CutOrNothing
<1>5. ASSUME NEW u \in Worker, ProbeParent(u), Pruned' = Pruned \cup {wjob[u].name},
             Pruned' # Pruned
      PROVE  [Contract!Next]_(Contract!vars)
  <2>1. wpc[u] = "probe" /\ UNCHANGED cancelled
    BY <1>5 DEF ProbeParent
  <2>2. wjob[u].name \in results \ Pruned
    BY <1>5, <2>1 DEF EngineInv, DecideInv
  <2>3. ~IsOver /\ IsCut' = IsCut
    BY <1>2, <2>1, StillOn DEF IsCut
  <2>4. Contract!Prune
    BY <1>1, <1>2, <1>3, <1>5, <2>2, <2>3
    DEF Contract!Prune, TestedPairs, Hits, Pruned, IsCut, IsOver
  <2> QED BY <2>4 DEF Contract!Next
<1> QED BY <1>3, <1>4, <1>5, PrunedStep

(* A scan that ends by itself below its cap has nothing open. *)
LEMMA NothingOpen ==
  ASSUME EngineInv, AllExited, ~cancelled, ~capped
  PROVE  Contract!Open = {}
<1>0. /\ TypeOK /\ N \in Nat /\ Start \in 0..N /\ frontier = <<>> /\ ready = NoJob
      /\ \A w \in Worker : wpc[w] = "exited"
  <2>1. disp = "closed"
    BY ScanAssumption DEF ScanAssumption, AllExited, EngineInv, Groundwork, ShutdownInv, ExitAfterClose
  <2> QED BY <2>1, ConstantTypes DEF AllExited, EngineInv, Groundwork, CompleteInv, QueueEnds, ClosedQuiet
<1>1. \A n \in visited : Excluded(n) \/ n \in TestedNames
  BY <1>0 DEF EngineInv, CompleteInv, VisitedHeld, Waiting
<1>2. \A p, i : Owed(p, i) => Excluded(Child(i, p)) \/ Child(i, p) \in TestedNames
  BY <1>0, <1>1 DEF Owed
<1>3. ASSUME NEW n \in TestedNames PROVE \E t \in TestedPairs : t.name = n
  <2>1. PICK j \in tested : j.name = n
    BY DEF TestedNames
  <2>2. [name |-> j.name, depth |-> j.depth] \in TestedPairs
    BY DEF TestedPairs
  <2> QED BY <2>1, <2>2
<1>4. ASSUME NEW i \in Start..(N - 1), ~Excluded(Entries[i + 1])
      PROVE  Entries[i + 1] \in TestedNames
  <2>1. Entries[i + 1] \in Seq(Label)
    BY <1>0, ScanAssumption DEF ScanAssumption, N, Name
  <2>2. Child(i, <<>>) = Entries[i + 1]
    BY <2>1 DEF Child
  <2>3. Owed(<<>>, i)
    BY DEF EngineInv, CompleteInv, RootsOwed
  <2> QED BY <1>2, <1>4, <2>2, <2>3
<1>5. ASSUME NEW p \in Contract!Parents, NEW n \in InScopeChildren(p.name)
      PROVE  n \in TestedNames
  <2>1. Grown(p)
    <3>1. CASE p \in ResumedParents
      BY <3>1 DEF Grown
    <3>2. ASSUME p \in TestedPairs, p.depth < DepthLimit, p.name \in results \ Pruned
          PROVE  Grown(p)
      <4>1. PICK t \in tested : p = [name |-> t.name, depth |-> t.depth]
        BY <3>2 DEF TestedPairs
      <4>2. Decided(t.name)
        BY <1>0 DEF Decided, Deciding, Unsent, HitPcs
      <4> QED BY <3>2, <4>1, <4>2 DEF Grown
    <3> QED BY <1>5, <3>1, <3>2 DEF Contract!Parents, DepthLimit, TestedPairs, Pruned
  <2>2. PICK i \in 0..(N - 1) : n = Child(i, p.name) /\ ~Excluded(n)
    BY <1>5 DEF InScopeChildren
  <2>3. Owed(p.name, i)
    BY <2>1 DEF EngineInv, CompleteInv, ChildrenOwed
  <2> QED BY <1>2, <2>2, <2>3
<1>6. ASSUME NEW c \in Contract!Candidates PROVE c.name \in TestedNames
  <2>1. CASE c \in {[name |-> n, depth |-> 1] :
                      n \in {m \in {Entries[i + 1] : i \in Start..(N - 1)} : ~Excluded(m)}}
    BY <1>4, <2>1
  <2>2. CASE \E p \in Contract!Parents :
               c \in {[name |-> n, depth |-> p.depth + 1] : n \in InScopeChildren(p.name)}
    BY <1>5, <2>2
  <2> QED BY <1>6, <2>1, <2>2 DEF Contract!Candidates
<1> QED BY <1>3, <1>6 DEF Contract!Open, TestedPairs

(* The final event keeps the contract's promise. *)
LEMMA FinishStep ==
  ASSUME EngineInv, [Next]_vars, SendDone
  PROVE  [Contract!Next]_(Contract!vars)
<1> USE DEF argVars, ctlVars, genVars, lossVars, markVars, dispVars, workVars, sumVars,
            stopVars, tickVars, outVars, poolVars, restVars, workEnv
<1>0. TypeOK /\ main \in {"joinTicker", "stopped"} /\ main' = "close"
  BY DEF SendDone, EngineInv, Groundwork
<1>1. done = <<>> /\ ~IsOver
  BY <1>0 DEF EngineInv, Groundwork, ShutdownInv, DoneAtEnd, Over, IsOver
<1>2. /\ UNCHANGED <<wpc, wjob, wout, tested, results, notices, stats, cancelled>>
      /\ TestedPairs' = TestedPairs /\ Hits' = Hits /\ Pruned' = Pruned
  BY DEF SendDone, TestedPairs, Hits, Pruned
<1>3. CASE main = "joinTicker"
  <2>1. AllExited
    BY <1>3 DEF EngineInv, Groundwork, ShutdownInv, AllJoined
  <2>2. done' = <<DoneEvent>>
    BY <1>1, <1>3 DEF SendDone
  <2>3. IsOver' /\ (IsCut' <=> cancelled) /\ (IsCut <=> cancelled)
    BY <1>0, <1>1, <1>2, <1>3, <2>2 DEF IsOver, IsCut, DoneEvent
  <2>4. Hits = results
    BY <2>1 DEF Hits, AllExited, HitPcs
  <2>5. \/ cancelled \/ Contract!Open = {}
        \/ MaxQueries > 0 /\ Cardinality(TestedPairs) = MaxQueries
    <3> SUFFICES ASSUME ~cancelled, capped
                 PROVE  MaxQueries > 0 /\ Cardinality(TestedPairs) = MaxQueries
      BY <2>1, NothingOpen
    <3>1. disp = "closed"
      BY <2>1, ScanAssumption
      DEF ScanAssumption, AllExited, EngineInv, Groundwork, ShutdownInv, ExitAfterClose
    <3>2. ready = NoJob /\ WaitingSet = {}
      BY <2>1, <3>1
      DEF AllExited, WaitingSet, Waiting, EngineInv, CompleteInv, QueueEnds, ClosedQuiet
    <3>3. MaxQueries > 0 /\ admitted = MaxQueries /\ Admitted = admitted
      BY DEF EngineInv, Groundwork, CapInv, CappedSpent, BudgetInv, CompleteInv, QueueEnds,
         CapPositive
    <3>4. Cardinality(TestedPairs) = Cardinality(tested) /\ Cardinality(tested) \in Nat
      BY <1>0, PairsAsTested, FS_CardinalityType DEF EngineInv, Groundwork, TotalsInv, TallyInv
    <3> QED BY <3>2, <3>3, <3>4, FS_EmptySet DEF Admitted
  <2>6. Contract!Finish
    BY <1>1, <1>2, <2>3, <2>4, <2>5, SameCardinality
    DEF Contract!Finish, TestedPairs, Hits, Pruned, IsCut, IsOver
  <2> QED BY <2>6 DEF Contract!Next
<1>4. CASE main = "stopped"
  <2>1. disp = "off" /\ \A w \in Worker : wpc[w] = "off"
    BY <1>4 DEF EngineInv, Groundwork, ShutdownInv, NobodyBeforeSpawn, NotSpawned
  <2>2. done' = <<StoppedEvent>>
    BY <1>1, <1>4 DEF SendDone
  <2>3. IsOver' /\ IsCut' /\ IsCut
    BY <1>4, <2>2 DEF IsOver, IsCut, StoppedEvent
  <2>4. Hits = results
    BY <2>1 DEF Hits, HitPcs
  <2>5. Contract!Finish
    BY <1>1, <1>2, <2>3, <2>4
    DEF Contract!Finish, TestedPairs, Hits, Pruned, IsCut, IsOver
  <2> QED BY <2>5 DEF Contract!Next
<1> QED BY <1>0, <1>3, <1>4

(* Everything else is invisible to the caller, or cuts the scan. *)
LEMMA RestStep ==
  ASSUME EngineInv, [Next]_vars,
         \/ Cancel \/ CheckScope \/ CheckCeiling \/ Preflight \/ DetectWildcard \/ Spawn
         \/ JoinWorkers \/ Close \/ Ticker \/ Dispatcher \/ UNCHANGED vars
  PROVE  [Contract!Next]_(Contract!vars)
<1> USE DEF argVars, ctlVars, genVars, lossVars, markVars, dispVars, workVars, sumVars,
            stopVars, tickVars, outVars, poolVars, restVars, workEnv
<1>0. TypeOK /\ TypeOK' /\ (cancelled => cancelled')
  BY StepType, CancelStays DEF EngineInv, Groundwork
<1>1. UNCHANGED <<wjob, wout, tested, results, done, stats>>
      /\ (main = "stopped" => main' = "stopped")
  BY DEF Cancel, CheckScope, CheckCeiling, Preflight, DetectWildcard, JoinWorkers, Spawn,
     Close, Ticker, Tick, LoadTick, SendProgress, StopTicker, Dispatcher, PopExpansion, HitCap,
     SkipDuplicate, SkipExcluded, Admit, NoneLeft, BeginClose, CloseJobs, vars
<1>3. Hits' = Hits
  <2>1. CASE UNCHANGED wpc
    BY <1>1, <2>1 DEF Hits
  <2>2. CASE Spawn
    <3>1. \A w \in Worker : wpc[w] \notin HitPcs /\ wpc'[w] \notin HitPcs
      BY <2>2 DEF Spawn, HitPcs, EngineInv, Groundwork, ShutdownInv, NobodyBeforeSpawn, NotSpawned
    <3> QED BY <1>1, <3>1 DEF Hits
  <2> QED BY <2>1, <2>2, StandStill
<1>4. Pruned' = Pruned
  <2>1. \A w \in Worker : ~(ProbeParent(w) /\ wpc' = [wpc EXCEPT ![w] = "report"])
    <3>1. CASE Spawn
      BY <3>1 DEF Spawn, ProbeParent, EngineInv, Groundwork, ShutdownInv, NobodyBeforeSpawn,
         NotSpawned
    <3>2. CASE UNCHANGED wpc
      BY <1>0, <3>2 DEF ProbeParent, TypeOK, WorkType
    <3> QED BY <3>1, <3>2, StandStill
  <2> QED BY <1>0, <2>1, PrunedStep
<1>5. TestedPairs' = TestedPairs /\ IsOver' = IsOver
  BY <1>1 DEF TestedPairs, IsOver
<1>6. IsCut \in BOOLEAN /\ IsCut' \in BOOLEAN /\ (IsCut => IsCut')
  <2>1. /\ cancelled \in BOOLEAN /\ cancelled' \in BOOLEAN
        /\ done # <<>> => done[1].stopped \in BOOLEAN
    <3>1. done \in Seq(Final)
      BY <1>0 DEF TypeOK, OutType
    <3>2. done # <<>> => done[1] \in Final
      BY <3>1
    <3> QED BY <1>0, <3>2 DEF TypeOK, CtlType, Final
  <2> QED BY <1>0, <1>1, <2>1 DEF IsCut
<1> QED BY <1>1, <1>3, <1>4, <1>5, <1>6, CutOrNothing

LEMMA ContractInit == Init => Contract!Init
<1> SUFFICES ASSUME Init PROVE Contract!Init
  OBVIOUS
<1>1. /\ TestedPairs = {} /\ Hits = {} /\ results = {} /\ Pruned = {}
      /\ stats["failed"] = 0 /\ ~IsOver /\ IsCut \in BOOLEAN
  BY DEF Init, TestedPairs, Hits, Pruned, IsOver, IsCut, HitPcs, Counted
<1> QED BY <1>1 DEF Contract!Init, TestedPairs, Hits, Pruned, IsOver, IsCut

LEMMA ContractStep == EngineInv /\ [Next]_vars => [Contract!Next]_(Contract!vars)
<1> SUFFICES ASSUME EngineInv, [Next]_vars PROVE [Contract!Next]_(Contract!vars)
  OBVIOUS
<1>1. ASSUME NEW w \in Worker, Work(w) \/ Meet(w) PROVE [Contract!Next]_(Contract!vars)
  BY <1>1, TestStep, ReportStep, WorkerStep
<1>2. CASE SendDone
  BY <1>2, FinishStep
<1> QED BY <1>1, <1>2, RestStep DEF Next, Main, Returned

(* The scan engine implements the contract: what its goroutines do, in         *)
(* whatever order, is to the caller a scan that tests open candidates within   *)
(* the query cap, blames the resolver for nothing an interrupt cut short,      *)
(* reports what it found, and ends uncancelled only when nothing is open or    *)
(* the cap is used up.                                                         *)
THEOREM EngineKeepsContract == Spec => KeepsContract
<1>1. Init => EngineInv /\ Contract!Init
  BY EngineInit, ContractInit
<1>2. EngineInv /\ [Next]_vars => EngineInv'
  BY EngineStep
<1>3. EngineInv /\ [Next]_vars => [Contract!Next]_(Contract!vars)
  BY ContractStep
<1> QED BY <1>1, <1>2, <1>3, PTL DEF Spec, KeepsContract, Contract!Spec
=============================================================================
