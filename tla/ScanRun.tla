------------------------------- MODULE ScanRun -------------------------------
(***************************************************************************)
(* The scan engine, scan.Run of internal/scan/runner.go: one dispatcher    *)
(* goroutine that generates candidate names lazily, a pool of workers that *)
(* look them up, a progress ticker, and the goroutine of Run itself, which *)
(* starts and joins the others.  They share atomic counters, a cancellable *)
(* context and four channels (jobs, enqueue, completed, events).           *)
(*                                                                         *)
(* The channels jobs, enqueue and completed are unbuffered, so a transfer  *)
(* is one step of sender and receiver together.  A send on events is the   *)
(* step that appends to what the consumer has been handed; it may be taken *)
(* arbitrarily late, which is how a full buffer is felt by the engine.     *)
(*                                                                         *)
(* A name is the sequence of its labels left of the target domain: <<>> is *)
(* the target, <<"api", "dev">> is api.dev.<domain>.                        *)
(***************************************************************************)
EXTENDS Integers, Sequences, FiniteSets

CONSTANTS
  Label,          \* the labels a name is made of
  Entries,        \* cfg.Entries: a sequence of names; entry i is Entries[i + 1]
  Worker,         \* the workers (workerCount of them)
  Recursive,      \* cfg.Recursive
  MaxDepth,       \* cfg.Depth, at least 1
  MaxQueries,     \* cfg.MaxQueries, 0 for no cap
  ResumeFrom,     \* cfg.ResumeFrom
  ResumeParents,  \* cfg.ResumeParents, those below the target domain
  ExactScope,     \* -exclude patterns that name one host
  TreeScope,      \* -exclude patterns *.x, as x
  Simulate,       \* cfg.Simulate: no preflight, no wildcard checks
  Forces,         \* the values of cfg.Force considered
  Targets,        \* the values of cfg.Domain considered
  RefusedTargets, \* those an -exclude pattern covers
  NoAbort,        \* cfg.NoAbort
  MinJobs,        \* reliabilityMinJobs
  FailPercent,    \* reliabilityFailPercent
  RefuseCeiling,  \* recursionRefuseCeiling
  MaxTicks        \* bound on the progress ticks of a behaviour

Name == Seq(Label)
N == Len(Entries)

ASSUME ScanAssumption ==
  /\ Entries \in Seq(Name)
  /\ Worker # {} /\ IsFiniteSet(Worker)
  /\ Recursive \in BOOLEAN /\ Simulate \in BOOLEAN
  /\ Forces \subseteq BOOLEAN /\ NoAbort \in BOOLEAN
  /\ MaxDepth \in Nat \ {0}
  /\ MaxQueries \in Nat
  /\ ResumeFrom \in Nat
  /\ ResumeParents \in Seq(Name \ {<<>>})
  /\ ExactScope \subseteq Name /\ TreeScope \subseteq Name
  /\ MinJobs \in Nat /\ FailPercent \in Nat
  /\ RefuseCeiling \in Nat /\ MaxTicks \in Nat

-----------------------------------------------------------------------------
(* Scope: which names may never be queried. *)

SubtreeExcluded(parent) ==
  \E k \in 0..Len(parent) : SubSeq(parent, k + 1, Len(parent)) \in TreeScope

Excluded(name) ==
  \/ name \in ExactScope
  \/ name # <<>> /\ SubtreeExcluded(Tail(name))

(* The jobs a recursive scan of depth d can generate: N + N^2 + ... + N^d. *)
RecursionCeiling ==
  LET sum[d \in 0..MaxDepth] == IF d = 0 THEN 0 ELSE N ^ d + sum[d - 1]
  IN  sum[MaxDepth]

-----------------------------------------------------------------------------
(* Candidates. *)

Start == IF ResumeFrom < N THEN ResumeFrom ELSE N

Child(i, parent) == Entries[i + 1] \o parent

Expansion == [parent : Name, depth : Nat \ {0}, next : 0..N]

Job == [name : Name, depth : Nat \ {0}, root : -1..N]
NoJob == [name |-> <<>>, depth |-> 0, root |-> -1]

Expandable(p) == Len(p) \in 1..(MaxDepth - 1)

ResumeFromCursor ==
  IF Recursive
  THEN [i \in DOMAIN ResumeParents |->
          [parent |-> ResumeParents[i], depth |-> Len(ResumeParents[i]) + 1,
           next |-> IF Expandable(ResumeParents[i]) THEN Start ELSE N]]
  ELSE <<>>

(* The expansions a resumed recursive scan starts with besides the root: the *)
(* names found earlier, at the depth their label count suggests.  The code   *)
(* drops those too deep to expand; here they are expansions already used up. *)
ResumeExpansions ==
  IF Recursive
  THEN [i \in DOMAIN ResumeParents |->
          [parent |-> ResumeParents[i], depth |-> Len(ResumeParents[i]) + 1,
           next |-> IF Expandable(ResumeParents[i]) THEN 0 ELSE N]]
  ELSE <<>>

-----------------------------------------------------------------------------
VARIABLES
  target,     \* cfg.Domain
  force,      \* cfg.Force
  \* the goroutine of Run, and the context
  main,       \* where Run is
  wildRoot,   \* wildcardRoot: the target is a wildcard, scanned under -force
  cancelled,  \* ctx is done
  \* the dispatcher
  disp,       \* where the dispatcher is
  frontier,   \* the expansion queue from head on
  remaining,  \* candidates not yet generated
  visited,    \* names generated once already
  ready,      \* the job to hand out next, or NoJob
  pending,    \* dispatched jobs not yet completed
  admitted, skipped, excluded, capped,
  settled,    \* the indices i with rootDone[i]
  watermark,  \* the first index not settled: Stats.RootDone
  \* the workers
  wpc,        \* where each worker is
  wjob,       \* the job it holds
  wout,       \* its verdict: the outcome counted, or "cut" when cut short
  wn,         \* the processed count its own increment returned
  \* counters shared by all
  total, processed, found,
  stats,      \* the per-outcome counters
  guard,      \* the reliability guard's sync.Once
  tripped,    \* the failures and the processed count the guard fired on
  aborted,
  \* the ticker
  tpc, tmsg, ticks,
  \* what the consumer of events has been handed
  results, notices, errors, progress, done, closed,
  \* history: the jobs whose outcome was counted
  tested

argVars  == <<target, force>>
ctlVars  == <<main, wildRoot>>
genVars  == <<frontier, remaining, visited, admitted, capped>>
lossVars == <<skipped, excluded>>
markVars == <<settled, watermark>>
dispVars == <<disp, ready, pending, genVars, lossVars, markVars, total>>
workVars == <<wpc, wjob, wout, wn>>
sumVars  == <<processed, found, stats, tested>>
stopVars == <<guard, tripped, aborted, cancelled>>
tickVars == <<tpc, tmsg, ticks>>
outVars  == <<results, notices, errors, progress, done, closed>>
vars == <<argVars, ctlVars, dispVars, workVars, sumVars, stopVars, tickVars, outVars>>

poolVars == <<argVars, dispVars, workVars, sumVars, stopVars, tickVars>>
restVars == <<argVars, ctlVars, sumVars, stopVars, tickVars, outVars>>
workEnv  == <<argVars, ctlVars, dispVars, tickVars>>

Counted == {"found", "nxdomain", "failed", "filtered"}

Init ==
  /\ target \in Targets /\ force \in Forces
  /\ main = "scope" /\ wildRoot = FALSE /\ cancelled = FALSE
  /\ disp = "off"
  /\ frontier = <<[parent |-> <<>>, depth |-> 1, next |-> Start]>> \o ResumeExpansions
  /\ remaining = (N - Start) +
       N * Cardinality({i \in DOMAIN ResumeExpansions : Expandable(ResumeParents[i])})
  /\ visited = {} /\ ready = NoJob /\ pending = 0
  /\ admitted = 0 /\ skipped = 0 /\ excluded = 0 /\ capped = FALSE
  /\ settled = {} /\ watermark = Start
  /\ wpc = [w \in Worker |-> "off"]
  /\ wjob = [w \in Worker |-> NoJob]
  /\ wout = [w \in Worker |-> "cut"]
  /\ wn = [w \in Worker |-> 0]
  /\ total = N /\ processed = 0 /\ found = 0
  /\ stats = [o \in Counted |-> 0]
  /\ guard = "idle" /\ tripped = <<0, 0>> /\ aborted = FALSE
  /\ tpc = "off" /\ tmsg = [processed |-> 0, total |-> 0, found |-> 0] /\ ticks = 0
  /\ results = {} /\ notices = {} /\ errors = {} /\ progress = [processed |-> 0, total |-> 0, found |-> 0]
  /\ done = <<>> /\ closed = FALSE
  /\ tested = {}

-----------------------------------------------------------------------------
(* Cancellation by the caller: Ctrl+C, a target timeout, the TUI's cancel. *)
Cancel ==
  /\ ~cancelled /\ main # "returned"
  /\ cancelled' = TRUE
  /\ UNCHANGED <<workEnv, workVars, sumVars, guard, tripped, aborted, outVars>>

-----------------------------------------------------------------------------
(* Run, before the candidates: every refusal sends one EventError. *)

Refuse(reason) ==
  /\ errors' = errors \cup {reason}
  /\ main' = "stopped"

GoOn(step, kinds) ==
  /\ notices' = notices \cup kinds
  /\ main' = step
  /\ UNCHANGED errors

CheckScope ==
  /\ main = "scope"
  /\ \/ target \in RefusedTargets /\ Refuse("scope") /\ UNCHANGED notices
     \/ target \notin RefusedTargets /\ GoOn("ceiling", {})
  /\ UNCHANGED <<wildRoot, poolVars, results, progress, done, closed>>

CheckCeiling ==
  LET refused == RecursionCeiling > RefuseCeiling /\ MaxQueries = 0 /\ ~force
  IN /\ main = "ceiling"
     /\ \/ ~Recursive /\ GoOn("preflight", {})
        \/ Recursive /\ refused /\ Refuse("ceiling") /\ UNCHANGED notices
        \/ Recursive /\ ~refused /\ GoOn("preflight", {<<"ceiling", <<>>>>})
     /\ UNCHANGED <<wildRoot, poolVars, results, progress, done, closed>>

(* A preflight lookup of the target: found and NXDOMAIN both pass. *)
Preflight ==
  /\ main = "preflight"
  /\ \/ Simulate /\ GoOn("spawn", {})
     \/ ~Simulate /\ cancelled /\ GoOn("stopped", {})
     \/ ~Simulate /\ ~cancelled /\ Refuse("preflight") /\ UNCHANGED notices
     \/ ~Simulate /\ ~cancelled /\ GoOn("wildcard", {})
  /\ UNCHANGED <<wildRoot, poolVars, results, progress, done, closed>>

(* Wildcard detection: an inconclusive check is never "no wildcard". *)
DetectWildcard ==
  LET warn == {<<"wildcard", <<>>>>}
  IN /\ main = "wildcard"
     /\ \/ cancelled /\ GoOn("stopped", {}) /\ UNCHANGED wildRoot
        \/ ~cancelled /\ GoOn("spawn", {}) /\ UNCHANGED wildRoot
        \/ ~cancelled /\ force /\ GoOn("spawn", warn) /\ wildRoot' \in BOOLEAN
        \/ /\ ~cancelled /\ ~force /\ Refuse("inconclusive")
           /\ UNCHANGED <<notices, wildRoot>>
        \/ /\ ~cancelled /\ ~force /\ Refuse("wildcard")
           /\ notices' = notices \cup warn /\ wildRoot' = TRUE
     /\ UNCHANGED <<poolVars, results, progress, done, closed>>

Spawn ==
  /\ main = "spawn"
  /\ main' = "join"
  /\ disp' = "next"
  /\ wpc' = [w \in Worker |-> "recv"]
  /\ tpc' = "wait"
  /\ UNCHANGED <<argVars, wildRoot, genVars, ready, pending, lossVars,
                 markVars, total, wjob, wout, wn, sumVars, stopVars, tmsg,
                 ticks, outVars>>

(* Run, after the candidates: join the workers, then the ticker, then send *)
(* EventDone, then (deferred) cancel and close events.                     *)

OneExited == \E w \in Worker : wpc[w] = "exited"
AllExited == \A w \in Worker : wpc[w] = "exited"

JoinWorkers ==
  /\ main = "join" /\ AllExited
  /\ main' = "joinTicker"
  /\ UNCHANGED <<wildRoot, poolVars, outVars>>

(* A scan that stopped before the candidates reports nothing but its size. *)
StoppedEvent ==
  [stopped |-> TRUE, processed |-> 0, total |-> N, found |-> 0, stats |-> [o \in Counted |-> 0],
   skipped |-> 0, excluded |-> 0, rootDone |-> 0, aborted |-> FALSE]

DoneEvent ==
  [stopped |-> FALSE, processed |-> processed, total |-> total, found |-> found,
   stats |-> stats, skipped |-> skipped, excluded |-> excluded,
   rootDone |-> watermark, aborted |-> aborted]

TickerToldToStop == TRUE
TickerJoined == tpc = "exited"

SendDone ==
  /\ \/ main = "joinTicker" /\ TickerJoined /\ done' = Append(done, DoneEvent)
     \/ main = "stopped" /\ done' = Append(done, StoppedEvent)
  /\ main' = "close"
  /\ UNCHANGED <<wildRoot, poolVars, results, notices, errors, progress,
                 closed>>

Close ==
  /\ main = "close"
  /\ main' = "returned"
  /\ cancelled' = TRUE
  /\ closed' = TRUE
  /\ UNCHANGED <<argVars, wildRoot, dispVars, workVars, sumVars, guard,
                 tripped, aborted, tickVars, results, notices, errors,
                 progress, done>>

-----------------------------------------------------------------------------
(* The dispatcher, generating the next job (the closure next). *)

Cursor == frontier[1].next
Candidate == Child(Cursor, frontier[1].parent)
RootIndex == IF frontier[1].depth = 1 THEN Cursor ELSE -1

HasCandidate == disp = "next" /\ frontier # <<>> /\ Cursor < N
CapReached == MaxQueries > 0 /\ admitted >= MaxQueries

Published(a, r) ==
  IF MaxQueries > 0 /\ a + r > MaxQueries THEN MaxQueries ELSE a + r

SettleAny(i) ==
  /\ settled' = settled \cup {i}
  /\ watermark' \in {k \in watermark..N :
       k \notin settled' /\ \A m \in watermark..(k - 1) : m \in settled'}

(* rootDone[i] = true, and the watermark moves over every settled index. *)
Settle(i) ==
  IF i < Start
  THEN UNCHANGED markVars
  ELSE /\ settled' = settled \cup {i}
       /\ watermark' \in {k \in watermark..N :
            k \notin settled' /\ \A m \in watermark..(k - 1) : m \in settled'}

Take ==
  /\ frontier' = [frontier EXCEPT ![1].next = @ + 1]
  /\ remaining' = remaining - 1

PopExpansion ==
  /\ disp = "next" /\ frontier # <<>> /\ Cursor = N
  /\ frontier' = Tail(frontier)
  /\ UNCHANGED <<restVars, disp, remaining, visited, ready, pending, admitted,
                 lossVars, capped, markVars, total, workVars>>

HitCap ==
  /\ HasCandidate /\ CapReached
  /\ skipped' = skipped + remaining
  /\ remaining' = 0
  /\ capped' = TRUE
  /\ frontier' = <<>>
  /\ UNCHANGED <<restVars, disp, visited, ready, pending, admitted, excluded,
                 markVars, total, workVars>>

SkipDuplicate ==
  /\ HasCandidate /\ ~CapReached
  /\ Candidate \in visited
  /\ Take
  /\ Settle(RootIndex)
  /\ UNCHANGED <<restVars, disp, visited, ready, pending, admitted, lossVars,
                 capped, total, workVars>>

SkipExcluded ==
  /\ HasCandidate /\ ~CapReached
  /\ Candidate \notin visited /\ Excluded(Candidate)
  /\ Take
  /\ visited' = visited \cup {Candidate}
  /\ excluded' = excluded + 1
  /\ Settle(RootIndex)
  /\ UNCHANGED <<restVars, disp, ready, pending, admitted, skipped, capped,
                 total, workVars>>

Admit ==
  /\ HasCandidate /\ ~CapReached
  /\ Candidate \notin visited /\ ~Excluded(Candidate)
  /\ Take
  /\ visited' = visited \cup {Candidate}
  /\ admitted' = admitted + 1
  /\ ready' = [name |-> Candidate, depth |-> frontier[1].depth, root |-> RootIndex]
  /\ total' = Published(admitted', remaining')
  /\ disp' = "select"
  /\ UNCHANGED <<restVars, pending, lossVars, capped, markVars, workVars>>

NoneLeft ==
  /\ disp = "next" /\ frontier = <<>>
  /\ total' = Published(admitted, remaining)
  /\ disp' = "select"
  /\ UNCHANGED <<restVars, genVars, ready, pending, lossVars, markVars,
                 workVars>>

-----------------------------------------------------------------------------
(* The dispatcher at its select, and the workers it meets there. *)

Drained == ready = NoJob /\ pending = 0
InSelect == disp = "select" /\ ~Drained
Resume(job) == IF job = NoJob THEN "next" ELSE "select"

Dispatch(w) ==
  /\ InSelect /\ ready # NoJob /\ wpc[w] = "recv"
  /\ wjob' = [wjob EXCEPT ![w] = ready]
  /\ wpc' = [wpc EXCEPT ![w] = "begin"]
  /\ ready' = NoJob
  /\ pending' = pending + 1
  /\ disp' = "next"
  /\ UNCHANGED <<restVars, genVars, lossVars, markVars, total, wout, wn>>

(* A found parent: its children are queued, or counted and never built. *)
Enqueue(w) ==
  /\ InSelect /\ wpc[w] = "enqueue"
  /\ LET parent == wjob[w].name
     IN \/ /\ capped
           /\ skipped' = skipped + N
           /\ UNCHANGED <<excluded, frontier, remaining, total>>
        \/ /\ ~capped /\ SubtreeExcluded(parent)
           /\ excluded' = excluded + N
           /\ UNCHANGED <<skipped, frontier, remaining, total>>
        \/ /\ ~capped /\ ~SubtreeExcluded(parent)
           /\ frontier' = Append(frontier,
                [parent |-> parent, depth |-> wjob[w].depth + 1, next |-> 0])
           /\ remaining' = remaining + N
           /\ total' = Published(admitted, remaining')
           /\ UNCHANGED lossVars
  /\ disp' = Resume(ready)
  /\ wpc' = [wpc EXCEPT ![w] = "report"]
  /\ UNCHANGED <<restVars, visited, ready, pending, admitted, capped,
                 markVars, wjob, wout, wn>>

Reported(w) == TRUE
Finished(w) == wout[w] # "cut"

Complete(w) ==
  /\ InSelect /\ wpc[w] = "report"
  /\ pending' = pending - 1
  /\ IF Finished(w) THEN Settle(wjob[w].root) ELSE UNCHANGED markVars
  /\ disp' = Resume(ready)
  /\ wpc' = [wpc EXCEPT ![w] = "recv"]
  /\ UNCHANGED <<restVars, genVars, ready, lossVars, total, wjob, wout, wn>>

(* closeJobs: the cap notice is sent, or dropped once ctx is done, before jobs closes. *)
BeginClose ==
  /\ disp = "select"
  /\ Drained \/ cancelled
  /\ disp' = "closing"
  /\ UNCHANGED <<restVars, genVars, ready, pending, lossVars, markVars, total,
                 workVars>>

NoticeOptional == TRUE
NoticeUnneeded == skipped = 0 \/ cancelled

CloseJobs ==
  /\ disp = "closing"
  /\ \/ skipped > 0 /\ notices' = notices \cup {<<"cap", <<>>>>}
     \/ NoticeUnneeded /\ UNCHANGED notices
  /\ disp' = "closed"
  /\ UNCHANGED <<argVars, ctlVars, genVars, ready, pending, lossVars,
                 markVars, total, workVars, sumVars, stopVars, tickVars,
                 results, errors, progress, done, closed>>

-----------------------------------------------------------------------------
(* A worker: for j := range jobs { processJob; report }. *)

Goto(w, pc) == wpc' = [wpc EXCEPT ![w] = pc]

Exit(w) ==
  /\ wpc[w] = "recv" /\ disp = "closed"
  /\ Goto(w, "exited")
  /\ UNCHANGED <<restVars, dispVars, wjob, wout, wn>>

(* Not started when ctx is done, before or while waiting for the rate limiter. *)
Begin(w) ==
  /\ wpc[w] = "begin"
  /\ \/ cancelled /\ Goto(w, "report") /\ wout' = [wout EXCEPT ![w] = "cut"]
     \/ ~cancelled /\ Goto(w, "lookup") /\ UNCHANGED wout
  /\ UNCHANGED <<restVars, dispVars, wjob, wn>>

Outcomes ==
  IF Simulate THEN {"found", "nxdomain"} ELSE {"found", "nxdomain", "failed", "canceled"}

(* What the lookup's outcome o is counted as: nothing when it was cut short, *)
(* and a wildcard answer, only possible under a wildcard target, is filtered. *)
Verdicts(o) ==
  IF o = "canceled" \/ (o # "found" /\ cancelled) THEN {"cut"}
  ELSE IF o = "found" /\ wildRoot THEN {"found", "filtered"}
  ELSE {o}

Lookup(w) ==
  /\ wpc[w] = "lookup"
  /\ \E o \in Outcomes :
       /\ o = "canceled" => cancelled
       /\ \E v \in Verdicts(o) :
            /\ wout' = [wout EXCEPT ![w] = v]
            /\ IF v = "cut"
               THEN Goto(w, "report") /\ UNCHANGED <<stats, tested>>
               ELSE /\ stats' = [stats EXCEPT ![v] = @ + 1]
                    /\ tested' = tested \cup {wjob[w]}
                    /\ Goto(w, "count")
  /\ UNCHANGED <<workEnv, wjob, wn, processed, found, stopVars, outVars>>

Count(w) ==
  /\ wpc[w] = "count"
  /\ processed' = processed + 1
  /\ wn' = [wn EXCEPT ![w] = processed']
  /\ Goto(w, "guard")
  /\ UNCHANGED <<workEnv, wjob, wout, found, stats, tested, stopVars, outVars>>

(* checkReliability: too many failures for the processed count this worker saw. *)
Unreliable(n) == n >= MinJobs /\ stats["failed"] * 100 > n * FailPercent

AfterGuardFiltered(w) == IF wout[w] \in {"found", "filtered"} THEN "found" ELSE "report"
AfterGuardSilent(w) == IF wout[w] = "found" THEN "found" ELSE "recv"
AfterGuard(w) == IF wout[w] = "found" THEN "found" ELSE "report"

FirstCaller == guard = "idle"

(* once.Do: the first caller runs the body, others wait until it has returned. *)
CheckReliability(w) ==
  /\ wpc[w] = "guard"
  /\ \/ /\ ~Unreliable(wn[w]) \/ guard = "done"
        /\ Goto(w, AfterGuard(w))
        /\ UNCHANGED <<guard, tripped>>
     \/ /\ Unreliable(wn[w]) /\ FirstCaller
        /\ guard' = "busy"
        /\ tripped' = <<stats["failed"], wn[w]>>
        /\ Goto(w, "trip")
  /\ UNCHANGED <<workEnv, wjob, wout, wn, sumVars, aborted, cancelled, outVars>>

Trip(w) ==
  /\ wpc[w] = "trip"
  /\ errors' = errors \cup {"guard"}
  /\ aborted' = (aborted \/ ~NoAbort)
  /\ cancelled' = (cancelled \/ ~NoAbort)
  /\ guard' = "done"
  /\ Goto(w, AfterGuard(w))
  /\ UNCHANGED <<workEnv, wjob, wout, wn, sumVars, tripped, results, notices,
                 progress, done, closed>>

CountFound(w) ==
  /\ wpc[w] = "found"
  /\ found' = found + 1
  /\ Goto(w, "result")
  /\ UNCHANGED <<workEnv, wjob, wout, wn, processed, stats, tested, stopVars,
                 outVars>>

AfterResultTooDeep(job) ==
  IF ~(Recursive /\ job.depth <= MaxDepth) THEN "report"
  ELSE IF Simulate \/ SubtreeExcluded(job.name) THEN "enqueue" ELSE "probe"

AfterResult(job) ==
  IF ~(Recursive /\ job.depth < MaxDepth) THEN "report"
  ELSE IF Simulate \/ SubtreeExcluded(job.name) THEN "enqueue" ELSE "probe"

SendResult(w) ==
  /\ wpc[w] = "result"
  /\ results' = results \cup {wjob[w].name}
  /\ Goto(w, AfterResult(wjob[w]))
  /\ UNCHANGED <<workEnv, wjob, wout, wn, sumVars, stopVars, notices, errors,
                 progress, done, closed>>

(* The wildcard check of a found parent: a wildcard or inconclusive parent is *)
(* not expanded, and neither is any parent once ctx is done.                  *)
ProbeParent(w) ==
  /\ wpc[w] = "probe"
  /\ \/ cancelled /\ Goto(w, "report") /\ UNCHANGED notices
     \/ ~cancelled /\ Goto(w, "enqueue") /\ UNCHANGED notices
     \/ /\ ~cancelled /\ Goto(w, "report")
        /\ notices' = notices \cup {<<"skip", wjob[w].name>>}
  /\ UNCHANGED <<workEnv, wjob, wout, wn, sumVars, stopVars, results, errors,
                 progress, done, closed>>

(* Once ctx is done a worker need not meet the dispatcher any more. *)
GiveUp(w) ==
  /\ cancelled
  /\ \/ wpc[w] = "enqueue" /\ Goto(w, "report")
     \/ wpc[w] = "report" /\ Goto(w, "recv")
  /\ UNCHANGED <<restVars, dispVars, wjob, wout, wn>>

-----------------------------------------------------------------------------
(* The ticker: load processed, then found and total, then offer the event. *)

TickerDone == main \in {"joinTicker", "close", "returned"}

Tick ==
  /\ tpc = "wait" /\ ticks < MaxTicks
  /\ ticks' = ticks + 1
  /\ tmsg' = [tmsg EXCEPT !.processed = processed]
  /\ tpc' = "load"
  /\ UNCHANGED <<argVars, ctlVars, dispVars, workVars, sumVars, stopVars,
                 outVars>>

LoadTick ==
  /\ tpc = "load"
  /\ tmsg' = [tmsg EXCEPT !.found = found, !.total = total]
  /\ tpc' = "send"
  /\ UNCHANGED <<argVars, ctlVars, dispVars, workVars, sumVars, stopVars,
                 ticks, outVars>>

SendProgress ==
  /\ tpc = "send"
  /\ progress' = tmsg
  /\ tpc' = "wait"
  /\ UNCHANGED <<argVars, ctlVars, dispVars, workVars, sumVars, stopVars,
                 tmsg, ticks, results, notices, errors, done, closed>>

StopTicker ==
  /\ tpc \in {"wait", "send"}
  /\ TickerDone \/ cancelled
  /\ tpc' = "exited"
  /\ UNCHANGED <<argVars, ctlVars, dispVars, workVars, sumVars, stopVars,
                 tmsg, ticks, outVars>>

-----------------------------------------------------------------------------
Main ==
  \/ CheckScope \/ CheckCeiling \/ Preflight \/ DetectWildcard
  \/ Spawn \/ JoinWorkers \/ SendDone \/ Close

(* A meeting of worker and dispatcher belongs to both. *)
Meet(w) == Dispatch(w) \/ Enqueue(w) \/ Complete(w)

Dispatcher ==
  \/ PopExpansion \/ HitCap \/ SkipDuplicate \/ SkipExcluded \/ Admit \/ NoneLeft
  \/ BeginClose \/ CloseJobs

Work(w) ==
  \/ Exit(w) \/ Begin(w) \/ Lookup(w) \/ Count(w) \/ CheckReliability(w) \/ Trip(w)
  \/ CountFound(w) \/ SendResult(w) \/ ProbeParent(w) \/ GiveUp(w)

Ticker == Tick \/ LoadTick \/ SendProgress \/ StopTicker

(* Run has returned: nothing is left to do. *)
Returned == main = "returned" /\ UNCHANGED vars

Next ==
  \/ Main \/ Dispatcher \/ Ticker \/ Cancel \/ Returned
  \/ \E w \in Worker : Work(w) \/ Meet(w)

Spec == Init /\ [][Next]_vars

(* Every goroutine keeps being scheduled, a lookup returns (its timeout is  *)
(* bounded) and the consumer drains events until it is closed.  Nobody has  *)
(* to cancel.                                                               *)
Fairness ==
  /\ WF_vars(Main) /\ WF_vars(Dispatcher) /\ WF_vars(Ticker)
  /\ \A w \in Worker : WF_vars(Work(w)) /\ WF_vars(Meet(w))

FairSpec == Spec /\ Fairness
=============================================================================
