------------------------------ MODULE ResumeRun ------------------------------
(***************************************************************************)
(* A command-line run over its targets, the state file an interrupted run  *)
(* leaves behind, and the runs that resume from it: run of main.go with    *)
(* main_resume.go and main_permute.go.                                     *)
(*                                                                         *)
(* A scan is seen from here at the granularity the resume point needs: the *)
(* jobs handed out, answered, and reported back to the dispatcher.  Module *)
(* ScanRun models the same scan goroutine by goroutine.                    *)
(*                                                                         *)
(* Names are relative to their target, as in ScanRun.  The inputs and the  *)
(* settings do not change between runs: a resume refuses to start if they  *)
(* did.                                                                    *)
(***************************************************************************)
EXTENDS Integers, Sequences, FiniteSets

CONSTANTS
  Label,    \* the labels a name is made of
  Entries,  \* the normalized wordlist, the same for every target
  Worlds,   \* the command lines, and what exists: see World
  MaxRuns,  \* bound on the invocations
  MaxMissed \* bound on the results files that fail or are cut short

VARIABLE world  \* the command line of all runs and the names they look for

Name == Seq(Label)
Hit == [name : Name, perm : BOOLEAN]
World ==
  [targets : Nat \ {0},     \* how many targets the command line names
   recursive : BOOLEAN,     \* -recursive
   depth : Nat \ {0},       \* -depth
   maxQueries : Nat,        \* -max-queries, 0 for none
   workers : Nat \ {0},     \* the size of the worker pool
   exists : SUBSET Name,    \* the names that exist
   wild : SUBSET Name,      \* the names below which every name resolves
   flaky : BOOLEAN,         \* may lookups fail
   noAbort : BOOLEAN,       \* -no-abort
   permute : BOOLEAN,       \* -permute
   perms : Seq([seed : Name, name : Name \ {<<>>}]),  \* what permuting generates
   logNames : Seq(Name \ {<<>>}),  \* -ct: the names the logs hold, else <<>>
   logsFail : BOOLEAN]      \* may asking the logs fail

ASSUME ResumeAssumption ==
  /\ MaxRuns \in Nat /\ MaxMissed \in Nat /\ Entries \in Seq(Name \ {<<>>}) \ {<<>>}
  /\ Worlds \subseteq World

TargetIndex == 1..world.targets

NoState == <<>>
NoLogs == [names |-> <<>>, fetched |-> FALSE]
NoPerm == [done |-> FALSE, rootDone |-> 0, processed |-> 0, started |-> FALSE]

VARIABLES
  runs,    \* invocations so far
  phase,   \* where run() is
  at,      \* the current target
  signal,  \* signalCode # 0
  ctx,     \* the context is cancelled
  status,  \* status[i], "" while the target has not been reached
  result,  \* results[i]
  kept,    \* targetRuns[i]
  logs,    \* ctInfo: what the logs gave for each target in this run
  cur,     \* targetResults: the current target's hits
  resume,  \* the state this run resumed from, or NoState
  file,    \* the state file, or NoState
  out,     \* hits written to the output of this run, by target
  published, \* the -o file: hits of the last run whose results file was committed
  missed,  \* results files that were not committed, up to MaxMissed
  pass,    \* the scan in progress
  again,   \* history: hits this run wrote twice
  seeds    \* history: the permutation list each target's pass started with

ctlVars == <<runs, signal, ctx>>
outputVars == <<published, missed>>
diskVars == <<resume, file, outputVars>>
endVars == <<status, result, kept, logs>>
vars == <<world, runs, phase, at, signal, ctx, status, result, kept, logs, cur, resume, file,
          out, published, missed, pass, again, seeds>>

-----------------------------------------------------------------------------
(* The scan. *)

Resolves(n) == n \in world.exists \/ Tail(n) \in world.wild

Children(list, parent, depth) ==
  {[name |-> list[k] \o parent, depth |-> depth, root |-> -1] : k \in DOMAIN list}

Expandable(parent) == world.recursive /\ Len(parent) \in 1..(world.depth - 1)

(* A position behind the list is its end. *)
Start(from, list) == IF from > Len(list) THEN Len(list) ELSE from

NewPass(list, from, parents, recursive, cap) ==
  [list |-> list, deep |-> recursive, from |-> Start(from, list), next |-> Start(from, list),
   cap |-> cap, seen |-> {},
   kids |-> IF recursive
            THEN UNION {Children(list, p, Len(p) + 1) : p \in {q \in parents : Expandable(q)}}
            ELSE {},
   flight |-> {}, heard |-> {}, marks |-> {}, begun |-> 0, counted |-> 0,
   failures |-> FALSE, tripped |-> FALSE]

NoPass == NewPass(<<>>, 0, {}, FALSE, 0)

Scanning == phase \in {"main", "perm"}
Stopping == ctx \/ pass.tripped
CapReached == pass.cap > 0 /\ pass.begun >= pass.cap

NextEntry == pass.next

(* The watermark: every index from the start of the pass up to it is settled. *)
Watermark ==
  CHOOSE k \in pass.from..Len(pass.list) :
    /\ \A m \in pass.from..(k - 1) : m \in pass.marks
    /\ k \notin pass.marks

(* The dispatcher generates root entries first, then what found parents queued. *)
Hand(job, next, kids) ==
  IF job.name \in pass.seen
  THEN pass' = [pass EXCEPT !.next = next, !.kids = kids,
                  !.marks = IF job.root = -1 THEN @ ELSE @ \cup {job.root}]
  ELSE /\ Cardinality(pass.flight) + Cardinality(pass.heard) < world.workers
       /\ pass' = [pass EXCEPT !.next = next, !.kids = kids, !.begun = @ + 1,
                     !.seen = @ \cup {job.name}, !.flight = @ \cup {job}]

Dispatch ==
  /\ Scanning /\ ~Stopping /\ ~CapReached
  /\ \/ /\ pass.next < Len(pass.list)
        /\ Hand([name |-> pass.list[pass.next + 1], depth |-> 1, root |-> pass.next],
                pass.next + 1, pass.kids)
     \/ /\ pass.next = Len(pass.list)
        /\ \E job \in pass.kids : Hand(job, pass.next, pass.kids \ {job})
  /\ UNCHANGED <<ctlVars, diskVars, endVars, phase, at, cur, out, again, seeds>>

(* A name that a -resume state restored is not written again (emitResult). *)
Fresh(name) == resume = NoState \/ name \notin {h.name : h \in resume[at].results}

Emit(hit) ==
  IF Fresh(hit.name)
  THEN /\ cur' = cur \cup {hit}
       /\ again' = IF <<at, hit>> \in out THEN again \cup {hit} ELSE again
       /\ out' = out \cup {<<at, hit>>}
  ELSE UNCHANGED <<cur, again, out>>

(* A lookup is answered; once ctx is done only a hit still counts. *)
Answer(job, o) ==
  /\ Scanning /\ job \in pass.flight
  /\ o = "found" => Resolves(job.name)
  /\ o = "nxdomain" => ~Resolves(job.name)
  /\ o = "failed" => world.flaky
  /\ o # "found" => ~Stopping
  /\ pass' = [pass EXCEPT !.flight = @ \ {job}, !.counted = @ + 1,
                !.failures = @ \/ o = "failed", !.heard = @ \cup {<<job, o = "found">>}]
  /\ IF o = "found"
     THEN Emit([name |-> job.name, perm |-> phase = "perm"])
     ELSE UNCHANGED <<cur, again, out>>
  /\ UNCHANGED <<ctlVars, diskVars, endVars, phase, at, seeds>>

(* The worker queues a found parent's children, unless it is a wildcard, and   *)
(* reports back; once ctx is done both may be dropped.                         *)
Complete(job, isHit) ==
  LET grows == isHit /\ pass.deep /\ job.depth < world.depth /\ job.name \notin world.wild
  IN /\ Scanning /\ <<job, isHit>> \in pass.heard
     /\ \/ pass' = [pass EXCEPT !.heard = @ \ {<<job, isHit>>},
                      !.marks = IF job.root = -1 THEN @ ELSE @ \cup {job.root},
                      !.kids = IF grows THEN @ \cup Children(pass.list, job.name, job.depth + 1) ELSE @]
        \/ Stopping /\ pass' = [pass EXCEPT !.heard = @ \ {<<job, isHit>>}]
     /\ UNCHANGED <<ctlVars, diskVars, endVars, phase, at, cur, out, again, seeds>>

(* The reliability guard: it needs failures, and -no-abort keeps it a warning. *)
Trip ==
  /\ Scanning /\ pass.failures /\ ~world.noAbort /\ ~pass.tripped
  /\ pass' = [pass EXCEPT !.tripped = TRUE]
  /\ UNCHANGED <<ctlVars, diskVars, endVars, phase, at, cur, out, again, seeds>>

Drained ==
  /\ CapReached \/ (pass.next = Len(pass.list) /\ pass.kids = {})
  /\ pass.flight = {}

Ended == Scanning /\ pass.heard = {} /\ (Drained \/ Stopping)

-----------------------------------------------------------------------------
(* The target loop. *)

Fresh0 == [done |-> FALSE, failed |-> FALSE, abort |-> FALSE, rootDone |-> 0,
           processed |-> 0, perm |-> NoPerm]

Resuming == resume # NoState
Saved == resume[at]

(* remainingBudget: what is left of the cap, and whether anything is. *)
WholeBudget(processed) == world.maxQueries
Left(processed) == world.maxQueries - processed
Spent(processed) == world.maxQueries > 0 /\ Left(processed) <= 0

AllNames(hits) == {h.name : h \in hits}
MainNames(hits) == {h.name : h \in {g \in hits : ~g.perm}}
Names(list) == {list[k] : k \in DOMAIN list}

(* The entries of a list at some positions, in order. *)
Picked(list, positions) ==
  [j \in 1..Cardinality(positions) |->
     list[CHOOSE k \in positions : Cardinality({m \in positions : m <= k}) = j]]

PermNames(names, entries) ==
  LET list == [k \in DOMAIN world.perms |-> world.perms[k].name]
  IN Picked(list, {k \in DOMAIN list :
                     world.perms[k].seed \in names /\ list[k] \notin names \cup entries})

(* certificateTransparency: the names a resumed run saved, or a fresh lookup,  *)
(* which may fail; without -ct there are none.                                 *)
AskLogs ==
  \/ Resuming /\ Saved.logs.fetched /\ logs' = [logs EXCEPT ![at] = Saved.logs]
  \/ /\ ~(Resuming /\ Saved.logs.fetched)
     /\ \/ logs' = [logs EXCEPT ![at] = [names |-> world.logNames, fetched |-> world.logNames # <<>>]]
        \/ world.logsFail /\ logs' = [logs EXCEPT ![at] = NoLogs]

(* withCTEntries: the new names go behind the wordlist, whose positions stay.  *)
NewNames(list) == Picked(list, {k \in DOMAIN list : list[k] \notin Names(Entries)})
Candidates(info) == Entries \o NewNames(info.names)

Restore(hits) ==
  /\ cur' = hits
  /\ out' = out \cup {<<at, h>> : h \in hits}

Loop ==
  /\ phase = "next" /\ (ctx \/ at > world.targets)
  /\ phase' = "over"
  /\ UNCHANGED <<ctlVars, diskVars, endVars, at, cur, out, pass, again, seeds>>

(* A target that had finished is only restored. *)
SkipFinished ==
  /\ phase = "next" /\ ~ctx /\ at <= world.targets
  /\ Resuming /\ Saved.done
  /\ Restore(Saved.results)
  /\ result' = [result EXCEPT ![at] =
       [Fresh0 EXCEPT !.done = TRUE, !.rootDone = Saved.rootDone, !.processed = Saved.processed]]
  /\ kept' = [kept EXCEPT ![at] = Saved.results]
  /\ UNCHANGED logs  \* asked all the same, but not kept with the result
  /\ status' = [status EXCEPT ![at] = "ok"]
  /\ at' = at + 1
  /\ UNCHANGED <<ctlVars, diskVars, phase, pass, again, seeds>>

BeginTarget ==
  /\ phase = "next" /\ ~ctx /\ at <= world.targets
  /\ Resuming => ~Saved.done
  /\ AskLogs
  /\ IF Resuming THEN Restore(Saved.results) ELSE cur' = {} /\ UNCHANGED out
  /\ IF Resuming /\ Spent(Saved.processed)
     THEN /\ phase' = "permute"
          /\ result' = [result EXCEPT ![at] =
               [Fresh0 EXCEPT !.done = TRUE, !.rootDone = Saved.rootDone,
                              !.processed = Saved.processed]]
     ELSE phase' = "preflight" /\ result' = [result EXCEPT ![at] = Fresh0]
  /\ UNCHANGED <<ctlVars, diskVars, status, kept, at, pass, again, seeds>>

(* A scan that never reached its candidates is not done (Stopped). *)
Stop(failed, next) ==
  /\ ctx \/ failed
  /\ phase' = next
  /\ result' = [result EXCEPT ![at].failed = @ \/ failed]
  /\ UNCHANGED <<pass, seeds>>

Preflight ==
  /\ phase = "preflight"
  /\ \/ Stop(FALSE, "permute")
     \/ world.flaky /\ Stop(TRUE, "permute")
     \/ /\ ~ctx
        /\ phase' = "main"
        /\ pass' = IF Resuming
                   THEN NewPass(Candidates(logs[at]), Saved.rootDone, MainNames(Saved.results), world.recursive,
                                IF world.maxQueries = 0 THEN 0 ELSE Left(Saved.processed))
                   ELSE NewPass(Candidates(logs[at]), 0, {}, world.recursive, world.maxQueries)
        /\ UNCHANGED <<result, seeds>>
  /\ UNCHANGED <<ctlVars, diskVars, status, kept, logs, at, cur, out, again>>

(* EventDone: the resumed part is merged with what was saved. *)
EndMain ==
  /\ phase = "main" /\ Ended
  /\ phase' = "permute"
  /\ result' = [result EXCEPT ![at] =
       [@ EXCEPT !.done = TRUE, !.abort = pass.tripped, !.failed = pass.tripped,
                 !.rootDone = Watermark,
                 !.processed = pass.counted + IF Resuming THEN Saved.processed ELSE 0]]
  /\ pass' = NoPass
  /\ UNCHANGED <<ctlVars, diskVars, status, kept, logs, at, cur, out, again, seeds>>

-----------------------------------------------------------------------------
(* The permutation pass. *)

PermWanted == world.permute /\ result[at].done /\ ~result[at].abort /\ ~signal
PermSaved == Resuming /\ Saved.perm.started
PermCandidates ==
  PermNames(MainNames(cur) \cup Names(logs[at].names), Names(Candidates(logs[at])))

DecidePermute ==
  /\ phase = "permute"
  /\ \/ /\ ~PermWanted \/ PermCandidates = <<>>
        /\ phase' = "status" /\ UNCHANGED result
     \/ /\ PermWanted /\ PermCandidates # <<>> /\ PermSaved /\ Spent(Saved.perm.processed)
        /\ phase' = "status"
        /\ result' = [result EXCEPT ![at].perm = [Saved.perm EXCEPT !.done = TRUE]]
     \/ /\ PermWanted /\ PermCandidates # <<>> /\ ~(PermSaved /\ Spent(Saved.perm.processed))
        /\ phase' = "permPreflight"
        /\ result' = [result EXCEPT ![at].perm = [NoPerm EXCEPT !.started = TRUE]]
  /\ UNCHANGED <<ctlVars, diskVars, status, kept, logs, at, cur, out, pass, again, seeds>>

PermPreflight ==
  /\ phase = "permPreflight"
  /\ \/ Stop(FALSE, "status")
     \/ world.flaky /\ Stop(TRUE, "status")
     \/ /\ ~ctx
        /\ phase' = "perm"
        /\ pass' = IF PermSaved
                   THEN NewPass(PermCandidates, Saved.perm.rootDone, {}, FALSE,
                                IF world.maxQueries = 0 THEN 0 ELSE Left(Saved.perm.processed))
                   ELSE NewPass(PermCandidates, 0, {}, FALSE, world.maxQueries)
        /\ seeds' = IF PermSaved THEN seeds ELSE [seeds EXCEPT ![at] = PermCandidates]
        /\ UNCHANGED result
  /\ UNCHANGED <<ctlVars, diskVars, status, kept, logs, at, cur, out, again>>

EndPerm ==
  /\ phase = "perm" /\ Ended
  /\ phase' = "status"
  /\ result' = [result EXCEPT ![at] =
       [@ EXCEPT !.failed = result[at].failed \/ pass.tripped,
                 !.perm = [started |-> TRUE, done |-> TRUE, rootDone |-> Watermark,
                           processed |-> pass.counted +
                             IF PermSaved THEN Saved.perm.processed ELSE 0]]]
  /\ pass' = NoPass
  /\ UNCHANGED <<ctlVars, diskVars, status, kept, logs, at, cur, out, again, seeds>>

-----------------------------------------------------------------------------
(* After a target: its status, and the targets an overloaded resolver spares. *)
Verdict == IF result[at].failed THEN "failed" ELSE IF signal THEN "interrupted" ELSE "ok"

SetStatus ==
  /\ phase = "status"
  /\ kept' = [kept EXCEPT ![at] = cur]
  /\ status' = [i \in TargetIndex |->
       IF i = at THEN Verdict
       ELSE IF i > at /\ result[at].abort THEN "skipped"
       ELSE status[i]]
  /\ at' = at + 1
  /\ phase' = IF result[at].abort THEN "over" ELSE "next"
  /\ UNCHANGED <<ctlVars, diskVars, result, logs, cur, out, pass, again, seeds>>

(* saveResumeState: what an interrupted run writes of target i. *)
KeptPoint(i, r) ==
  IF r.done THEN <<r.rootDone, r.processed>> ELSE <<0, 0>>

ResumePoint(i, r) ==
  IF r.done THEN <<r.rootDone, r.processed>>
  ELSE IF Resuming THEN <<resume[i].rootDone, resume[i].processed>>
  ELSE <<0, 0>>

ReachedAlways(i) == FALSE
Unreached(i) == status[i] = "" /\ Resuming

SavedTarget(i) ==
  LET r == result[i]
  IN IF Unreached(i)
     THEN resume[i]
     ELSE [rootDone |-> ResumePoint(i, r)[1], processed |-> ResumePoint(i, r)[2],
           results |-> kept[i], logs |-> logs[i],
           perm |-> IF r.perm.done THEN r.perm ELSE IF Resuming THEN resume[i].perm ELSE NoPerm,
           done |-> status[i] = "ok" /\ r.done /\ (r.perm.started => r.perm.done)]

AnyFailed == \E i \in TargetIndex : result[i].failed

(* An interrupted run saves its state; a resumed one that finished removes it. *)
Finish ==
  /\ phase = "over"
  /\ file' = IF signal THEN [i \in TargetIndex |-> SavedTarget(i)]
             ELSE IF Resuming /\ ~AnyFailed THEN NoState
             ELSE file
  /\ phase' = "commit"
  /\ UNCHANGED <<ctlVars, resume, outputVars, endVars, at, cur, out, pass, again, seeds>>

(* The deferred File.Close: the results file is replaced if a scan finished    *)
(* and nothing fails.  Module OutputRun has its steps.                         *)
AnyDone == \E i \in TargetIndex : result[i].done

CommitResults ==
  /\ phase = "commit" /\ phase' = "exited"
  /\ \/ UNCHANGED missed /\ published' = IF AnyDone THEN out ELSE published
     \/ AnyDone /\ missed < MaxMissed /\ missed' = missed + 1 /\ UNCHANGED published
  /\ UNCHANGED <<ctlVars, resume, file, endVars, at, cur, out, pass, again, seeds>>

-----------------------------------------------------------------------------
(* The signal goroutine stores the code, then cancels. *)
Running == phase \notin {"exited", "killed"}

Signal ==
  /\ ~signal /\ Running /\ runs < MaxRuns
  /\ signal' = TRUE
  /\ UNCHANGED <<runs, ctx, diskVars, endVars, phase, at, cur, out, pass, again, seeds>>

NotYetStored == TRUE
SignalStored == signal

Cancel ==
  /\ ~ctx /\ SignalStored /\ Running
  /\ ctx' = TRUE
  /\ UNCHANGED <<runs, signal, diskVars, endVars, phase, at, cur, out, pass, again, seeds>>

(* A second Ctrl+C, or the machine, kills the run before it saved anything. *)
Kill ==
  /\ Running /\ runs < MaxRuns
  /\ phase' = "killed"
  /\ IF phase = "commit" THEN missed < MaxMissed /\ missed' = missed + 1 ELSE UNCHANGED missed
  /\ cur' = {} /\ out' = {} /\ pass' = NoPass
  /\ UNCHANGED <<ctlVars, resume, file, published, endVars, at, again, seeds>>

Each(value) == [i \in TargetIndex |-> value]

Restart ==
  /\ ~Running /\ file # NoState /\ runs < MaxRuns
  /\ runs' = runs + 1 /\ resume' = file
  /\ phase' = "next" /\ at' = 1 /\ signal' = FALSE /\ ctx' = FALSE
  /\ status' = Each("") /\ result' = Each(Fresh0) /\ kept' = Each({}) /\ logs' = Each(NoLogs)
  /\ cur' = {} /\ out' = {} /\ again' = {} /\ pass' = NoPass
  /\ UNCHANGED <<file, outputVars, seeds>>

Init ==
  /\ world \in Worlds
  /\ runs = 1 /\ resume = NoState /\ file = NoState
  /\ phase = "next" /\ at = 1 /\ signal = FALSE /\ ctx = FALSE
  /\ status = Each("") /\ result = Each(Fresh0) /\ kept = Each({}) /\ logs = Each(NoLogs)
  /\ cur = {} /\ out = {} /\ again = {} /\ pass = NoPass
  /\ published = {} /\ missed = 0
  /\ seeds = Each(<<>>)

Scan ==
  \/ Dispatch \/ Trip
  \/ \E job \in pass.flight, o \in {"found", "nxdomain", "failed"} : Answer(job, o)
  \/ \E pair \in pass.heard : Complete(pair[1], pair[2])

Run ==
  \/ Loop \/ SkipFinished \/ BeginTarget \/ Preflight \/ EndMain
  \/ DecidePermute \/ PermPreflight \/ EndPerm \/ SetStatus \/ Finish
  \/ CommitResults

Next == (Scan \/ Run \/ Signal \/ Cancel \/ Kill \/ Restart) /\ UNCHANGED world

Spec == Init /\ [][Next]_vars
=============================================================================
