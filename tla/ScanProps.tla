------------------------------ MODULE ScanProps ------------------------------
(* What the scan engine must guarantee: the properties of module ScanRun.    *)
EXTENDS ScanRun

-----------------------------------------------------------------------------
MainPcs == {"scope", "ceiling", "preflight", "wildcard", "spawn", "join",
            "joinTicker", "stopped", "close", "returned"}
DispPcs == {"off", "next", "select", "closing", "closed"}
WorkPcs == {"off", "recv", "begin", "lookup", "count", "guard", "trip", "found",
            "result", "probe", "enqueue", "report", "exited"}
TickPcs == {"off", "wait", "load", "send", "exited"}
Jobs == Job \cup {NoJob}
Progress == [processed : Nat, total : Int, found : Nat]
Final == [stopped : BOOLEAN, processed : Nat, total : Int, found : Nat,
          stats : [Counted -> Nat], skipped : Int, excluded : Nat,
          rootDone : 0..N, aborted : BOOLEAN]

(* Every variable of the engine has the type its Go declaration gives it. *)
CtlType ==
  /\ target \in Targets /\ force \in Forces
  /\ main \in MainPcs /\ wildRoot \in BOOLEAN /\ cancelled \in BOOLEAN

QueueType ==
  /\ disp \in DispPcs
  /\ frontier \in Seq(Expansion)
  /\ remaining \in Int /\ total \in Int
  /\ visited \subseteq Name
  /\ ready \in Jobs /\ pending \in Int
  /\ admitted \in Nat /\ skipped \in Int /\ excluded \in Nat /\ capped \in BOOLEAN

MarkType == settled \subseteq 0..N /\ watermark \in 0..N

WorkType ==
  /\ wpc \in [Worker -> WorkPcs]
  /\ wjob \in [Worker -> Jobs]
  /\ wout \in [Worker -> Counted \cup {"cut"}]
  /\ wn \in [Worker -> Nat]

CountType ==
  /\ processed \in Nat /\ found \in Nat
  /\ stats \in [Counted -> Nat]
  /\ tested \subseteq Jobs
  /\ guard \in {"idle", "busy", "done"} /\ tripped \in Nat \X Nat
  /\ aborted \in BOOLEAN

TickType == tpc \in TickPcs /\ tmsg \in Progress /\ ticks \in Nat

OutType ==
  /\ results \subseteq Name
  /\ notices \subseteq {"ceiling", "wildcard", "skip", "cap"} \X Name
  /\ errors \subseteq {"scope", "ceiling", "preflight", "inconclusive", "wildcard", "guard"}
  /\ progress \in Progress /\ closed \in BOOLEAN
  /\ done \in Seq(Final)

TypeOK ==
  CtlType /\ QueueType /\ MarkType /\ WorkType /\ CountType /\ TickType /\ OutType

Busy == {w \in Worker : wpc[w] \notin {"off", "recv", "exited"}}
TestedNames == {j.name : j \in tested}

(* Close of events races no sender: when Run closes the channel, its workers, *)
(* the dispatcher (which sends the cap notice) and the ticker have all ended. *)
NobodyOutlivesRun ==
  main \in {"close", "returned"} =>
    /\ \A w \in Worker : wpc[w] \in {"off", "exited"}
    /\ disp \in {"off", "closed"}
    /\ tpc \in {"off", "exited"}

(* Every scan, refused, cancelled or complete, ends with exactly one EventDone *)
(* before events is closed (#99).                                              *)
OneDone == closed => Len(done) = 1

(* Nothing is sent after EventDone: consumers stop reading results there. *)
DoneIsLast ==
  [][done # <<>> => UNCHANGED <<results, notices, errors, progress, done>>]_vars

(* So the final event is there, once, and final. *)
FinalEvent == []OneDone /\ DoneIsLast

(* The dispatcher's pending counter is the number of jobs in the workers'      *)
(* hands; only a cancelled scan, whose workers may drop a completion, counts   *)
(* too many.  So jobs is never closed under a worker about to enqueue.         *)
PendingExact ==
  disp \in {"next", "select"} =>
    /\ pending >= Cardinality(Busy)
    /\ ~cancelled => pending = Cardinality(Busy)

(* The resume point never passes an entry that was neither looked up to an     *)
(* answer nor out of scope, whatever order the workers finish in and whenever  *)
(* the scan is cancelled (#73).                                                *)
WatermarkSound ==
  \A i \in Start..(watermark - 1) :
    Entries[i + 1] \in TestedNames \/ Excluded(Entries[i + 1])

StatsSum == stats["found"] + stats["nxdomain"] + stats["failed"] + stats["filtered"]

(* The worker whose query was counted last has every failure in its snapshot.  *)
GuardMissesNothing ==
  done # <<>> /\ done[1].processed >= MinJobs
    /\ done[1].stats["failed"] * 100 > done[1].processed * FailPercent
  => "guard" \in errors

(* Each answer is counted once: the outcome counters sum to the names looked   *)
(* up, no name is looked up twice, and the counters that trail them catch up   *)
(* by EventDone, when every found name has been reported.  So the guard, which *)
(* compares two of them that are not updated together, may fire early but      *)
(* never lets a scan end above its limit in silence.                           *)
CountsAgree ==
  /\ GuardMissesNothing
  /\ StatsSum = Cardinality(tested)
  /\ Cardinality(TestedNames) = Cardinality(tested)
  /\ processed <= StatsSum /\ found <= stats["found"]
  /\ done # <<>> =>
       /\ done[1].processed = Cardinality(tested)
       /\ done[1].found = done[1].stats["found"]
       /\ done[1].found = Cardinality(results)

(* Skipped candidates are always announced on a scan that was not cancelled,   *)
(* and only a scan that used its whole query budget skips any.                 *)
CapAnnounced ==
  /\ skipped > 0 => admitted = MaxQueries
  /\ done # <<>> /\ ~done[1].stopped /\ main = "close" /\ ~cancelled =>
       (skipped > 0) = (<<"cap", <<>>>> \in notices)

-----------------------------------------------------------------------------
(* The engine keeps the contract of module ScanContract. *)

InScopeChildren(parent) ==
  {n \in {Child(i, parent) : i \in 0..(N - 1)} : ~Excluded(n)}

ResumedParents ==
  {[name |-> ResumeExpansions[k].parent, depth |-> ResumeExpansions[k].depth - 1] :
     k \in {i \in DOMAIN ResumeExpansions : Expandable(ResumeParents[i])}}

HitPcs == {"count", "guard", "trip", "found", "result"}

Contract == INSTANCE ScanContract WITH
  Roots    <- {n \in {Entries[i + 1] : i \in Start..(N - 1)} : ~Excluded(n)},
  Resumed  <- ResumedParents,
  Below    <- InScopeChildren,
  Depth    <- IF Recursive THEN MaxDepth ELSE 1,
  Cap      <- MaxQueries,
  tested   <- {[name |-> j.name, depth |-> j.depth] : j \in tested},
  hits     <- results \cup
              {wjob[w].name : w \in {v \in Worker : wout[v] = "found" /\ wpc[v] \in HitPcs}},
  reported <- results,
  failed   <- stats["failed"],
  pruned   <- {n[2] : n \in {m \in notices : m[1] = "skip"}},
  cut      <- cancelled \/ main = "stopped" \/ (done # <<>> /\ done[1].stopped),
  over     <- done # <<>>

(* Every step of the engine is a step of the contract or invisible to the      *)
(* caller: the scan that ends uncancelled and below its cap has looked up      *)
(* every candidate, recursively, and reported every hit, and a lookup that an  *)
(* interrupt cut short never counts against the resolver (#42).                *)
KeepsContract == Contract!Spec

-----------------------------------------------------------------------------
(* Run returns: no goroutine waits forever on another, with or without a       *)
(* cancel at any point.                                                        *)
Terminates == <>(main = "returned")

=============================================================================
