---------------------------- MODULE ScanContract ----------------------------
(***************************************************************************)
(* What a scan promises its caller, without goroutines, channels or        *)
(* counters: every candidate name is looked up at most once, a hit is      *)
(* reported, the children of a reported hit become candidates, no lookup   *)
(* cut short counts as a failure, and a scan that is over was cut short,   *)
(* used up its query cap, or has looked up every candidate and reported    *)
(* every hit.                                                              *)
(***************************************************************************)
EXTENDS Integers, FiniteSets

CONSTANTS
  Roots,      \* the in-scope names one level below the target still to test
  Resumed,    \* [name, depth] of the parents found in an earlier run
  Below(_),   \* the in-scope children of a name
  Depth,      \* how deep the names tested may be
  Cap         \* how many names may be tested, 0 for no limit

VARIABLES
  tested,     \* the [name, depth] looked up to an answer
  hits,       \* the names that exist
  reported,   \* the names the caller was told of
  pruned,     \* reported names the caller was told are not expanded
  failed,     \* how many lookups failed: what the resolver is blamed for
  cut,        \* the scan was cancelled or refused
  over        \* the caller has the final event

vars == <<tested, hits, reported, pruned, failed, cut, over>>

Parents ==
  Resumed \cup {t \in tested : t.depth < Depth /\ t.name \in reported \ pruned}

Candidates ==
  {[name |-> n, depth |-> 1] : n \in Roots} \cup
  UNION {{[name |-> n, depth |-> p.depth + 1] : n \in Below(p.name)} : p \in Parents}

Open == {c \in Candidates : \A t \in tested : t.name # c.name}

Init ==
  /\ tested = {} /\ hits = {} /\ reported = {} /\ pruned = {}
  /\ failed = 0 /\ cut \in BOOLEAN /\ over = FALSE

(* Once the scan is cut, a lookup that fails was cut itself. *)
Test ==
  /\ ~over
  /\ Cap > 0 => Cardinality(tested) < Cap
  /\ \E c \in Open :
       /\ tested' = tested \cup {c}
       /\ \/ hits' \in {hits, hits \cup {c.name}} /\ UNCHANGED failed
          \/ ~cut /\ failed' = failed + 1 /\ UNCHANGED hits
  /\ UNCHANGED <<reported, pruned, cut, over>>

Report ==
  /\ ~over
  /\ \E n \in hits \ reported : reported' = reported \cup {n}
  /\ UNCHANGED <<tested, hits, pruned, failed, cut, over>>

Prune ==
  /\ ~over
  /\ \E n \in reported \ pruned : pruned' = pruned \cup {n}
  /\ UNCHANGED <<tested, hits, reported, failed, cut, over>>

Cut ==
  /\ cut' = TRUE
  /\ UNCHANGED <<tested, hits, reported, pruned, failed, over>>

Finish ==
  /\ ~over
  /\ hits = reported
  /\ cut \/ Open = {} \/ (Cap > 0 /\ Cardinality(tested) = Cap)
  /\ over' = TRUE
  /\ UNCHANGED <<tested, hits, reported, pruned, failed, cut>>

Next == Test \/ Report \/ Prune \/ Cut \/ Finish

Spec == Init /\ [][Next]_vars
=============================================================================
