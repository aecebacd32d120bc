------------------------------- MODULE Wildcard -------------------------------
(***************************************************************************)
(* Wildcard zones: the check that learns what a zone answers to names that *)
(* do not exist (checkWildcard of internal/dns/resolver.go), the verdicts  *)
(* cached per parent, and the fingerprint that the workers of a scan match *)
(* their results with and extend (internal/scan/runner.go).                *)
(*                                                                         *)
(* A zone is the set of answers it serves to names that do not exist; an   *)
(* answer is a set of records.  The server rotates: an answer differs from *)
(* the last one if the zone has several, and none stays away for longer    *)
(* than Window answers.  One lookup with all its attempts is one step.     *)
(***************************************************************************)
EXTENDS Integers, FiniteSets

CONSTANTS
  Zones,                 \* the zones considered, {} for one without wildcard
  Own,                   \* the answers of the names that exist
  Checker,               \* the workers
  Window,                \* how long an answer may stay away
  fingerprintProbes,     \* the first probes of the root's check
  parentProbes,          \* the probes of a parent's check
  fingerprintMaxProbes,  \* the most probes of a check
  StaleMin, StaleFactor, \* a check ends once this many probes brought nothing new
  nearMissProbes,        \* the probes for a result that matches in part
  MaxResults             \* bound: results looked at

(* A zone has finitely many answers of finitely many records, and a lookup     *)
(* that is answered with no record did not find the name.                      *)
ASSUME WildcardAssumption ==
  /\ \A z \in Zones : {} \notin z /\ IsFiniteSet(z) /\ \A a \in z : IsFiniteSet(a)
  /\ Window \in Nat \ {0}
  /\ {fingerprintProbes, parentProbes, fingerprintMaxProbes, StaleMin, StaleFactor} \subseteq Nat

VARIABLES
  zone, lossy, ages, last,   \* the server, and whether lookups may fail
  wildCtx,                   \* ctx is done
  mode,                      \* "root": FingerprintWildcard, "parent": isWildcard
  stage,                     \* where the check is
  sent, first, stale, learned, \* its i or n, firstSize, stale, and fp
  verdict,                   \* what it returned
  known,                     \* wildcardCache.known for the parent
  fp,                        \* the scan's fingerprint
  place, got, exists, left,     \* per worker: its place, result, and probes left
  shown, filtered            \* the results reported and filtered

serverVars == <<zone, lossy, ages, last>>
checkVars == <<mode, stage, sent, first, stale, learned, verdict, known>>
resultVars == <<fp, place, got, exists, left, shown, filtered>>
wildVars == <<serverVars, wildCtx, checkVars, resultVars>>

Size(records) == Cardinality(records)
Answers == UNION Zones
NoAnswer == {}

WildInit ==
  /\ zone \in Zones /\ lossy \in BOOLEAN
  /\ ages = [a \in Answers |-> 0] /\ last = NoAnswer
  /\ wildCtx = FALSE
  /\ mode \in {"root", "parent"} /\ stage = "probing"
  /\ sent = 0 /\ first = -1 /\ stale = 0 /\ learned = {}
  /\ verdict = "open" /\ known = "open"
  /\ fp = {}
  /\ place = [w \in Checker |-> "idle"] /\ got = [w \in Checker |-> {}]
  /\ exists = [w \in Checker |-> FALSE] /\ left = [w \in Checker |-> 0]
  /\ shown = {} /\ filtered = {}

-----------------------------------------------------------------------------
(* The server's answers to a name that does not exist. *)

After(a) == [b \in Answers |-> IF b = a \/ b \notin zone THEN 0 ELSE ages[b] + 1]

Due(b, k, a) == Window - After(a)[b] <= k

MayServe(a) ==
  /\ a \in zone
  /\ Cardinality(zone) > 1 => a # last
  /\ \A k \in 0..Window : Cardinality({b \in zone : Due(b, k, a)}) <= k

Serve(a) == MayServe(a) /\ ages' = After(a) /\ last' = a /\ UNCHANGED <<zone, lossy>>

(* What ResolveDomainWithRetry makes of it: records of the answer, of some     *)
(* types only if others failed, NXDOMAIN if the zone has no wildcard, or none. *)
LookedUp(recs, o) ==
  \/ /\ ~wildCtx /\ o = "found"
     /\ \E a \in zone : Serve(a) /\ (recs = a \/ (lossy /\ recs \in (SUBSET a) \ {{}}))
  \/ ~wildCtx /\ zone = {} /\ o = "nxdomain" /\ recs = {} /\ UNCHANGED serverVars
  \/ ~wildCtx /\ lossy /\ o = "failed" /\ recs = {} /\ UNCHANGED serverVars
  \/ wildCtx /\ o = "canceled" /\ recs = {} /\ UNCHANGED serverVars

Records == UNION (Answers \cup Own)
Outcomes == {"found", "nxdomain", "failed", "canceled"}

CancelWild ==
  /\ ~wildCtx /\ wildCtx' = TRUE
  /\ UNCHANGED <<serverVars, checkVars, resultVars>>

-----------------------------------------------------------------------------
(* checkWildcard. *)

Probes == IF mode = "root" THEN fingerprintProbes ELSE parentProbes

ConclusiveUnlessCut(o) == o # "canceled"
Conclusive(o) == o \in {"found", "nxdomain"}

SizeOfThis(size) == size
FirstSize(size) == IF first < 0 THEN size ELSE first

Patience(size) == IF StaleFactor * size > StaleMin THEN StaleFactor * size ELSE StaleMin

(* Where the check stands after n probes: it goes on past the first ones only  *)
(* for the root, while answers grew since the first one.                       *)
PhaseAfter(n, size, firstSize, quiet) ==
  IF n < Probes THEN "probing"
  ELSE IF size > firstSize /\ mode = "root" /\ n < fingerprintMaxProbes /\ quiet < Patience(size)
  THEN "saturating" ELSE "over"

Probe ==
  /\ stage \in {"probing", "saturating"}
  /\ \E recs \in SUBSET Records, o \in Outcomes :
       /\ LookedUp(recs, o)
       /\ IF Conclusive(o)
          THEN /\ learned' = learned \cup recs
               /\ sent' = sent + 1
               /\ first' = FirstSize(Size(learned'))
               /\ stale' = IF stage = "probing" \/ learned' # learned THEN 0 ELSE stale + 1
               /\ stage' = PhaseAfter(sent', Size(learned'), first', stale')
               /\ UNCHANGED verdict
          ELSE /\ stage' = "returned"
               /\ verdict' = IF o = "canceled" THEN "canceled" ELSE "inconclusive"
               /\ UNCHANGED <<learned, sent, first, stale>>
  /\ UNCHANGED <<wildCtx, mode, known, resultVars>>

(* The root's answers become the scan's fingerprint; a parent's verdict is     *)
(* cached, but never an inconclusive one.                                      *)
Conclude ==
  /\ stage = "over" /\ stage' = "returned"
  /\ verdict' = IF learned = {} THEN "none" ELSE "wildcard"
  /\ fp' = IF mode = "root" THEN learned ELSE fp
  /\ known' = IF mode = "parent" THEN verdict' ELSE known
  /\ UNCHANGED <<serverVars, wildCtx, mode, sent, first, stale, learned, place, got, exists,
                 left, shown, filtered>>

(* isWildcard is asked about the parent again. *)
AskAgain ==
  /\ mode = "parent" /\ stage = "returned" /\ ~wildCtx
  /\ IF known # "open" THEN verdict' = known /\ UNCHANGED stage
     ELSE stage' = "probing" /\ verdict' = "open"
  /\ sent' = 0 /\ first' = -1 /\ stale' = 0 /\ learned' = {}
  /\ UNCHANGED <<serverVars, wildCtx, mode, known, resultVars>>

-----------------------------------------------------------------------------
(* The workers of a scan of a wildcard zone under -force. *)

Seen == Cardinality(shown \cup filtered) + Cardinality({w \in Checker : place[w] # "idle"})

(* A lookup of a candidate answers with records: its own ones, or the zone's.  *)
FindResult(w) ==
  /\ place[w] = "idle" /\ mode = "root" /\ verdict = "wildcard" /\ Seen < MaxResults
  /\ \E recs \in (SUBSET Records) \ {{}} :
       /\ \/ recs \in Own /\ ~wildCtx /\ exists' = [exists EXCEPT ![w] = TRUE] /\ UNCHANGED serverVars
          \/ LookedUp(recs, "found") /\ exists' = [exists EXCEPT ![w] = FALSE]
       /\ got' = [got EXCEPT ![w] = recs]
  /\ place' = [place EXCEPT ![w] = "match"]
  /\ left' = [left EXCEPT ![w] = nearMissProbes]
  /\ UNCHANGED <<wildCtx, checkVars, fp, shown, filtered>>

Covered(recs) == fp # {} /\ recs # {} /\ recs \subseteq fp
Overlaps(recs) == recs \cap fp # {}

(* isWildcardAnswer: match, and with a partial match and probes left, probe on.*)
Match(w) ==
  /\ place[w] = "match"
  /\ LET result == <<exists[w], got[w]>> IN
     \/ /\ Covered(got[w])
        /\ filtered' = filtered \cup {result} /\ place' = [place EXCEPT ![w] = "idle"]
        /\ UNCHANGED shown
     \/ /\ ~Covered(got[w]) /\ Overlaps(got[w]) /\ left[w] > 0
        /\ place' = [place EXCEPT ![w] = "probe"] /\ UNCHANGED <<shown, filtered>>
     \/ /\ ~Covered(got[w]) /\ (~Overlaps(got[w]) \/ left[w] = 0)
        /\ shown' = shown \cup {result} /\ place' = [place EXCEPT ![w] = "idle"]
        /\ UNCHANGED filtered
  /\ UNCHANGED <<serverVars, wildCtx, checkVars, fp, got, exists, left>>

(* A fresh random label under the same parent; below a parent that exists the  *)
(* answer may be NXDOMAIN.  What it brings joins the fingerprint of all.       *)
Revalidate(w) ==
  /\ place[w] = "probe"
  /\ \E recs \in SUBSET Records, o \in Outcomes :
       /\ LookedUp(recs, o) \/ (exists[w] /\ recs = {} /\ o = "nxdomain" /\ UNCHANGED serverVars)
       /\ fp' = fp \cup recs
  /\ left' = [left EXCEPT ![w] = @ - 1]
  /\ place' = [place EXCEPT ![w] = "match"]
  /\ UNCHANGED <<wildCtx, checkVars, got, exists, shown, filtered>>

WildNext ==
  \/ Probe \/ Conclude \/ AskAgain \/ CancelWild
  \/ \E w \in Checker : FindResult(w) \/ Match(w) \/ Revalidate(w)

WildSpec == WildInit /\ [][WildNext]_wildVars
=============================================================================
