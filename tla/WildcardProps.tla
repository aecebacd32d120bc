---------------------------- MODULE WildcardProps ----------------------------
(* What wildcard detection promises: the properties of module Wildcard.       *)
EXTENDS Wildcard

(* A verdict, cached or not, is about the zone and never about failed lookups  *)
(* (#47): neither is a wildcard taken for none, nor the other way round.       *)
VerdictTrue ==
  \A v \in {verdict, known} :
    (v = "none" => zone = {}) /\ (v = "wildcard" => zone # {})

Served == UNION zone

(* No result with a record of its own is filtered.                             *)
OnlyServedFiltered == \A r \in filtered : r[2] \subseteq Served

(* The fingerprint filters exactly the wildcard (#48).  No result with a       *)
(* record of its own is filtered, whatever the workers add at the same time;   *)
(* and when answers rotate, no lookup fails and nothing is cancelled, no name  *)
(* that does not exist is reported.                                            *)
FilterExact ==
  /\ OnlyServedFiltered
  /\ ~lossy /\ ~wildCtx => \A r \in shown : r[1]

(* What the second half needs of the zone: its answers come round within the   *)
(* probes of the shortest check that saw them differ, and none is a part of    *)
(* another one, as of a pool that hands out a fixed number of its addresses.   *)
ShortRotation ==
  /\ Window <= fingerprintProbes + StaleMin /\ Window <= fingerprintMaxProbes
  /\ fingerprintProbes > 1
  /\ \A z \in Zones : \A a, b \in z : a \subseteq b => a = b
=============================================================================
