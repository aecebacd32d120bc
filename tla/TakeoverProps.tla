---------------------------- MODULE TakeoverProps ----------------------------
(* What the cache of takeover hints promises: properties of TakeoverCache.    *)
EXTENDS TakeoverCache, FiniteSets

EntriesOf(t) == {k \in DOMAIN made : made[k].of = t}
Looking(t) == {a \in Asker : hpc[a] = "lookup" /\ wants[a] = t}

(* Many names aliased to one host cost one lookup (#121): a target is never    *)
(* looked up twice at a time, and not again after a conclusive answer.         *)
LookupShared ==
  \A t \in Target :
    /\ Cardinality(Looking(t)) <= 1
    /\ Cardinality({k \in EntriesOf(t) :
                      made[k].closed /\ made[k].outcome \in Conclusive}) <= 1
    /\ Looking(t) # {} =>
         \A k \in EntriesOf(t) : made[k].closed => made[k].outcome \notin Conclusive

(* The workers that ask get their hints, all of them, however many of the      *)
(* lookups they waited for were inconclusive and whoever they share them with. *)
HintReturns ==
  (\E a \in Asker : hpc[a] = "ask") ~> (\A a \in Asker : hpc[a] \in {"idle", "over"})
=============================================================================
