------------------------------- MODULE DotProps -------------------------------
(* What the pool of DNS-over-TLS connections promises: of module DotDialer.    *)
EXTENDS DotDialer, SequencesExt

InUse == {q \in Query : qpc[q] \in {"write", "read", "close"}}

(* A connection that is reused never hands a query the answer another one did  *)
(* not wait for, and is never in two hands: no two queries hold one, no query  *)
(* holds one that is in the pool, and the pool holds each once.                *)
AnswersMatch ==
  /\ \A q \in Query : heard[q] \in {q, "none"}
  /\ \A p, q \in InUse : p # q => on[p] # on[q]
  /\ \A q \in InUse : on[q] \notin ToSet(idle)
  /\ IsInjective(idle)
=============================================================================
