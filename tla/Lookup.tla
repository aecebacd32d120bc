------------------------------- MODULE Lookup -------------------------------
(***************************************************************************)
(* A lookup on the wire (internal/dns/resolver.go): attempts, one lookup   *)
(* per record type, the rate slots reserved for it before its timeout      *)
(* starts, and the Dial hook that charges whatever queries Go's resolver   *)
(* sends beyond them.                                                      *)
(*                                                                         *)
(* Go's resolver is external: it dials once per query and answers with     *)
(* records, without any, with a negative, or with a failure (a timeout,    *)
(* REFUSED or another error).  Its dials are taken one after the other.    *)
(***************************************************************************)
EXTENDS RateLimiter, FiniteSets, SequencesExt

CONSTANTS
  Types,      \* the record types asked for, in order
  Attempts,   \* maxAttempts
  MaxDials    \* bound: the queries Go sends for one type

ASSUME LookupAssumption ==
  /\ Types \in Seq({"A", "AAAA", "CNAME"}) /\ Types # <<>>
  /\ Attempts \in Nat \ {0} /\ MaxDials \in Nat \ {0}

VARIABLES
  lpc,       \* where each lookup is
  attempt,   \* its attempt
  type,      \* the index of the type it asks for
  paid,      \* the slots it has taken for that type so far
  dials,     \* wireBudget.dials
  answers,   \* the answers of this attempt, one per type
  reply,     \* what ResolveDomainWithRetry returned
  wire,      \* the queries that went out
  lookCtx    \* the context is cancelled

askVars == <<attempt, type, paid, dials, answers, reply>>
lookVars == <<rateVars, lpc, askVars, wire, lookCtx>>

queriesPerType == [A |-> 1, AAAA |-> 1, CNAME |-> 3]
Prepaid(c) == queriesPerType[Types[type[c]]]

LookInit ==
  /\ RateInit
  /\ lpc = [c \in Client |-> "attempt"] /\ attempt = [c \in Client |-> 1]
  /\ type = [c \in Client |-> 1] /\ paid = [c \in Client |-> 0]
  /\ dials = [c \in Client |-> 0] /\ answers = [c \in Client |-> <<>>]
  /\ reply = [c \in Client |-> "none"] /\ wire = 0 /\ lookCtx = FALSE

LookAt(c, place) == lpc[c] = place
LookTo(c, place) == lpc' = [lpc EXCEPT ![c] = place]
Return(c, outcome) == LookTo(c, "over") /\ reply' = [reply EXCEPT ![c] = outcome]

-----------------------------------------------------------------------------
(* ResolveDomainWithRetry. *)
StartAttempt(c) ==
  /\ LookAt(c, "attempt")
  /\ IF lookCtx
     THEN Return(c, "canceled") /\ UNCHANGED <<type, paid, answers>>
     ELSE /\ LookTo(c, "reserve")
          /\ type' = [type EXCEPT ![c] = 1] /\ paid' = [paid EXCEPT ![c] = 0]
          /\ answers' = [answers EXCEPT ![c] = <<>>]
          /\ UNCHANGED reply
  /\ UNCHANGED <<rateVars, attempt, dials, wire, lookCtx>>

(* ResolveTypes: one slot per query the type is expected to take.              *)
ReserveSlot(c) ==
  /\ LookAt(c, "reserve") /\ Reserve(c) /\ LookTo(c, "wait")
  /\ UNCHANGED <<askVars, wire, lookCtx>>

SlotTaken(c) ==
  /\ LookAt(c, "wait") /\ Serve(c)
  /\ paid' = [paid EXCEPT ![c] = @ + 1]
  /\ LookTo(c, IF paid'[c] < Prepaid(c) THEN "reserve" ELSE "lookup")
  /\ dials' = [dials EXCEPT ![c] = 0]
  /\ UNCHANGED <<attempt, type, answers, reply, wire, lookCtx>>

(* Wait fails: ResolveTypes returns what it has with the context's error.      *)
SlotRefused(c) ==
  /\ LookAt(c, "wait") /\ lookCtx /\ StopWaiting(c)
  /\ answers' = [answers EXCEPT ![c] = IF Contains(@, "records") THEN <<"records", "canceled">>
                                       ELSE <<"canceled">>]
  /\ LookTo(c, "judge")
  /\ UNCHANGED <<attempt, type, paid, dials, reply, wire, lookCtx>>

-----------------------------------------------------------------------------
(* The Dial hook of NewResolver. *)
BeyondPaidLate(c) == dials[c] > Prepaid(c)
BeyondPaid(c) == dials[c] + 1 > Prepaid(c)

Dial(c) ==
  /\ LookAt(c, "lookup") /\ dials[c] < MaxDials
  /\ dials' = [dials EXCEPT ![c] = @ + 1]
  /\ \/ ~BeyondPaid(c) /\ wire' = wire + 1 /\ UNCHANGED <<rateVars, lpc>>
     \/ BeyondPaid(c) /\ Reserve(c) /\ LookTo(c, "extra") /\ UNCHANGED wire
  /\ UNCHANGED <<attempt, type, paid, answers, reply, lookCtx>>

ExtraTaken(c) ==
  /\ LookAt(c, "extra") /\ Serve(c)
  /\ wire' = wire + 1 /\ LookTo(c, "lookup")
  /\ UNCHANGED <<askVars, lookCtx>>

(* The lookup's own timeout, or a cancel, ends the wait for an extra slot.     *)
ExtraRefused(c) ==
  /\ LookAt(c, "extra") /\ StopWaiting(c) /\ LookTo(c, "lookup")
  /\ UNCHANGED <<askVars, wire, lookCtx>>

-----------------------------------------------------------------------------
(* lookupType returns, and the next type follows.                              *)
Answered(c) ==
  /\ LookAt(c, "lookup") /\ dials[c] > 0
  /\ \E a \in {"records", "nodata", "nxdomain", "failed", "canceled"} :
       /\ a = "nodata" => Types[type[c]] = "CNAME"
       /\ a = "canceled" => lookCtx
       /\ answers' = [answers EXCEPT ![c] = Append(@, a)]
  /\ IF type[c] < Len(Types)
     THEN LookTo(c, "reserve") /\ type' = [type EXCEPT ![c] = @ + 1]
     ELSE LookTo(c, "judge") /\ UNCHANGED type
  /\ paid' = [paid EXCEPT ![c] = 0]
  /\ UNCHANGED <<rateVars, attempt, dials, reply, wire, lookCtx>>

(* worse: an infrastructure failure outranks a negative; the first one stays.  *)
(* Without an error and without records the answer is a negative (NODATA).     *)
FirstOf(c, kinds) ==
  LET hits == {k \in DOMAIN answers[c] : answers[c][k] \in kinds}
  IN IF hits = {} THEN "nxdomain" ELSE answers[c][Min(hits)]

FirstErrorStays(c) == FirstOf(c, {"nxdomain", "failed", "canceled"})
LastOutcome(c) == FirstOf(c, {"failed", "canceled"})

Judge(c) ==
  /\ LookAt(c, "judge")
  /\ IF Contains(answers[c], "records") THEN Return(c, "found")
     ELSE IF LastOutcome(c) # "failed" \/ attempt[c] = Attempts
          THEN Return(c, LastOutcome(c))
     ELSE LookTo(c, "backoff") /\ UNCHANGED reply
  /\ UNCHANGED <<rateVars, attempt, type, paid, dials, answers, wire, lookCtx>>

Backoff(c) ==
  /\ LookAt(c, "backoff")
  /\ \/ lookCtx /\ Return(c, "canceled") /\ UNCHANGED attempt
     \/ LookTo(c, "attempt") /\ attempt' = [attempt EXCEPT ![c] = @ + 1] /\ UNCHANGED reply
  /\ UNCHANGED <<rateVars, type, paid, dials, answers, wire, lookCtx>>

CancelLookups ==
  /\ ~lookCtx /\ lookCtx' = TRUE
  /\ UNCHANGED <<rateVars, lpc, askVars, wire>>

TimePasses == ClockTick /\ UNCHANGED <<lpc, askVars, wire, lookCtx>>

-----------------------------------------------------------------------------
LookStep(c) ==
  \/ StartAttempt(c) \/ ReserveSlot(c) \/ SlotTaken(c) \/ SlotRefused(c)
  \/ Dial(c) \/ ExtraTaken(c) \/ ExtraRefused(c)
  \/ Answered(c) \/ Judge(c) \/ Backoff(c)

LookNext == TimePasses \/ CancelLookups \/ \E c \in Client : LookStep(c)
LookSpec == LookInit /\ [][LookNext]_lookVars
=============================================================================
