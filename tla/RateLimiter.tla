---------------------------- MODULE RateLimiter ----------------------------
(***************************************************************************)
(* The rate limiter of internal/dns/ratelimit.go: callers reserve evenly   *)
(* spaced slots under a mutex and then sleep until theirs, unless their    *)
(* context ends.  A slot given up is not handed out again.                 *)
(***************************************************************************)
EXTENDS Integers, Sequences

CONSTANTS
  Client,    \* the goroutines that wait
  Interval,  \* the distance of two slots
  Horizon    \* bound on the clock

ASSUME RateAssumption == Interval \in Nat \ {0} /\ Horizon \in Nat

VARIABLES
  now,     \* the clock
  free,    \* RateLimiter.next: the earliest slot not handed out
  slot,    \* slot[c]: the slot a caller waits for, NoSlot if it does not
  handed   \* history: the slots handed out, in order (reserved is its length)

rateVars == <<now, free, slot, handed>>
NoSlot == -1

RateInit ==
  now = 0 /\ free = 0 /\ slot = [c \in Client |-> NoSlot] /\ handed = <<>>

(* The critical section of Wait.                                               *)
NextSlot == IF free < now THEN now ELSE free

Reserve(c) ==
  /\ slot[c] = NoSlot
  /\ slot' = [slot EXCEPT ![c] = NextSlot]
  /\ free' = NextSlot + Interval
  /\ handed' = Append(handed, NextSlot)
  /\ UNCHANGED now

(* Wait returns: the slot's time has come, or the context is done.             *)
StopWaiting(c) ==
  /\ slot[c] # NoSlot /\ slot' = [slot EXCEPT ![c] = NoSlot]
  /\ UNCHANGED <<now, free, handed>>

Serve(c) == slot[c] <= now /\ StopWaiting(c)

ClockTick ==
  /\ now < Horizon /\ now' = now + 1
  /\ UNCHANGED <<free, slot, handed>>

RateNext == ClockTick \/ \E c \in Client : Reserve(c) \/ StopWaiting(c)
RateSpec == RateInit /\ [][RateNext]_rateVars

(* Slots are at least an interval apart, whatever the callers do: no two share *)
(* one, and none is handed out early after a pause.                            *)
SlotsSpaced ==
  \A j, k \in DOMAIN handed : j < k => handed[j] + Interval <= handed[k]
=============================================================================
