---------------------------- MODULE TakeoverCache ----------------------------
(***************************************************************************)
(* The cache of takeover hints (internal/dns/takeover.go): the workers of  *)
(* a scan that found names with one CNAME target share one lookup of it.   *)
(* An inconclusive lookup is dropped from the cache, and those who waited  *)
(* for it ask again.                                                       *)
(***************************************************************************)
EXTENDS Integers, Sequences

CONSTANTS
  Asker,    \* the workers that ask for a hint, one name each
  Target    \* the CNAME targets, as keys of the cache

VARIABLES
  hpc,      \* where each worker is in Hint
  wants,    \* wants[a]: the target of its name
  entries,  \* TakeoverCache.entries: the number of a target's entry, or None
  made,     \* every entry made, in order: [of, outcome, closed]
  mine,     \* mine[a]: the entry it looks up or waits for
  hint,     \* hint[a]: what Hint returned
  hintCtx   \* the context is cancelled

hintVars == <<hpc, wants, entries, made, mine, hint, hintCtx>>

None == 0
Conclusive == {"found", "nxdomain"}

(* An entry's outcome is the zero value, OutcomeFound, until its lookup ends.  *)
NewEntry(t) == [of |-> t, outcome |-> "found", closed |-> FALSE]

(* takeoverMarker, for a target of no listed provider.                         *)
takeoverMarker(outcome) == IF outcome = "nxdomain" THEN "dangling" ELSE "plain"

HintInit ==
  /\ hpc = [a \in Asker |-> "idle"] /\ wants = [a \in Asker |-> CHOOSE t \in Target : TRUE]
  /\ entries = [t \in Target |-> None] /\ made = <<>>
  /\ mine = [a \in Asker |-> None] /\ hint = [a \in Asker |-> "none"]
  /\ hintCtx = FALSE

HintTo(a, place) == hpc' = [hpc EXCEPT ![a] = place]
Give(a, outcome) ==
  HintTo(a, "over") /\ hint' = [hint EXCEPT ![a] = takeoverMarker(outcome)]

-----------------------------------------------------------------------------
(* A worker found a name with a CNAME record (processJob). *)
FoundAlias(a) ==
  /\ hpc[a] = "idle" /\ HintTo(a, "ask")
  /\ \E t \in Target : wants' = [wants EXCEPT ![a] = t]
  /\ UNCHANGED <<entries, made, mine, hint, hintCtx>>

(* The first critical section: find the target's entry, or register one.       *)
RegisterLate(a) == UNCHANGED entries
Register(a) == entries' = [entries EXCEPT ![wants[a]] = Len(made) + 1]

Ask(a) ==
  /\ hpc[a] = "ask"
  /\ \/ /\ entries[wants[a]] # None
        /\ mine' = [mine EXCEPT ![a] = entries[wants[a]]]
        /\ HintTo(a, "wait") /\ UNCHANGED <<entries, made>>
     \/ /\ entries[wants[a]] = None
        /\ made' = Append(made, NewEntry(wants[a]))
        /\ Register(a)
        /\ mine' = [mine EXCEPT ![a] = Len(made) + 1]
        /\ HintTo(a, "lookup")
  /\ UNCHANGED <<wants, hint, hintCtx>>

(* The lookup of the worker that registered the entry; it ends, by its         *)
(* timeouts at the latest.                                                     *)
LookUpTarget(a) ==
  /\ hpc[a] = "lookup"
  /\ \E o \in Conclusive \cup {"failed", "canceled"} :
       /\ o = "canceled" => hintCtx
       /\ made' = [made EXCEPT ![mine[a]].outcome = o]
       /\ HintTo(a, IF o \in Conclusive THEN "close" ELSE "drop")
  /\ UNCHANGED <<wants, entries, mine, hint, hintCtx>>

DropNothing(a) == UNCHANGED entries
Drop(a) == entries' = [entries EXCEPT ![wants[a]] = None]

DropEntry(a) ==
  /\ hpc[a] = "drop" /\ Drop(a) /\ HintTo(a, "close")
  /\ UNCHANGED <<wants, made, mine, hint, hintCtx>>

CloseEntry(a) ==
  /\ hpc[a] = "close"
  /\ made' = [made EXCEPT ![mine[a]].closed = TRUE]
  /\ Give(a, made[mine[a]].outcome)
  /\ UNCHANGED <<wants, entries, mine, hintCtx>>

(* The others: the shared outcome when it is conclusive, else another turn.    *)
Adopt(a) ==
  /\ hpc[a] = "wait" /\ made[mine[a]].closed
  /\ IF made[mine[a]].outcome \in Conclusive THEN Give(a, made[mine[a]].outcome)
     ELSE IF hintCtx THEN Give(a, "canceled")
     ELSE HintTo(a, "ask") /\ UNCHANGED hint
  /\ UNCHANGED <<wants, entries, made, mine, hintCtx>>

GiveUpHint(a) ==
  /\ hpc[a] = "wait" /\ hintCtx /\ Give(a, "canceled")
  /\ UNCHANGED <<wants, entries, made, mine, hintCtx>>

CancelHints ==
  /\ ~hintCtx /\ hintCtx' = TRUE
  /\ UNCHANGED <<hpc, wants, entries, made, mine, hint>>

-----------------------------------------------------------------------------
HintStep(a) ==
  \/ Ask(a) \/ LookUpTarget(a) \/ DropEntry(a) \/ CloseEntry(a)
  \/ Adopt(a) \/ GiveUpHint(a)
HintNext == CancelHints \/ \E a \in Asker : FoundAlias(a) \/ HintStep(a)

(* Go runs every goroutine that can run. *)
HintFairness == \A a \in Asker : WF_hintVars(HintStep(a))
HintSpec == HintInit /\ [][HintNext]_hintVars /\ HintFairness
=============================================================================
