----------------------------- MODULE ResolverPool -----------------------------
(***************************************************************************)
(* The resolver pool of internal/dns/pool.go and the way a scan uses it    *)
(* (resolveViaPool of internal/scan/runner.go): round-robin over healthy   *)
(* members, a bench for those that fail, canary checks and second opinions *)
(* for those that hide names, and the trusted resolver that confirms every *)
(* hit.  Each step is one critical section of the code, or one lookup.     *)
(***************************************************************************)
EXTENDS Integers, Sequences, FiniteSets

CONSTANTS
  Caller,        \* the workers
  PoolSize,      \* members of the pool, 1..PoolSize in pool order
  Queried,       \* the names looked up, some of them more than once
  Real,          \* the names that exist
  Worlds,        \* what the members may be: honest, deniers, inventors or both
  Fails,         \* the members whose lookups may fail
  TrustedFails,  \* may the trusted resolver's lookups fail
  PoolAttempts,  \* cfg.PoolAttempts
  Lookups,       \* bound: the names looked up in a behaviour
  MinLookups,    \* poolHealthMinLookups
  FailPct,       \* poolHealthFailPct
  BenchFor,      \* poolBenchFor
  CanaryEvery,   \* poolCanaryEvery
  FlagAfter,     \* poolFlagAfter
  MaxCanaries,   \* poolMaxCanaries
  MaxTime        \* bound on the clock

Member == 1..PoolSize
None == 0

ASSUME PoolAssumption ==
  /\ PoolSize \in Nat \ {0} /\ PoolAttempts \in Nat \ {0}
  /\ Real \subseteq Queried
  /\ Worlds \subseteq [Member -> SUBSET {"denies", "invents"}]
  /\ Fails \subseteq Member /\ TrustedFails \in BOOLEAN
  /\ {Lookups, FailPct, BenchFor, CanaryEvery, MaxCanaries, MaxTime} \subseteq Nat
  /\ {MinLookups, FlagAfter} \subseteq Nat \ {0}

VARIABLES
  \* per member, under its mutex
  window, windowKO, until, trusted, sinceCanary, canaryBusy, contradicted, flagged,
  \* the pool's rotation and its canaries
  next, canaries,
  \* per caller: where it is and what it holds
  pc, name, tries, member, doubted, asked, verdict,
  clock,     \* the time
  poolCtx,       \* the scan is cancelled
  begun,     \* lookups begun
  lies,      \* what each member is
  misled     \* history: a lookup failed, or was cut short, somewhere

healthVars == <<window, windowKO, until>>
honestyVars == <<trusted, sinceCanary, canaryBusy>>
blameVars == <<contradicted, flagged>>
rotationVars == <<next, canaries>>
callVars == <<pc, name, tries, member, doubted, asked, verdict>>
envVars == <<clock, poolCtx, begun, lies, misled>>
allPoolVars == <<healthVars, honestyVars, blameVars, rotationVars, callVars, envVars>>

PoolInit ==
  /\ window = [m \in Member |-> 0] /\ windowKO = [m \in Member |-> 0]
  /\ until = [m \in Member |-> 0] /\ trusted = [m \in Member |-> FALSE]
  /\ sinceCanary = [m \in Member |-> 0] /\ canaryBusy = [m \in Member |-> FALSE]
  /\ contradicted = [m \in Member |-> 0] /\ flagged = [m \in Member |-> FALSE]
  /\ next = 0 /\ canaries = {}
  /\ pc = [c \in Caller |-> "idle"] /\ name = [c \in Caller |-> CHOOSE n \in Queried : TRUE]
  /\ tries = [c \in Caller |-> 0] /\ member = [c \in Caller |-> None]
  /\ doubted = [c \in Caller |-> None] /\ asked = [c \in Caller |-> {}]
  /\ verdict = [c \in Caller |-> "none"]
  /\ lies \in Worlds
  /\ clock = 0 /\ poolCtx = FALSE /\ begun = 0 /\ misled = FALSE

-----------------------------------------------------------------------------
Jump(c, place) == pc' = [pc EXCEPT ![c] = place]
Set(f, c, v) == [f EXCEPT ![c] = v]

(* The call returns, and its locals with it. *)
HandBack(c) ==
  /\ Jump(c, "idle")
  /\ tries' = Set(tries, c, 0) /\ member' = Set(member, c, None)
  /\ doubted' = Set(doubted, c, None)
Finish(c, o) == HandBack(c) /\ verdict' = Set(verdict, c, o)
Onward(c, place) == Jump(c, place) /\ UNCHANGED <<tries, member, doubted, verdict>>

(* What member m says of a name. *)
Says(m, n) ==
  IF (IF n \in Real THEN "denies" \notin lies[m] ELSE "invents" \in lies[m])
  THEN "found" ELSE "nxdomain"

MemberOutcomes(m, n) ==
  (IF m \in Fails THEN {"failed"} ELSE {}) \cup (IF poolCtx THEN {"canceled"} ELSE {})
    \cup {Says(m, n)}

PoolBelieved(n) == {"found"}
TrustedOutcomes(n) ==
  (IF TrustedFails THEN {"failed"} ELSE {}) \cup (IF poolCtx THEN {"canceled"} ELSE {})
    \cup {IF n \in Real THEN "found" ELSE "nxdomain"}

Mark(o) == misled' = (misled \/ o \in {"failed", "canceled"})

Benched(m) == clock < until[m]

(* The members in rotation order from next. *)
InTurn(k) == 1 + ((next + k - 1) % PoolSize)
FirstInTurn(members) ==
  LET turns == {k \in 1..PoolSize : InTurn(k) \in members}
  IN IF turns = {} THEN None ELSE InTurn(CHOOSE k \in turns : \A l \in turns : k <= l)
NextOf(m) == m % PoolSize

-----------------------------------------------------------------------------
(* resolveViaPool and Pool.Resolve. *)

BeginLookup(c) ==
  /\ pc[c] = "idle" /\ begun < Lookups
  /\ begun' = begun + 1
  /\ \E n \in Queried : name' = [name EXCEPT ![c] = n]
  /\ verdict' = [verdict EXCEPT ![c] = "none"]
  /\ Jump(c, "pick")
  /\ UNCHANGED <<healthVars, honestyVars, blameVars, rotationVars, tries, member, doubted, asked, clock, poolCtx, lies, misled>>

(* pick: the next member neither flagged nor benched nor just tried; else the  *)
(* one whose bench ends soonest; else the one just tried.                      *)
Pick(c) ==
  LET usable == {m \in Member : ~flagged[m]}
      healthy == {m \in usable : ~Benched(m) /\ m # member[c]}
      resting == {m \in usable : Benched(m)}
      benched == {m \in resting : \A o \in resting : until[m] <= until[o]}
      first == FirstInTurn(healthy)
      fallback == FirstInTurn(benched)
      m == IF first # None THEN first
           ELSE IF fallback # None THEN fallback
           ELSE IF member[c] \in usable THEN member[c]
           ELSE None
  IN /\ pc[c] = "pick" /\ tries[c] < PoolAttempts /\ ~poolCtx
     /\ next' = IF first # None THEN NextOf(first) ELSE next
     /\ member' = [member EXCEPT ![c] = m]
     /\ Jump(c, IF m = None THEN "alone" ELSE "canary")
     /\ UNCHANGED <<healthVars, honestyVars, blameVars, canaries, name, tries,
                    doubted, asked, verdict, envVars>>

StopAsking(c) ==
  /\ pc[c] = "pick"
  /\ \/ tries[c] = PoolAttempts /\ Finish(c, "failed") /\ UNCHANGED misled
     \/ tries[c] < PoolAttempts /\ poolCtx /\ Finish(c, "canceled") /\ Mark("canceled")
  /\ UNCHANGED <<healthVars, honestyVars, blameVars, rotationVars, name, asked, clock, poolCtx,
                 begun, lies>>

(* checkCanary: due while the member is untrusted, else every CanaryEvery      *)
(* lookups, and one at a time.                                                 *)
CanaryDue(m) == ~canaryBusy[m] /\ (~trusted[m] \/ sinceCanary[m] >= CanaryEvery)

CheckDue(c) ==
  LET m == member[c]
  IN /\ pc[c] = "canary"
     /\ canaryBusy' = [canaryBusy EXCEPT ![m] = @ \/ CanaryDue(m)]
     /\ Jump(c, IF CanaryDue(m) THEN "name" ELSE "ask")
     /\ UNCHANGED <<healthVars, trusted, sinceCanary, blameVars, rotationVars, name, tries, member,
                    doubted, asked, verdict, envVars>>

(* The canaries are asked in turn; here, in any order. *)
TakeCanary(c) ==
  /\ pc[c] = "name"
  /\ \/ /\ canaries = {}
        /\ canaryBusy' = [canaryBusy EXCEPT ![member[c]] = FALSE]
        /\ Jump(c, "ask") /\ UNCHANGED asked
     \/ /\ \E n \in canaries : asked' = [asked EXCEPT ![c] = {n}]
        /\ Jump(c, "probe") /\ UNCHANGED canaryBusy
  /\ UNCHANGED <<healthVars, trusted, sinceCanary, blameVars, next, canaries, name, tries,
                 member, doubted, verdict, envVars>>

(* A failed check changes nothing but the busy mark. *)
ReleasedIfAnswered(o) == o \in {"found", "nxdomain"}
Released(o) == TRUE

ProbeMember(c) ==
  LET m == member[c]
  IN /\ pc[c] = "probe"
     /\ \E n \in asked[c] : \E o \in MemberOutcomes(m, n) :
          /\ canaryBusy' = [canaryBusy EXCEPT ![m] = @ /\ ~Released(o)]
          /\ IF o \in {"found", "nxdomain"}
             THEN /\ sinceCanary' = [sinceCanary EXCEPT ![m] = 0]
                  /\ trusted' = [trusted EXCEPT ![m] = (o = "found")]
             ELSE UNCHANGED <<sinceCanary, trusted>>
          /\ Jump(c, IF o = "nxdomain" THEN "caught" ELSE "ask")
          /\ Mark(o)
     /\ asked' = [asked EXCEPT ![c] = {}]
     /\ UNCHANGED <<healthVars, blameVars, rotationVars, name, tries, member, doubted, verdict,
                    clock, poolCtx, begun, lies>>

Contradict(m) ==
  /\ trusted' = [trusted EXCEPT ![m] = FALSE]
  /\ contradicted' = [contradicted EXCEPT ![m] = IF @ < FlagAfter THEN @ + 1 ELSE @]
  /\ flagged' = [flagged EXCEPT ![m] = contradicted'[m] >= FlagAfter]

Caught(c) ==
  /\ pc[c] = "caught"
  /\ Contradict(member[c])
  /\ Jump(c, "ask")
  /\ UNCHANGED <<healthVars, sinceCanary, canaryBusy, rotationVars, name, tries, member, doubted,
                 asked, verdict, envVars>>

WindowFull(seen) == seen >= MinLookups

(* report: a lookup's outcome, and the bench for a member failing too often. *)
ReportOutcome(m, o) ==
  LET seen == window[m] + 1
      bad == windowKO[m] + (IF o = "failed" THEN 1 ELSE 0)
      full == WindowFull(seen)
  IN IF o = "canceled" THEN UNCHANGED <<healthVars, sinceCanary>>
     ELSE /\ sinceCanary' = [sinceCanary EXCEPT ![m] = IF @ < CanaryEvery THEN @ + 1 ELSE @]
          /\ window' = [window EXCEPT ![m] = IF full THEN 0 ELSE seen]
          /\ windowKO' = [windowKO EXCEPT ![m] = IF full THEN 0 ELSE bad]
          /\ until' = IF full /\ bad * 100 > seen * FailPct
                      THEN [until EXCEPT ![m] = clock + BenchFor] ELSE until

Ask(c) ==
  LET m == member[c]
  IN /\ pc[c] = "ask"
     /\ \E o \in MemberOutcomes(m, name[c]) :
          /\ ReportOutcome(m, o)
          /\ Mark(o)
          /\ \/ o = "found" /\ Onward(c, "confirm")
             \/ o = "nxdomain" /\ Onward(c, "opinion")
             \/ o = "canceled" /\ Finish(c, o)
             \/ /\ o = "failed" /\ Jump(c, "pick") /\ UNCHANGED <<member, doubted, verdict>>
                /\ tries' = [tries EXCEPT ![c] = @ + 1]
     /\ UNCHANGED <<trusted, canaryBusy, blameVars, rotationVars, name, asked, clock,
                    poolCtx, begun, lies>>

(* secondOpinion: whether the member was trusted, then another healthy one. *)
BelieveAlways(m) == TRUE
Believed(m) == trusted[m]

Opinion(c) ==
  /\ pc[c] = "opinion"
  /\ \/ Believed(member[c]) /\ Finish(c, "nxdomain")
     \/ ~Believed(member[c]) /\ Onward(c, "other")
  /\ UNCHANGED <<healthVars, honestyVars, blameVars, rotationVars, name, asked, envVars>>

PickOther(c) ==
  LET healthy == {m \in Member \ {member[c]} : ~flagged[m] /\ ~Benched(m)}
      other == FirstInTurn(healthy)
  IN /\ pc[c] = "other"
     /\ IF other = None
        THEN Finish(c, "nxdomain") /\ UNCHANGED next
        ELSE /\ next' = NextOf(other)
             /\ doubted' = [doubted EXCEPT ![c] = member[c]]
             /\ member' = [member EXCEPT ![c] = other]
             /\ Jump(c, "second") /\ UNCHANGED <<tries, verdict>>
     /\ UNCHANGED <<healthVars, honestyVars, blameVars, canaries, name, asked, envVars>>

AskOther(c) ==
  LET m == member[c]
  IN /\ pc[c] = "second"
     /\ \E o \in MemberOutcomes(m, name[c]) :
          /\ ReportOutcome(m, o)
          /\ Mark(o)
          /\ \/ o = "found" /\ Onward(c, "confirm")
             \/ o # "found" /\ Finish(c, "nxdomain")
     /\ UNCHANGED <<trusted, canaryBusy, blameVars, rotationVars, name, asked, clock,
                    poolCtx, begun, lies>>

(* A hit is looked up again with the trusted resolver, whose answer stands. *)
Confirm(c) ==
  /\ pc[c] = "confirm"
  /\ \E o \in TrustedOutcomes(name[c]) :
       /\ Mark(o)
       /\ canaries' = IF o = "found" /\ Cardinality(canaries) < MaxCanaries
                      THEN canaries \cup {name[c]} ELSE canaries
       /\ verdict' = [verdict EXCEPT ![c] = o]
       /\ Jump(c, "disagree")
  /\ UNCHANGED <<healthVars, honestyVars, blameVars, next, name, tries, member,
                 doubted, asked, clock, poolCtx, begun, lies>>

(* Disagree: a hit the trusted resolver denies counts against the member that  *)
(* answered, one it confirms against the member that had denied it.            *)
BlameDoubted(c) == doubted[c]
Blamed(c) ==
  IF verdict[c] = "found" THEN doubted[c] ELSE IF verdict[c] = "nxdomain" THEN member[c] ELSE None

Disagree(c) ==
  /\ pc[c] = "disagree"
  /\ IF Blamed(c) = None THEN UNCHANGED <<trusted, blameVars>> ELSE Contradict(Blamed(c))
  /\ HandBack(c)
  /\ UNCHANGED <<healthVars, sinceCanary, canaryBusy, rotationVars, name, asked, verdict, envVars>>

(* Every member is flagged: the trusted resolver alone answers. *)
AskTrusted(c) ==
  /\ pc[c] = "alone"
  /\ \E o \in TrustedOutcomes(name[c]) : Finish(c, o) /\ Mark(o)
  /\ UNCHANGED <<healthVars, honestyVars, blameVars, rotationVars, name, asked, clock,
                 poolCtx, begun, lies>>

-----------------------------------------------------------------------------
Elapse ==
  /\ clock < MaxTime /\ clock' = clock + 1
  /\ UNCHANGED <<healthVars, honestyVars, blameVars, rotationVars, callVars, poolCtx, begun, lies, misled>>

CancelPool ==
  /\ ~poolCtx /\ poolCtx' = TRUE
  /\ UNCHANGED <<healthVars, honestyVars, blameVars, rotationVars, callVars, clock, begun, lies, misled>>

Step(c) ==
  \/ BeginLookup(c) \/ Pick(c) \/ StopAsking(c)
  \/ CheckDue(c) \/ TakeCanary(c) \/ ProbeMember(c) \/ Caught(c)
  \/ Ask(c) \/ Opinion(c) \/ PickOther(c) \/ AskOther(c) \/ Confirm(c) \/ Disagree(c)
  \/ AskTrusted(c)

PoolNext == Elapse \/ CancelPool \/ \E c \in Caller : Step(c)

PoolSpec == PoolInit /\ [][PoolNext]_allPoolVars
=============================================================================
