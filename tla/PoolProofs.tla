------------------------------ MODULE PoolProofs ------------------------------
(***************************************************************************)
(* What lying members cannot do to a pool of any size, whoever lies,       *)
(* whatever fails and whenever the scan is cancelled: the invariants of    *)
(* ResolverPoolProps.                                                      *)
(***************************************************************************)
EXTENDS ResolverPoolProps, WellFoundedInduction, TLAPS

(***************************************************************************)
(* The inductive invariant.  A caller carries what a member told it across *)
(* several critical sections, and blames or believes that member only      *)
(* later: the invariant says of each place what the caller may still count *)
(* on there.                                                               *)
(***************************************************************************)
Places == {"idle", "pick", "canary", "name", "probe", "caught", "ask", "opinion", "other",
           "second", "confirm", "disagree", "alone"}
Outcomes == {"none", "found", "nxdomain", "failed", "canceled"}

(* Where a caller holds a member it is asking or has asked. *)
AtMember == Places \ {"idle", "pick", "alone"}

(* A lookup's name is one of Queried; before the first one it is what          *)
(* PoolInit chose.                                                             *)
PoolTypeOK ==
  /\ window \in [Member -> Nat] /\ windowKO \in [Member -> Nat] /\ until \in [Member -> Nat]
  /\ trusted \in [Member -> BOOLEAN] /\ contradicted \in [Member -> Nat]
  /\ flagged \in [Member -> BOOLEAN]
  /\ next \in 0..(PoolSize - 1)
  /\ pc \in [Caller -> Places] /\ verdict \in [Caller -> Outcomes]
  /\ name \in [Caller -> Queried \cup {CHOOSE n \in Queried : TRUE}]
  /\ member \in [Caller -> Member \cup {None}] /\ doubted \in [Caller -> Member \cup {None}]
  /\ \A c \in Caller : pc[c] \in AtMember => member[c] \in Member
  /\ \A c \in Caller : pc[c] # "idle" => name[c] \in Queried
  /\ asked \in [Caller -> SUBSET Queried] /\ canaries \subseteq Queried
  /\ lies \in Worlds
  /\ clock \in Nat /\ poolCtx \in BOOLEAN /\ misled \in BOOLEAN

(* What a caller goes by: the canaries it asks about exist; what its member has *)
(* told it, and what the member before, whose denial it doubts; and what the    *)
(* trusted resolver then said.                                                  *)
GoesByTruth(c) ==
  /\ asked[c] \subseteq Real
  /\ pc[c] = "caught" => "denies" \in lies[member[c]]
  /\ pc[c] \in {"opinion", "other"} => Says(member[c], name[c]) = "nxdomain"
  /\ pc[c] \in {"confirm", "disagree"} => Says(member[c], name[c]) = "found"
  /\ doubted[c] # None =>
       /\ pc[c] \in {"second", "confirm", "disagree"}
       /\ Says(doubted[c], name[c]) = "nxdomain"
  /\ pc[c] = "second" => doubted[c] # None /\ doubted[c] # member[c]
  /\ pc[c] = "disagree" /\ verdict[c] = "nxdomain" => name[c] \notin Real
  /\ verdict[c] = "found" => name[c] \in Real

(* A member is trusted on the strength of a canary it knew. *)
TrustEarned == \A m \in Member : trusted[m] => "denies" \notin lies[m]

(* Nobody is benched before a lookup has failed. *)
NobodyBenched == ~misled => \A m \in Member : windowKO[m] = 0 /\ until[m] = 0

(* A name is not hidden from a caller. *)
NotHiddenFrom(c) == verdict[c] = "nxdomain" => name[c] \notin Real

PoolInv ==
  /\ PoolTypeOK
  /\ \A c \in Caller : GoesByTruth(c)
  /\ NothingInjected /\ HonestNeverFlagged /\ TrustEarned /\ NobodyBenched /\ NothingHidden


-----------------------------------------------------------------------------
(* The rotation. *)

(* A set of numbers that is not empty has a least one. *)
LEMMA LeastOfSome ==
  ASSUME NEW T, T \subseteq Nat, T # {}
  PROVE  \E x \in T : \A y \in T : x <= y
<1>1. IsWellFoundedOn(OpToRel(<, Nat), Nat)
  BY NatLessThanWellFounded
<1>2. PICK x \in T : \A y \in T : ~(<<y, x>> \in OpToRel(<, Nat))
  BY <1>1, WFMin
<1>3. \A y \in T : ~(y < x)
  BY <1>2 DEF OpToRel
<1>4. QED BY <1>3

LEMMA OnceRound ==
  ASSUME NEW k \in Nat, NEW p \in Nat, k < p
  PROVE  (k + p) % p = k
  OBVIOUS

(* Every member has its turn, wherever the rotation stands. *)
LEMMA EveryTurnComes ==
  ASSUME next \in 0..(PoolSize - 1), NEW m \in Member
  PROVE  \E k \in 1..PoolSize : InTurn(k) = m
<1>1. /\ PoolSize \in Nat /\ PoolSize > 0 /\ next \in Nat /\ next < PoolSize
      /\ m \in Nat /\ 1 <= m /\ m <= PoolSize
  BY PoolAssumption DEF Member
<1>2. m - 1 \in Nat /\ m - 1 < PoolSize
  BY <1>1
<1>3. ASSUME NEW k \in 1..PoolSize, (next + k - 1) % PoolSize = m - 1
      PROVE  InTurn(k) = m
  BY <1>1, <1>3 DEF InTurn
<1>4. CASE m > next
  <2>1. m - next \in 1..PoolSize /\ next + (m - next) - 1 = m - 1
    BY <1>1, <1>4
  <2>2. (m - 1) % PoolSize = m - 1
    BY <1>1, <1>2
  <2>3. QED BY <1>3, <2>1, <2>2
<1>5. CASE m <= next
  <2>1. /\ m - next + PoolSize \in 1..PoolSize
        /\ next + (m - next + PoolSize) - 1 = (m - 1) + PoolSize
    BY <1>1, <1>5
  <2>2. ((m - 1) + PoolSize) % PoolSize = m - 1
    BY <1>1, <1>2, OnceRound
  <2>3. QED BY <1>3, <2>1, <2>2
<1>6. QED BY <1>1, <1>4, <1>5

(* The rotation finds one of the members it may take, when there is one. *)
LEMMA TurnTakesOne ==
  ASSUME next \in 0..(PoolSize - 1), NEW S, S \subseteq Member
  PROVE  /\ FirstInTurn(S) \in S \cup {None}
         /\ S # {} => FirstInTurn(S) \in S
<1> DEFINE turns == {k \in 1..PoolSize : InTurn(k) \in S}
<1>1. CASE turns = {}
  <2>1. S = {}
    BY <1>1, EveryTurnComes
  <2>2. QED BY <1>1, <2>1 DEF FirstInTurn
<1>2. CASE turns # {}
  <2>1. turns \subseteq Nat
    OBVIOUS
  <2>2. \E k \in turns : \A l \in turns : k <= l
    BY <1>2, <2>1, LeastOfSome
  <2> DEFINE first == CHOOSE k \in turns : \A l \in turns : k <= l
  <2>3. first \in turns
    BY <2>2
  <2>4. FirstInTurn(S) = InTurn(first)
    BY <1>2 DEF FirstInTurn
  <2>5. QED BY <2>3, <2>4
<1>3. QED BY <1>1, <1>2

(* And moves on to a place in the pool. *)
LEMMA TurnMovesOn ==
  ASSUME NEW m \in Member
  PROVE  NextOf(m) \in 0..(PoolSize - 1)
<1>1. PoolSize \in Nat /\ PoolSize > 0 /\ m \in Nat
  BY PoolAssumption DEF Member
<1>2. QED BY <1>1 DEF NextOf

-----------------------------------------------------------------------------
(* The types. *)

LEMMA ContradictTypes ==
  ASSUME PoolTypeOK, NEW m, Contradict(m)
  PROVE  /\ trusted' \in [Member -> BOOLEAN] /\ contradicted' \in [Member -> Nat]
         /\ flagged' \in [Member -> BOOLEAN]
<1>1. trusted' \in [Member -> BOOLEAN] /\ contradicted' \in [Member -> Nat]
  <2>1. trusted' = [trusted EXCEPT ![m] = FALSE] /\ trusted \in [Member -> BOOLEAN]
    BY DEF PoolTypeOK, Contradict
  <2>2. /\ contradicted' = [contradicted EXCEPT ![m] = IF @ < FlagAfter THEN @ + 1 ELSE @]
        /\ contradicted \in [Member -> Nat]
    BY DEF PoolTypeOK, Contradict
  <2>3. CASE m \in Member
    BY <2>1, <2>2, <2>3
  <2>4. CASE m \notin Member
    <3>1. contradicted' = contradicted
      BY <2>2, <2>4
    <3>2. QED BY <2>1, <2>2, <3>1
  <2>5. QED BY <2>3, <2>4
<1>2. flagged \in [Member -> BOOLEAN]
  BY DEF PoolTypeOK
<1>3. \E b \in BOOLEAN : flagged' = [flagged EXCEPT ![m] = b]
  <2>1. (contradicted'[m] >= FlagAfter) \in BOOLEAN
    OBVIOUS
  <2>2. QED BY <2>1, Zenon DEF Contradict
<1>4. QED BY <1>1, <1>2, <1>3

LEMMA ReportTypes ==
  ASSUME PoolTypeOK, NEW m \in Member, NEW o, ReportOutcome(m, o)
  PROVE  /\ window' \in [Member -> Nat] /\ windowKO' \in [Member -> Nat]
         /\ until' \in [Member -> Nat]
<1>1. /\ window[m] + 1 \in Nat /\ windowKO[m] + (IF o = "failed" THEN 1 ELSE 0) \in Nat
      /\ clock + BenchFor \in Nat
  BY PoolAssumption DEF PoolTypeOK
<1>2. QED BY <1>1 DEF PoolTypeOK, ReportOutcome, healthVars

LEMMA OutcomesKnown ==
  ASSUME NEW m, NEW n
  PROVE  /\ MemberOutcomes(m, n) \subseteq {"failed", "canceled", Says(m, n)}
         /\ Says(m, n) \in {"found", "nxdomain"}
         /\ TrustedOutcomes(n) \subseteq {"failed", "canceled", "found", "nxdomain"}
  BY DEF MemberOutcomes, Says, TrustedOutcomes

(* What pick returns. *)
LEMMA PickTypes ==
  ASSUME PoolTypeOK, NEW c \in Caller, Pick(c)
  PROVE  /\ next' \in 0..(PoolSize - 1)
         /\ \E m \in Member \cup {None} :
              /\ member' = [member EXCEPT ![c] = m]
              /\ pc' = [pc EXCEPT ![c] = IF m = None THEN "alone" ELSE "canary"]
<1> DEFINE usable == {m \in Member : ~flagged[m]}
           healthy == {m \in usable : ~Benched(m) /\ m # member[c]}
           resting == {m \in usable : Benched(m)}
           benched == {m \in resting : \A o \in resting : until[m] <= until[o]}
           first == FirstInTurn(healthy)
           fallback == FirstInTurn(benched)
           m == IF first # None THEN first
                ELSE IF fallback # None THEN fallback
                ELSE IF member[c] \in usable THEN member[c]
                ELSE None
<1>1. /\ next' = IF first # None THEN NextOf(first) ELSE next
      /\ member' = [member EXCEPT ![c] = m]
      /\ pc' = [pc EXCEPT ![c] = IF m = None THEN "alone" ELSE "canary"]
  BY DEF Pick, Jump
<1>2. next \in 0..(PoolSize - 1)
  BY DEF PoolTypeOK
<1>3. first \in Member \cup {None} /\ fallback \in Member \cup {None}
  <2>1. healthy \subseteq Member /\ benched \subseteq Member
    OBVIOUS
  <2> HIDE DEF healthy, benched
  <2>2. QED BY <1>2, <2>1, TurnTakesOne
<1>4. m \in Member \cup {None}
  <2> HIDE DEF first, fallback
  <2>1. QED BY <1>3
<1>5. next' \in 0..(PoolSize - 1)
  <2> HIDE DEF first
  <2>1. QED BY <1>1, <1>2, <1>3, TurnMovesOn
<1> HIDE DEF m
<1>6. QED BY <1>1, <1>4, <1>5

(* And what secondOpinion's pick does, when it has somebody to ask. *)
LEMMA PickOtherTypes ==
  ASSUME PoolTypeOK, NEW c \in Caller, PickOther(c)
  PROVE  \/ /\ \A m \in Member \ {member[c]} : flagged[m] \/ Benched(m)
            /\ Finish(c, "nxdomain") /\ UNCHANGED next
         \/ \E other \in Member \ {member[c]} :
              /\ next' \in 0..(PoolSize - 1)
              /\ doubted' = [doubted EXCEPT ![c] = member[c]]
              /\ member' = [member EXCEPT ![c] = other]
              /\ Jump(c, "second") /\ UNCHANGED <<tries, verdict>>
<1> DEFINE healthy == {m \in Member \ {member[c]} : ~flagged[m] /\ ~Benched(m)}
           other == FirstInTurn(healthy)
<1>1. /\ other \in healthy \cup {None}
      /\ healthy # {} => other \in healthy
  <2>1. healthy \subseteq Member /\ next \in 0..(PoolSize - 1)
    BY DEF PoolTypeOK
  <2> HIDE DEF healthy
  <2>2. QED BY <2>1, TurnTakesOne
<1>2. None \notin Member
  BY DEF None, Member
<1>3. CASE other = None
  <2>1. healthy = {}
    BY <1>1, <1>2, <1>3
  <2>2. QED BY <1>3, <2>1 DEF PickOther
<1>4. CASE other # None
  <2>1. other \in Member \ {member[c]}
    BY <1>1, <1>4
  <2>2. NextOf(other) \in 0..(PoolSize - 1)
    BY <2>1, TurnMovesOn
  <2>3. /\ next' = NextOf(other)
        /\ doubted' = [doubted EXCEPT ![c] = member[c]]
        /\ member' = [member EXCEPT ![c] = other]
        /\ Jump(c, "second") /\ UNCHANGED <<tries, verdict>>
    BY <1>4 DEF PickOther
  <2> HIDE DEF other
  <2>4. QED BY <2>1, <2>2, <2>3
<1>5. QED BY <1>3, <1>4

LEMMA PoolTypeStep ==
  ASSUME PoolTypeOK, [PoolNext]_allPoolVars
  PROVE  PoolTypeOK'
<1> USE DEF PoolTypeOK, healthVars, honestyVars, blameVars, rotationVars, callVars, envVars,
            Places, Outcomes, AtMember
<1>1. CASE Elapse \/ CancelPool \/ UNCHANGED allPoolVars
  <2>1. /\ clock' \in Nat /\ poolCtx' \in BOOLEAN
        /\ UNCHANGED <<healthVars, honestyVars, blameVars, rotationVars, callVars, begun, lies,
                       misled>>
    <3>1. CASE Elapse
      BY <3>1 DEF Elapse
    <3>2. CASE CancelPool
      BY <3>2 DEF CancelPool
    <3>3. CASE UNCHANGED allPoolVars
      BY <3>3 DEF allPoolVars
    <3>4. QED BY <1>1, <3>1, <3>2, <3>3
  <2>2. QED BY <2>1
<1>2. ASSUME NEW c \in Caller, Step(c) PROVE PoolTypeOK'
  <2>1. CASE BeginLookup(c)
    BY <2>1 DEF BeginLookup, Jump
  <2>2. CASE Pick(c)
    <3>1. next' \in 0..(PoolSize - 1)
      BY <2>2, PickTypes
    <3>2. PICK m \in Member \cup {None} :
            /\ member' = [member EXCEPT ![c] = m]
            /\ pc' = [pc EXCEPT ![c] = IF m = None THEN "alone" ELSE "canary"]
      BY <2>2, PickTypes
    <3>3. UNCHANGED <<healthVars, honestyVars, blameVars, canaries, name, tries, doubted, asked,
                      verdict, envVars>>
      BY <2>2 DEF Pick
    <3>4. pc' \in [Caller -> Places] /\ member' \in [Caller -> Member \cup {None}]
      BY <3>2
    <3>5. \A o \in Caller : /\ pc'[o] \in AtMember => member'[o] \in Member
                            /\ pc'[o] # "idle" => pc[o] # "idle"
      BY <2>2, <3>2 DEF Pick
    <3>6. QED BY <3>1, <3>3, <3>4, <3>5
  <2>3. CASE StopAsking(c)
    BY <2>3 DEF StopAsking, Finish, HandBack, Jump, Set, Mark
  <2>4. CASE CheckDue(c)
    BY <2>4 DEF CheckDue, Jump
  <2>5. CASE TakeCanary(c)
    BY <2>5 DEF TakeCanary, Jump
  <2>6. CASE ProbeMember(c)
    BY <2>6 DEF ProbeMember, Jump, Mark
  <2>7. CASE Caught(c)
    BY <2>7, ContradictTypes DEF Caught, Jump
  <2>8. CASE Ask(c)
    <3>1. member[c] \in Member
      BY <2>8 DEF Ask
    <3>2. PICK o \in MemberOutcomes(member[c], name[c]) :
            /\ ReportOutcome(member[c], o) /\ Mark(o)
            /\ \/ o = "found" /\ Onward(c, "confirm")
               \/ o = "nxdomain" /\ Onward(c, "opinion")
               \/ o = "canceled" /\ Finish(c, o)
               \/ /\ o = "failed" /\ Jump(c, "pick") /\ UNCHANGED <<member, doubted, verdict>>
                  /\ tries' = [tries EXCEPT ![c] = @ + 1]
      BY <2>8 DEF Ask
    <3>3. /\ window' \in [Member -> Nat] /\ windowKO' \in [Member -> Nat]
          /\ until' \in [Member -> Nat] /\ misled' \in BOOLEAN
      BY <3>1, <3>2, ReportTypes DEF Mark
    <3>4. /\ UNCHANGED <<trusted, canaryBusy, blameVars, rotationVars, name, asked, clock,
                         poolCtx, begun, lies>>
          /\ pc[c] = "ask"
      BY <2>8 DEF Ask
    <3>5. CASE Onward(c, "confirm") \/ Onward(c, "opinion")
      BY <3>1, <3>3, <3>4, <3>5 DEF Onward, Jump
    <3>6. CASE o = "canceled" /\ Finish(c, o)
      BY <3>3, <3>4, <3>6 DEF Finish, HandBack, Jump, Set
    <3>7. CASE Jump(c, "pick") /\ UNCHANGED <<member, doubted, verdict>>
      BY <3>3, <3>4, <3>7 DEF Jump
    <3>8. QED BY <3>2, <3>5, <3>6, <3>7
  <2>9. CASE Opinion(c)
    BY <2>9 DEF Opinion, Onward, Finish, HandBack, Jump, Set
  <2>10. CASE PickOther(c)
    <3>1. /\ UNCHANGED <<healthVars, honestyVars, blameVars, canaries, name, asked, envVars>>
          /\ pc[c] = "other" /\ member[c] \in Member
      BY <2>10 DEF PickOther
    <3>2. CASE Finish(c, "nxdomain") /\ UNCHANGED next
      BY <3>1, <3>2 DEF Finish, HandBack, Jump, Set
    <3>3. ASSUME NEW other \in Member, next' \in 0..(PoolSize - 1),
                 doubted' = [doubted EXCEPT ![c] = member[c]],
                 member' = [member EXCEPT ![c] = other],
                 Jump(c, "second"), UNCHANGED <<tries, verdict>>
          PROVE  PoolTypeOK'
      BY <3>1, <3>3 DEF Jump
    <3>4. QED BY <2>10, <3>2, <3>3, PickOtherTypes
  <2>11. CASE AskOther(c)
    <3>1. member[c] \in Member
      BY <2>11 DEF AskOther
    <3>2. QED BY <2>11, <3>1, ReportTypes DEF AskOther, Mark, Jump, Onward, Finish, HandBack, Set
  <2>12. CASE Confirm(c)
    <3>1. PICK o \in TrustedOutcomes(name[c]) :
            /\ Mark(o)
            /\ canaries' = IF o = "found" /\ Cardinality(canaries) < MaxCanaries
                           THEN canaries \cup {name[c]} ELSE canaries
            /\ verdict' = [verdict EXCEPT ![c] = o]
      BY <2>12 DEF Confirm
    <3>2. o \in Outcomes
      BY <3>1, OutcomesKnown
    <3>3. misled' \in BOOLEAN
      BY <3>1 DEF Mark
    <3>4. pc[c] = "confirm" /\ canaries' \subseteq Queried
      BY <2>12, <3>1 DEF Confirm
    <3>5. QED BY <2>12, <3>1, <3>2, <3>3, <3>4 DEF Confirm, Jump
  <2>13. CASE Disagree(c)
    BY <2>13, ContradictTypes DEF Disagree, HandBack, Jump, Set
  <2>14. CASE AskTrusted(c)
    <3>1. PICK o \in TrustedOutcomes(name[c]) : Finish(c, o) /\ Mark(o)
      BY <2>14 DEF AskTrusted
    <3>2. o \in Outcomes
      BY <3>1, OutcomesKnown
    <3>3. misled' \in BOOLEAN
      BY <3>1 DEF Mark
    <3>4. QED BY <2>14, <3>1, <3>2, <3>3 DEF AskTrusted, Finish, HandBack, Jump, Set
  <2>15. QED BY <1>2, <2>1, <2>2, <2>3, <2>4, <2>5, <2>6, <2>7, <2>8, <2>9, <2>10, <2>11, <2>12,
                <2>13, <2>14 DEF Step
<1>3. QED BY <1>1, <1>2 DEF PoolNext

-----------------------------------------------------------------------------
(* What the members say, and what a step leaves alone. *)

LEMMA WhoLies ==
  ASSUME NEW m, NEW n
  PROVE  /\ Says(m, n) = "nxdomain" /\ n \in Real => "denies" \in lies[m]
         /\ Says(m, n) = "found" /\ n \notin Real => "invents" \in lies[m]
         /\ Says(m, n) = "found" /\ n \in Real => "denies" \notin lies[m]
         /\ Says(m, n) \in {"found", "nxdomain"}
  BY DEF Says

(* Nobody's honesty changes, and the history only grows. *)
LEMMA WorldStays ==
  ASSUME PoolTypeOK, [PoolNext]_allPoolVars
  PROVE  lies' = lies /\ (misled => misled')
<1>1. ASSUME NEW c \in Caller, Step(c) PROVE lies' = lies /\ (misled => misled')
  <2> USE DEF Mark, envVars
  <2>1. CASE BeginLookup(c) \/ Pick(c) \/ CheckDue(c) \/ TakeCanary(c) \/ Caught(c)
    BY <2>1 DEF BeginLookup, Pick, CheckDue, TakeCanary, Caught
  <2>2. CASE Opinion(c) \/ PickOther(c) \/ Disagree(c)
    BY <2>2 DEF Opinion, PickOther, Disagree
  <2>3. CASE StopAsking(c) \/ ProbeMember(c)
    <3>1. CASE ProbeMember(c)
      <4>1. lies' = lies /\ \E o \in {"found", "nxdomain", "failed", "canceled"} : Mark(o)
        BY <3>1, OutcomesKnown DEF ProbeMember
      <4>2. QED BY <4>1
    <3>2. CASE StopAsking(c)
      <4>1. lies' = lies /\ (UNCHANGED misled \/ Mark("canceled"))
        BY <3>2 DEF StopAsking
      <4>2. UNCHANGED misled => (misled => misled')
        OBVIOUS
      <4>3. Mark("canceled") => (misled => misled')
        OBVIOUS
      <4>4. QED BY <4>1, <4>2, <4>3
    <3>3. QED BY <2>3, <3>1, <3>2
  <2>4. CASE Confirm(c) \/ AskTrusted(c)
    BY <2>4 DEF Confirm, AskTrusted
  <2>5. CASE Ask(c) \/ AskOther(c)
    BY <2>5 DEF Ask, AskOther
  <2>6. QED BY <1>1, <2>1, <2>2, <2>3, <2>4, <2>5 DEF Step
<1>2. CASE Elapse \/ CancelPool \/ UNCHANGED allPoolVars
  BY <1>2 DEF Elapse, CancelPool, allPoolVars, envVars
<1>3. QED BY <1>1, <1>2 DEF PoolNext

(* A caller's step is its own. *)
LEMMA OthersStay ==
  ASSUME PoolTypeOK, NEW c \in Caller, Step(c), NEW o \in Caller \ {c}
  PROVE  /\ pc'[o] = pc[o] /\ name'[o] = name[o] /\ member'[o] = member[o]
         /\ doubted'[o] = doubted[o] /\ asked'[o] = asked[o] /\ verdict'[o] = verdict[o]
<1> USE DEF PoolTypeOK, Jump, Set, HandBack, Finish, Onward
<1>1. CASE BeginLookup(c) \/ Pick(c) \/ StopAsking(c) \/ CheckDue(c)
  BY <1>1 DEF BeginLookup, Pick, StopAsking, CheckDue
<1>2. CASE TakeCanary(c) \/ ProbeMember(c) \/ Caught(c)
  BY <1>2 DEF TakeCanary, ProbeMember, Caught
<1>3. CASE Ask(c) \/ Opinion(c) \/ AskOther(c)
  BY <1>3 DEF Ask, Opinion, AskOther
<1>4. CASE PickOther(c)
  BY <1>4 DEF PickOther
<1>5. CASE Confirm(c) \/ Disagree(c) \/ AskTrusted(c)
  BY <1>5 DEF Confirm, Disagree, AskTrusted
<1>6. QED BY <1>1, <1>2, <1>3, <1>4, <1>5 DEF Step

(* What a caller goes by outlasts every step but its own. *)
LEMMA TruthStays ==
  ASSUME NEW c \in Caller, GoesByTruth(c), lies' = lies,
         pc'[c] = pc[c], name'[c] = name[c], member'[c] = member[c],
         doubted'[c] = doubted[c], asked'[c] = asked[c], verdict'[c] = verdict[c]
  PROVE  GoesByTruth(c)'
<1>1. \A m, n : Says(m, n)' = Says(m, n)
  BY DEF Says
<1>2. QED BY <1>1 DEF GoesByTruth

-----------------------------------------------------------------------------
(* What a caller goes by, kept by its own steps. *)

LEMMA OwnTruthStep ==
  ASSUME PoolInv, NEW c \in Caller, Step(c)
  PROVE  GoesByTruth(c)'
<1> USE DEF PoolTypeOK, GoesByTruth, envVars, AtMember, Places
<1>1. /\ PoolTypeOK /\ GoesByTruth(c) /\ canaries \subseteq Real /\ lies' = lies
      /\ None \notin Member
  <2>1. [PoolNext]_allPoolVars
    BY DEF PoolNext
  <2>2. PoolTypeOK /\ GoesByTruth(c) /\ canaries \subseteq Real
    BY DEF PoolInv, NothingInjected
  <2>3. None \notin Member
    BY DEF None, Member
  <2>4. QED BY <2>1, <2>2, <2>3, WorldStays
<1>2. \A m, n : Says(m, n)' = Says(m, n)
  BY <1>1 DEF Says
<1>3. CASE BeginLookup(c)
  BY <1>1, <1>2, <1>3 DEF BeginLookup, Jump
<1>4. CASE Pick(c)
  <2>1. PICK m \in Member \cup {None} :
          pc' = [pc EXCEPT ![c] = IF m = None THEN "alone" ELSE "canary"]
    BY <1>1, <1>4, PickTypes
  <2>2. QED BY <1>1, <1>2, <1>4, <2>1 DEF Pick
<1>5. CASE StopAsking(c)
  BY <1>1, <1>2, <1>5 DEF StopAsking, Finish, HandBack, Jump, Set
<1>6. CASE CheckDue(c)
  BY <1>1, <1>2, <1>6 DEF CheckDue, Jump
<1>7. CASE TakeCanary(c)
  BY <1>1, <1>2, <1>7 DEF TakeCanary, Jump
<1>8. CASE ProbeMember(c)
  <2>1. PICK n \in asked[c] : \E o \in MemberOutcomes(member[c], n) :
          Jump(c, IF o = "nxdomain" THEN "caught" ELSE "ask")
    BY <1>8 DEF ProbeMember
  <2> PICK o \in MemberOutcomes(member[c], n) :
        Jump(c, IF o = "nxdomain" THEN "caught" ELSE "ask")
    BY <2>1
  <2>2. o = "nxdomain" => "denies" \in lies[member[c]]
    BY <1>1, <2>1, OutcomesKnown, WhoLies
  <2>3. QED BY <1>1, <1>2, <1>8, <2>1, <2>2 DEF ProbeMember, Jump
<1>9. CASE Caught(c)
  BY <1>1, <1>2, <1>9 DEF Caught, Jump
<1>10. CASE Ask(c)
  <2>1. PICK o \in MemberOutcomes(member[c], name[c]) :
          \/ o = "found" /\ Onward(c, "confirm")
          \/ o = "nxdomain" /\ Onward(c, "opinion")
          \/ o = "canceled" /\ Finish(c, o)
          \/ o = "failed" /\ Jump(c, "pick") /\ UNCHANGED <<member, doubted, verdict>>
    BY <1>10 DEF Ask
  <2>2. o \in {"found", "nxdomain"} => Says(member[c], name[c]) = o
    BY OutcomesKnown
  <2>3. /\ UNCHANGED <<name, asked>> /\ pc[c] = "ask"
    BY <1>10 DEF Ask
  <2>4. QED BY <1>1, <1>2, <2>1, <2>2, <2>3 DEF Onward, Finish, HandBack, Jump, Set
<1>11. CASE Opinion(c)
  BY <1>1, <1>2, <1>11 DEF Opinion, Onward, Finish, HandBack, Jump, Set
<1>12. CASE PickOther(c)
  <2>1. /\ UNCHANGED <<name, asked>> /\ pc[c] = "other" /\ member[c] \in Member
    BY <1>1, <1>12 DEF PickOther
  <2>2. CASE Finish(c, "nxdomain")
    BY <1>1, <1>2, <2>1, <2>2 DEF Finish, HandBack, Jump, Set
  <2>3. ASSUME NEW other \in Member \ {member[c]},
               doubted' = [doubted EXCEPT ![c] = member[c]],
               member' = [member EXCEPT ![c] = other],
               Jump(c, "second"), UNCHANGED <<tries, verdict>>
        PROVE  GoesByTruth(c)'
    BY <1>1, <1>2, <2>1, <2>3 DEF Jump
  <2>4. QED BY <1>1, <1>12, <2>2, <2>3, PickOtherTypes
<1>13. CASE AskOther(c)
  <2>1. PICK o \in MemberOutcomes(member[c], name[c]) :
          \/ o = "found" /\ Onward(c, "confirm")
          \/ o # "found" /\ Finish(c, "nxdomain")
    BY <1>13 DEF AskOther
  <2>2. o = "found" => Says(member[c], name[c]) = o
    BY OutcomesKnown
  <2>3. /\ UNCHANGED <<name, asked>> /\ pc[c] = "second"
    BY <1>13 DEF AskOther
  <2>4. QED BY <1>1, <1>2, <2>1, <2>2, <2>3 DEF Onward, Finish, HandBack, Jump, Set
<1>14. CASE Confirm(c)
  <2>1. PICK o \in TrustedOutcomes(name[c]) :
          verdict' = [verdict EXCEPT ![c] = o] /\ Jump(c, "disagree")
    BY <1>14 DEF Confirm
  <2>2. (o = "found" => name[c] \in Real) /\ (o = "nxdomain" => name[c] \notin Real)
    BY DEF TrustedOutcomes
  <2>3. QED BY <1>1, <1>2, <1>14, <2>1, <2>2 DEF Confirm, Jump
<1>15. CASE Disagree(c)
  BY <1>1, <1>2, <1>15 DEF Disagree, HandBack, Jump, Set
<1>16. CASE AskTrusted(c)
  <2>1. PICK o \in TrustedOutcomes(name[c]) : Finish(c, o)
    BY <1>16 DEF AskTrusted
  <2>2. o = "found" => name[c] \in Real
    BY DEF TrustedOutcomes
  <2>3. QED BY <1>1, <1>2, <1>16, <2>1, <2>2 DEF AskTrusted, Finish, HandBack, Jump, Set
<1>17. QED BY <1>3, <1>4, <1>5, <1>6, <1>7, <1>8, <1>9, <1>10, <1>11, <1>12, <1>13, <1>14, <1>15,
              <1>16 DEF Step

-----------------------------------------------------------------------------
(* Injection, blame and trust. *)

LEMMA CanariesStep ==
  ASSUME PoolInv, NEW c \in Caller, Step(c)
  PROVE  canaries' \subseteq Real
<1> USE DEF rotationVars
<1>1. canaries \subseteq Real
  BY DEF PoolInv, NothingInjected
<1>2. CASE Confirm(c)
  <2>1. PICK o \in TrustedOutcomes(name[c]) :
          canaries' = IF o = "found" /\ Cardinality(canaries) < MaxCanaries
                      THEN canaries \cup {name[c]} ELSE canaries
    BY <1>2 DEF Confirm
  <2>2. o = "found" => name[c] \in Real
    BY DEF TrustedOutcomes
  <2>3. QED BY <1>1, <2>1, <2>2
<1>3. CASE ~Confirm(c)
  <2>1. UNCHANGED canaries
    <3>1. CASE BeginLookup(c) \/ Pick(c) \/ StopAsking(c) \/ CheckDue(c) \/ TakeCanary(c)
      BY <3>1 DEF BeginLookup, Pick, StopAsking, CheckDue, TakeCanary
    <3>2. CASE ProbeMember(c) \/ Caught(c) \/ Ask(c) \/ Opinion(c)
      BY <3>2 DEF ProbeMember, Caught, Ask, Opinion
    <3>3. CASE PickOther(c) \/ AskOther(c) \/ Disagree(c) \/ AskTrusted(c)
      BY <3>3 DEF PickOther, AskOther, Disagree, AskTrusted
    <3>4. QED BY <1>3, <3>1, <3>2, <3>3 DEF Step
  <2>2. QED BY <1>1, <2>1
<1>4. QED BY <1>2, <1>3

(* A member that lies may be blamed for it. *)
LEMMA BlameFair ==
  ASSUME PoolTypeOK, HonestNeverFlagged, lies' = lies, NEW m, lies[m] # {}, Contradict(m)
  PROVE  HonestNeverFlagged'
<1>1. SUFFICES ASSUME NEW h \in Honest PROVE contradicted'[h] = 0 /\ ~flagged'[h]
  BY DEF HonestNeverFlagged, Honest
<1>2. h \in Member /\ h # m /\ contradicted[h] = 0 /\ ~flagged[h]
  BY <1>1 DEF Honest, HonestNeverFlagged
<1>3. contradicted'[h] = contradicted[h]
  BY <1>2 DEF Contradict, PoolTypeOK
<1>4. flagged'[h] = flagged[h]
  BY <1>2 DEF Contradict, PoolTypeOK
<1>5. QED BY <1>2, <1>3, <1>4

(* Who a caller blames has lied. *)
LEMMA BlamedLied ==
  ASSUME NEW c \in Caller, GoesByTruth(c), pc[c] = "disagree", Blamed(c) # None
  PROVE  lies[Blamed(c)] # {}
<1>1. CASE verdict[c] = "found"
  <2>1. Blamed(c) = doubted[c] /\ Says(doubted[c], name[c]) = "nxdomain" /\ name[c] \in Real
    BY <1>1 DEF Blamed, GoesByTruth
  <2>2. "denies" \in lies[Blamed(c)]
    BY <2>1, WhoLies
  <2>3. QED BY <2>2
<1>2. CASE verdict[c] = "nxdomain"
  <2>1. Blamed(c) = member[c] /\ Says(member[c], name[c]) = "found" /\ name[c] \notin Real
    BY <1>2 DEF Blamed, GoesByTruth
  <2>2. "invents" \in lies[Blamed(c)]
    BY <2>1, WhoLies
  <2>3. QED BY <2>2
<1>3. QED BY <1>1, <1>2 DEF Blamed

LEMMA HonestStep ==
  ASSUME PoolInv, NEW c \in Caller, Step(c)
  PROVE  HonestNeverFlagged'
<1>1. /\ PoolTypeOK /\ HonestNeverFlagged /\ GoesByTruth(c) /\ lies' = lies
  <2>1. [PoolNext]_allPoolVars
    BY DEF PoolNext
  <2>2. QED BY <2>1, WorldStays DEF PoolInv
<1>2. CASE Caught(c)
  <2>1. "denies" \in lies[member[c]] /\ Contradict(member[c])
    BY <1>1, <1>2 DEF Caught, GoesByTruth
  <2>2. QED BY <1>1, <2>1, BlameFair
<1>3. CASE Disagree(c)
  <2>1. CASE Blamed(c) # None
    <3>1. pc[c] = "disagree" /\ Contradict(Blamed(c))
      BY <1>3, <2>1 DEF Disagree
    <3>2. QED BY <1>1, <2>1, <3>1, BlameFair, BlamedLied
  <2>2. CASE Blamed(c) = None
    BY <1>1, <1>3, <2>2 DEF Disagree, blameVars, HonestNeverFlagged, Honest
  <2>3. QED BY <2>1, <2>2
<1>4. CASE ~Caught(c) /\ ~Disagree(c)
  <2>1. UNCHANGED blameVars
    <3>1. CASE BeginLookup(c) \/ Pick(c) \/ StopAsking(c) \/ CheckDue(c) \/ TakeCanary(c)
      BY <3>1 DEF BeginLookup, Pick, StopAsking, CheckDue, TakeCanary
    <3>2. CASE ProbeMember(c) \/ Ask(c) \/ Opinion(c) \/ PickOther(c)
      BY <3>2 DEF ProbeMember, Ask, Opinion, PickOther
    <3>3. CASE AskOther(c) \/ Confirm(c) \/ AskTrusted(c)
      BY <3>3 DEF AskOther, Confirm, AskTrusted
    <3>4. QED BY <1>4, <3>1, <3>2, <3>3 DEF Step
  <2>2. QED BY <1>1, <2>1 DEF blameVars, HonestNeverFlagged, Honest
<1>5. QED BY <1>2, <1>3, <1>4

LEMMA TrustStep ==
  ASSUME PoolInv, NEW c \in Caller, Step(c)
  PROVE  TrustEarned'
<1>1. /\ PoolTypeOK /\ TrustEarned /\ GoesByTruth(c) /\ lies' = lies
  <2>1. [PoolNext]_allPoolVars
    BY DEF PoolNext
  <2>2. QED BY <2>1, WorldStays DEF PoolInv
<1>2. ASSUME NEW m, Contradict(m) PROVE TrustEarned'
  BY <1>1, <1>2 DEF Contradict, TrustEarned, PoolTypeOK
<1>3. CASE ProbeMember(c)
  <2>1. PICK n \in asked[c] : \E o \in MemberOutcomes(member[c], n) :
          IF o \in {"found", "nxdomain"}
          THEN trusted' = [trusted EXCEPT ![member[c]] = (o = "found")]
          ELSE UNCHANGED trusted
    BY <1>3 DEF ProbeMember
  <2>2. n \in Real
    BY <1>1 DEF GoesByTruth
  <2> PICK o \in MemberOutcomes(member[c], n) :
        IF o \in {"found", "nxdomain"}
        THEN trusted' = [trusted EXCEPT ![member[c]] = (o = "found")]
        ELSE UNCHANGED trusted
    BY <2>1
  <2>3. CASE o = "found"
    <3>1. "denies" \notin lies[member[c]]
      BY <2>2, <2>3, OutcomesKnown, WhoLies
    <3>2. QED BY <1>1, <2>3, <3>1 DEF TrustEarned, PoolTypeOK
  <2>4. CASE o = "nxdomain"
    <3>1. trusted' = [trusted EXCEPT ![member[c]] = FALSE]
      BY <2>4
    <3>2. QED BY <1>1, <3>1 DEF TrustEarned, PoolTypeOK
  <2>5. CASE o \notin {"found", "nxdomain"}
    BY <1>1, <2>5 DEF TrustEarned
  <2>6. QED BY <2>3, <2>4, <2>5
<1>4. CASE Caught(c) \/ Disagree(c)
  <2>1. CASE UNCHANGED trusted
    BY <1>1, <2>1 DEF TrustEarned
  <2>2. QED BY <1>2, <1>4, <2>1 DEF Caught, Disagree
<1>5. CASE ~ProbeMember(c) /\ ~Caught(c) /\ ~Disagree(c)
  <2>1. UNCHANGED trusted
    <3>1. CASE BeginLookup(c) \/ Pick(c) \/ StopAsking(c) \/ CheckDue(c) \/ TakeCanary(c)
      BY <3>1 DEF BeginLookup, Pick, StopAsking, CheckDue, TakeCanary, honestyVars
    <3>2. CASE Ask(c) \/ Opinion(c) \/ PickOther(c)
      BY <3>2 DEF Ask, Opinion, PickOther, honestyVars
    <3>3. CASE AskOther(c) \/ Confirm(c) \/ AskTrusted(c)
      BY <3>3 DEF AskOther, Confirm, AskTrusted, honestyVars
    <3>4. QED BY <1>5, <3>1, <3>2, <3>3 DEF Step
  <2>2. QED BY <1>1, <2>1 DEF TrustEarned
<1>6. QED BY <1>3, <1>4, <1>5

-----------------------------------------------------------------------------
(* While no lookup has failed nobody is benched, and nothing is hidden. *)

LEMMA MarkTells ==
  ASSUME NEW o, Mark(o), ~misled'
  PROVE  ~misled /\ o \notin {"failed", "canceled"}
<1>1. misled \/ o \in {"failed", "canceled"} => misled'
  BY DEF Mark
<1>2. QED BY <1>1

LEMMA ReportBenchesNobody ==
  ASSUME PoolTypeOK, NobodyBenched, NEW m \in Member, NEW o, ReportOutcome(m, o), Mark(o)
  PROVE  NobodyBenched'
<1>1. SUFFICES ASSUME ~misled', NEW k \in Member PROVE windowKO'[k] = 0 /\ until'[k] = 0
  BY DEF NobodyBenched
<1>2. /\ ~misled /\ o \notin {"failed", "canceled"}
  BY <1>1, MarkTells
<1>3. \A j \in Member : windowKO[j] = 0 /\ until[j] = 0
  BY <1>2 DEF NobodyBenched
<1> DEFINE seen == window[m] + 1
           bad == windowKO[m] + (IF o = "failed" THEN 1 ELSE 0)
<1>4. bad = 0 /\ seen \in Nat
  BY <1>2, <1>3 DEF PoolTypeOK
<1>5. ~(bad * 100 > seen * FailPct)
  <2>1. FailPct \in Nat
    BY PoolAssumption
  <2> HIDE DEF seen, bad
  <2>2. seen * FailPct \in Nat
    BY <1>4, <2>1
  <2>3. QED BY <1>4, <2>2
<1>6. /\ windowKO' = [windowKO EXCEPT ![m] = IF WindowFull(seen) THEN 0 ELSE bad]
      /\ until' = IF WindowFull(seen) /\ bad * 100 > seen * FailPct
                  THEN [until EXCEPT ![m] = clock + BenchFor] ELSE until
  BY <1>2 DEF ReportOutcome
<1>7. until' = until
  <2> HIDE DEF seen, bad
  <2>1. QED BY <1>5, <1>6
<1>8. windowKO'[k] = 0
  <2> HIDE DEF seen, bad
  <2>1. QED BY <1>3, <1>4, <1>6 DEF PoolTypeOK
<1>9. QED BY <1>3, <1>7, <1>8

LEMMA BenchStep ==
  ASSUME PoolInv, NEW c \in Caller, Step(c)
  PROVE  NobodyBenched'
<1>1. PoolTypeOK /\ NobodyBenched /\ (misled => misled')
  <2>1. [PoolNext]_allPoolVars
    BY DEF PoolNext
  <2>2. QED BY <2>1, WorldStays DEF PoolInv
<1>2. CASE Ask(c)
  <2>1. member[c] \in Member /\ \E o : ReportOutcome(member[c], o) /\ Mark(o)
    BY <1>1, <1>2 DEF Ask, PoolTypeOK, AtMember, Places
  <2>2. QED BY <1>1, <2>1, ReportBenchesNobody
<1>3. CASE AskOther(c)
  <2>1. member[c] \in Member /\ \E o : ReportOutcome(member[c], o) /\ Mark(o)
    BY <1>1, <1>3 DEF AskOther, PoolTypeOK, AtMember, Places
  <2>2. QED BY <1>1, <2>1, ReportBenchesNobody
<1>4. CASE ~Ask(c) /\ ~AskOther(c)
  <2>1. UNCHANGED healthVars
    <3>1. CASE BeginLookup(c) \/ Pick(c) \/ StopAsking(c) \/ CheckDue(c) \/ TakeCanary(c)
      BY <3>1 DEF BeginLookup, Pick, StopAsking, CheckDue, TakeCanary
    <3>2. CASE ProbeMember(c) \/ Caught(c) \/ Opinion(c) \/ PickOther(c)
      BY <3>2 DEF ProbeMember, Caught, Opinion, PickOther
    <3>3. CASE Confirm(c) \/ Disagree(c) \/ AskTrusted(c)
      BY <3>3 DEF Confirm, Disagree, AskTrusted
    <3>4. QED BY <1>4, <3>1, <3>2, <3>3 DEF Step
  <2>2. QED BY <1>1, <2>1 DEF healthVars, NobodyBenched
<1>5. QED BY <1>2, <1>3, <1>4

(* The premises under which nothing may be hidden. *)
OneMayDeny == Honest # {} /\ (\A m, o \in Deniers : m = o) /\ ~misled

(* A name one member denies exists only if that member is the one that hides   *)
(* names; then an honest one is there to be asked, and any other finds it.     *)
LEMMA SomebodyToAsk ==
  ASSUME PoolInv, OneMayDeny, NEW m \in Member, NEW n \in Real, Says(m, n) = "nxdomain"
  PROVE  /\ \E h \in Member \ {m} : ~flagged[h] /\ ~Benched(h)
         /\ ~trusted[m]
         /\ \A o \in Member \ {m} : Says(o, n) = "found"
<1>1. m \in Deniers
  BY WhoLies DEF Deniers
<1>2. PICK h \in Honest : TRUE
  BY DEF OneMayDeny
<1>3. h \in Member \ {m} /\ ~flagged[h]
  BY <1>1, <1>2 DEF Honest, Deniers, PoolInv, HonestNeverFlagged
<1>4. ~Benched(h)
  <2>1. until[h] = 0 /\ clock \in Nat
    BY <1>2 DEF Honest, OneMayDeny, PoolInv, NobodyBenched, PoolTypeOK
  <2>2. QED BY <2>1 DEF Benched
<1>5. ~trusted[m]
  BY <1>1 DEF Deniers, PoolInv, TrustEarned
<1>6. ASSUME NEW o \in Member \ {m} PROVE Says(o, n) = "found"
  <2>1. o \notin Deniers
    BY <1>1, <1>6 DEF OneMayDeny
  <2>2. QED BY <2>1, WhoLies DEF Deniers
<1>7. QED BY <1>3, <1>4, <1>5, <1>6

LEMMA HiddenStep ==
  ASSUME PoolInv, NEW c \in Caller, Step(c), OneMayDeny', OneMayDeny => NotHiddenFrom(c)
  PROVE  NotHiddenFrom(c)'
<1>1. PoolTypeOK /\ GoesByTruth(c) /\ lies' = lies /\ OneMayDeny /\ ~misled'
  <2>1. [PoolNext]_allPoolVars
    BY DEF PoolNext
  <2>2. PoolTypeOK /\ GoesByTruth(c) /\ lies' = lies /\ (misled => misled')
    BY <2>1, WorldStays DEF PoolInv
  <2>3. QED BY <2>2 DEF OneMayDeny, Honest, Deniers
<1>2. CASE verdict'[c] = verdict[c] /\ name'[c] = name[c]
  BY <1>1, <1>2 DEF NotHiddenFrom
<1>3. CASE verdict'[c] # "nxdomain"
  BY <1>3 DEF NotHiddenFrom
<1>4. ASSUME name' = name, name[c] \notin Real PROVE NotHiddenFrom(c)'
  BY <1>4 DEF NotHiddenFrom
<1> USE DEF PoolTypeOK, Finish, Onward, HandBack, Jump, Set
<1>5. CASE BeginLookup(c) \/ StopAsking(c)
  BY <1>1, <1>3, <1>5 DEF BeginLookup, StopAsking
<1>6. CASE Pick(c) \/ CheckDue(c) \/ TakeCanary(c) \/ ProbeMember(c) \/ Caught(c)
  BY <1>2, <1>6 DEF Pick, CheckDue, TakeCanary, ProbeMember, Caught
<1>7. CASE Ask(c)
  <2>1. name' = name /\ (verdict' = verdict \/ verdict' = [verdict EXCEPT ![c] = "canceled"])
    BY <1>7 DEF Ask
  <2>2. QED BY <1>1, <1>2, <1>3, <2>1
<1>8. CASE Opinion(c)
  <2>1. /\ pc[c] = "opinion" /\ name' = name
        /\ verdict' = verdict \/ trusted[member[c]]
    BY <1>8 DEF Opinion, Believed
  <2>2. Says(member[c], name[c]) = "nxdomain" /\ member[c] \in Member
    BY <1>1, <2>1 DEF GoesByTruth, AtMember, Places
  <2>3. CASE trusted[member[c]]
    BY <1>1, <1>4, <2>1, <2>2, <2>3, SomebodyToAsk
  <2>4. QED BY <1>2, <2>1, <2>3
<1>9. CASE PickOther(c)
  <2>1. pc[c] = "other" /\ name' = name
    BY <1>9 DEF PickOther
  <2>2. Says(member[c], name[c]) = "nxdomain" /\ member[c] \in Member
    BY <1>1, <2>1 DEF GoesByTruth, AtMember, Places
  <2>3. CASE \A m \in Member \ {member[c]} : flagged[m] \/ Benched(m)
    BY <1>1, <1>4, <2>1, <2>2, <2>3, SomebodyToAsk
  <2>4. CASE UNCHANGED verdict
    BY <1>2, <2>1, <2>4
  <2>5. QED BY <1>1, <1>9, <2>3, <2>4, PickOtherTypes
<1>10. CASE AskOther(c)
  <2>1. PICK o \in MemberOutcomes(member[c], name[c]) :
          /\ Mark(o)
          /\ \/ o = "found" /\ Onward(c, "confirm")
             \/ o # "found" /\ Finish(c, "nxdomain")
    BY <1>10 DEF AskOther
  <2>2. pc[c] = "second" /\ name' = name
    BY <1>10 DEF AskOther
  <2>3. CASE o = "found"
    BY <1>2, <2>1, <2>2, <2>3
  <2>4. CASE o # "found"
    <3>1. o = Says(member[c], name[c])
      BY <1>1, <2>1, MarkTells, OutcomesKnown
    <3>2. /\ member[c] \in Member /\ doubted[c] \in Member /\ member[c] # doubted[c]
          /\ Says(doubted[c], name[c]) = "nxdomain"
      BY <1>1, <2>2 DEF GoesByTruth, AtMember, Places
    <3>3. name[c] \notin Real
      BY <1>1, <2>4, <3>1, <3>2, SomebodyToAsk
    <3>4. QED BY <1>4, <2>2, <3>3
  <2>5. QED BY <2>3, <2>4
<1>11. CASE Confirm(c) \/ AskTrusted(c)
  <2>1. PICK o \in TrustedOutcomes(name[c]) : verdict' = [verdict EXCEPT ![c] = o]
    BY <1>11 DEF Confirm, AskTrusted
  <2>2. o = "nxdomain" => name[c] \notin Real
    BY DEF TrustedOutcomes
  <2>3. name' = name
    BY <1>11 DEF Confirm, AskTrusted
  <2>4. QED BY <1>1, <1>3, <1>4, <2>1, <2>2, <2>3
<1>12. CASE Disagree(c)
  BY <1>2, <1>12 DEF Disagree
<1>13. QED BY <1>5, <1>6, <1>7, <1>8, <1>9, <1>10, <1>11, <1>12 DEF Step

-----------------------------------------------------------------------------
(* The theorems. *)

LEMMA PoolInvInit ==
  ASSUME PoolInit
  PROVE  PoolInv
<1> USE DEF PoolInit
<1>1. PoolTypeOK
  <2>1. 0 \in 0..(PoolSize - 1)
    BY PoolAssumption
  <2>2. \A c \in Caller : pc[c] = "idle" /\ member[c] = None /\ doubted[c] = None
    OBVIOUS
  <2>3. /\ pc \in [Caller -> Places] /\ verdict \in [Caller -> Outcomes]
        /\ asked \in [Caller -> SUBSET Queried]
        /\ name \in [Caller -> Queried \cup {CHOOSE n \in Queried : TRUE}]
    BY DEF Places, Outcomes
  <2>4. QED BY <2>1, <2>2, <2>3 DEF PoolTypeOK, AtMember, None
<1>2. \A c \in Caller : GoesByTruth(c)
  BY DEF GoesByTruth
<1>3. NothingInjected /\ HonestNeverFlagged /\ TrustEarned /\ NobodyBenched /\ NothingHidden
  BY DEF NothingInjected, HonestNeverFlagged, Honest, TrustEarned, NobodyBenched, NothingHidden
<1>4. QED BY <1>1, <1>2, <1>3 DEF PoolInv

LEMMA PoolInvStep ==
  ASSUME PoolInv, [PoolNext]_allPoolVars
  PROVE  PoolInv'
<1>1. PoolTypeOK' /\ lies' = lies /\ (misled => misled')
  BY PoolTypeStep, WorldStays DEF PoolInv
<1>2. CASE Elapse \/ CancelPool \/ UNCHANGED allPoolVars
  <2>1. UNCHANGED <<healthVars, honestyVars, blameVars, rotationVars, callVars, misled>>
    BY <1>2 DEF Elapse, CancelPool, allPoolVars, envVars
  <2>2. \A c \in Caller : GoesByTruth(c)'
    BY <1>1, <2>1, TruthStays DEF PoolInv, callVars
  <2>3. /\ NothingInjected' /\ HonestNeverFlagged' /\ TrustEarned' /\ NobodyBenched'
        /\ NothingHidden'
    BY <1>1, <2>1 DEF PoolInv, callVars, rotationVars, blameVars, honestyVars, healthVars,
       NothingInjected, HonestNeverFlagged, Honest, Deniers, TrustEarned, NobodyBenched,
       NothingHidden
  <2>4. QED BY <1>1, <2>2, <2>3 DEF PoolInv
<1>3. ASSUME NEW c \in Caller, Step(c) PROVE PoolInv'
  <2>1. ASSUME NEW o \in Caller \ {c}
        PROVE  /\ pc'[o] = pc[o] /\ name'[o] = name[o] /\ member'[o] = member[o]
               /\ doubted'[o] = doubted[o] /\ asked'[o] = asked[o] /\ verdict'[o] = verdict[o]
    BY <1>3, <2>1, OthersStay DEF PoolInv
  <2>2. ASSUME NEW o \in Caller PROVE GoesByTruth(o)'
    <3>1. CASE o = c
      BY <1>3, <3>1, OwnTruthStep
    <3>2. CASE o # c
      BY <1>1, <2>1, <3>2, TruthStays DEF PoolInv
    <3>3. QED BY <3>1, <3>2
  <2>3. NothingInjected'
    BY <1>3, <2>2, CanariesStep DEF NothingInjected, GoesByTruth
  <2>4. HonestNeverFlagged' /\ TrustEarned' /\ NobodyBenched'
    BY <1>3, HonestStep, TrustStep, BenchStep
  <2>5. NothingHidden'
    <3>1. SUFFICES ASSUME OneMayDeny', NEW o \in Caller PROVE NotHiddenFrom(o)'
      BY DEF NothingHidden, OneMayDeny, NotHiddenFrom
    <3>2. OneMayDeny => NotHiddenFrom(o)
      BY DEF PoolInv, NothingHidden, OneMayDeny, NotHiddenFrom
    <3>3. CASE o = c
      BY <1>3, <3>1, <3>2, <3>3, HiddenStep
    <3>4. CASE o # c
      <4>1. OneMayDeny
        BY <1>1, <3>1 DEF OneMayDeny, Honest, Deniers
      <4>2. QED BY <2>1, <3>2, <3>4, <4>1 DEF NotHiddenFrom
    <3>5. QED BY <3>3, <3>4
  <2>6. QED BY <1>1, <2>2, <2>3, <2>4, <2>5 DEF PoolInv
<1>4. QED BY <1>2, <1>3 DEF PoolNext

THEOREM PoolHolds == PoolSpec => []PoolInv
  BY PoolInvInit, PoolInvStep, PTL DEF PoolSpec

(* No member of a pool of any size gets a name reported that does not exist,   *)
(* or makes one a canary (resolveViaPool's confirmation).                      *)
THEOREM NobodyInjects == PoolSpec => []NothingInjected
<1>1. PoolInv => NothingInjected
  BY DEF PoolInv
<1>2. QED BY <1>1, PoolHolds, PTL

(* However callers interleave, and whatever fails, no member that answers      *)
(* truthfully is contradicted or flagged (checkCanary, Disagree).              *)
THEOREM HonestUnblamed == PoolSpec => []HonestNeverFlagged
<1>1. PoolInv => HonestNeverFlagged
  BY DEF PoolInv
<1>2. QED BY <1>1, PoolHolds, PTL

(* One member that denies names hides none while an honest one is in the pool  *)
(* and no lookup has failed: there is always somebody to ask (secondOpinion).  *)
THEOREM NobodyHides == PoolSpec => []NothingHidden
<1>1. PoolInv => NothingHidden
  BY DEF PoolInv
<1>2. QED BY <1>1, PoolHolds, PTL
=============================================================================
