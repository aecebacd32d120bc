----------------------------- MODULE LookupProofs -----------------------------
(* The limiter spaces its slots for every number of callers and every          *)
(* interval; and lookups use it as it promises to be used, so what it promises *)
(* holds of every set of lookups.                                              *)
EXTENDS LookupProps, FiniteSetTheorems, WellFoundedInduction, TLAPS

(* Every slot handed out lies at least an interval before the next free one:   *)
(* this is what makes the spacing inductive.                                   *)
BehindFree == \A k \in DOMAIN handed : handed[k] + Interval <= free

RateTypeOK ==
  /\ now \in Int /\ free \in Int
  /\ handed \in Seq(Int) /\ slot \in [Client -> Int]

RateInv == RateTypeOK /\ BehindFree /\ SlotsSpaced

(* What the critical section of Wait hands out is neither in the past nor one  *)
(* that is taken.                                                              *)
LEMMA NextSlotFresh ==
  ASSUME now \in Int, free \in Int
  PROVE  NextSlot \in Int /\ free <= NextSlot /\ now <= NextSlot
  BY DEF NextSlot

(* A reservation keeps all slots apart. *)
LEMMA ReserveSpaces ==
  ASSUME RateInv, NEW c \in Client, Reserve(c)
  PROVE  RateInv'
<1> USE RateAssumption
<1>1. /\ handed' = Append(handed, NextSlot) /\ free' = NextSlot + Interval
      /\ now' = now /\ slot' = [slot EXCEPT ![c] = NextSlot]
  BY DEF Reserve
<1>2. NextSlot \in Int /\ free <= NextSlot
  BY NextSlotFresh DEF RateInv, RateTypeOK
<1>3. RateTypeOK'
  BY <1>1, <1>2 DEF RateInv, RateTypeOK
<1>4. /\ DOMAIN handed' = 1..(Len(handed) + 1) /\ DOMAIN handed = 1..Len(handed)
      /\ Len(handed) \in Nat
      /\ \A k \in DOMAIN handed : handed'[k] = handed[k] /\ handed[k] \in Int
      /\ handed'[Len(handed) + 1] = NextSlot
  BY <1>1, <1>2 DEF RateInv, RateTypeOK
<1>5. BehindFree'
  BY <1>1, <1>2, <1>4 DEF RateInv, RateTypeOK, BehindFree
<1>6. SlotsSpaced'
  <2>1. SUFFICES ASSUME NEW j \in DOMAIN handed', NEW k \in DOMAIN handed', j < k
                 PROVE  handed'[j] + Interval <= handed'[k]
    BY DEF SlotsSpaced
  <2>2. j \in DOMAIN handed
    BY <2>1, <1>4
  <2>3. CASE k \in DOMAIN handed
    BY <2>1, <2>2, <2>3, <1>4 DEF RateInv, SlotsSpaced
  <2>4. CASE k = Len(handed) + 1
    BY <2>2, <2>4, <1>2, <1>4 DEF RateInv, RateTypeOK, BehindFree
  <2>5. QED BY <2>1, <2>3, <2>4, <1>4
<1>7. QED BY <1>3, <1>5, <1>6 DEF RateInv

LEMMA RateInvStep ==
  ASSUME RateInv, [RateNext]_rateVars
  PROVE  RateInv'
<1>1. CASE ClockTick
  BY <1>1 DEF ClockTick, RateInv, RateTypeOK, BehindFree, SlotsSpaced
<1>2. ASSUME NEW c \in Client, Reserve(c) PROVE RateInv'
  BY <1>2, ReserveSpaces
<1>3. ASSUME NEW c \in Client, StopWaiting(c) PROVE RateInv'
  BY <1>3 DEF StopWaiting, RateInv, RateTypeOK, BehindFree, SlotsSpaced, NoSlot
<1>4. CASE UNCHANGED rateVars
  BY <1>4 DEF rateVars, RateInv, RateTypeOK, BehindFree, SlotsSpaced
<1>5. QED BY <1>1, <1>2, <1>3, <1>4 DEF RateNext

THEOREM RateSound == RateSpec => []RateInv
<1>1. RateInit => RateInv
  BY DEF RateInit, RateInv, RateTypeOK, BehindFree, SlotsSpaced, NoSlot
<1>2. QED BY <1>1, RateInvStep, PTL DEF RateSpec

(* Whatever the callers do, and however many give up, any two slots handed     *)
(* out are at least an interval apart.                                         *)
THEOREM RateHeld == RateSpec => []SlotsSpaced
<1>1. RateInv => SlotsSpaced
  BY DEF RateInv
<1>2. QED BY <1>1, RateSound, PTL

-----------------------------------------------------------------------------
(* The lookups over the limiter. *)

(* A step of a lookup is a step of the limiter or leaves it alone. *)
LEMMA LookupsStep ==
  ASSUME [LookNext]_lookVars
  PROVE  [RateNext]_rateVars
<1>1. CASE UNCHANGED lookVars
  BY <1>1 DEF lookVars
<1>2. CASE TimePasses
  BY <1>2 DEF TimePasses, RateNext
<1>3. CASE CancelLookups
  BY <1>3 DEF CancelLookups
<1>4. ASSUME NEW c \in Client, LookStep(c) PROVE [RateNext]_rateVars
  <2>1. CASE StartAttempt(c) \/ Answered(c) \/ Judge(c) \/ Backoff(c)
    BY <2>1 DEF StartAttempt, Answered, Judge, Backoff
  <2>2. CASE ReserveSlot(c)
    BY <1>4, <2>2 DEF ReserveSlot, RateNext
  <2>3. CASE SlotTaken(c) \/ ExtraTaken(c)
    BY <1>4, <2>3 DEF SlotTaken, ExtraTaken, Serve, RateNext
  <2>4. CASE SlotRefused(c) \/ ExtraRefused(c)
    BY <1>4, <2>4 DEF SlotRefused, ExtraRefused, RateNext
  <2>5. CASE Dial(c)
    BY <1>4, <2>5 DEF Dial, RateNext
  <2>6. QED BY <1>4, <2>1, <2>2, <2>3, <2>4, <2>5 DEF LookStep
<1>5. QED BY <1>1, <1>2, <1>3, <1>4 DEF LookNext

(* However lookups retry, give up and overrun what they reserved, the limiter  *)
(* under them behaves as its specification says.                               *)
THEOREM LookupsPaced == LookSpec => RateSpec
<1>1. LookInit => RateInit
  BY DEF LookInit
<1>2. [LookNext]_lookVars => [RateNext]_rateVars
  BY LookupsStep
<1>3. QED BY <1>1, <1>2, PTL DEF LookSpec, RateSpec

(* So the slots of all lookups, their retries and Go's extra queries included, *)
(* are at least an interval apart.                                             *)
THEOREM LookupsSpaced == LookSpec => []SlotsSpaced
  BY LookupsPaced, RateHeld, PTL

-----------------------------------------------------------------------------
(***************************************************************************)
(* What is on the wire.  Every query is paid for by a slot whose time has  *)
(* come.  The invariant keeps the account: the slots that have come and    *)
(* nobody waits for any more cover the queries sent and those that the     *)
(* lookups under way have paid for and not yet sent.                       *)
(***************************************************************************)
LookPlaces == {"attempt", "reserve", "wait", "lookup", "extra", "judge", "backoff", "over"}

LookTypeOK ==
  /\ now \in Nat /\ free \in Nat /\ handed \in Seq(Nat) /\ slot \in [Client -> Int]
  /\ lpc \in [Client -> LookPlaces] /\ type \in [Client -> 1..Len(Types)]
  /\ paid \in [Client -> Nat] /\ dials \in [Client -> Nat] /\ wire \in Nat

(* Every caller that waits does so for a slot of its own. *)
SlotsOwn ==
  /\ \A c \in Client : slot[c] # NoSlot => \E k \in DOMAIN handed : slot[c] = handed[k]
  /\ \A c, d \in Client : c # d /\ slot[c] # NoSlot => slot[c] # slot[d]

(* A lookup starts once all its slots have come. *)
PaidFor ==
  \A c \in Client :
    /\ lpc[c] \in {"reserve", "wait"} => paid[c] < Prepaid(c)
    /\ lpc[c] = "extra" => dials[c] > Prepaid(c)

(* The queries a lookup has paid for and not sent. *)
Credit(c) ==
  IF lpc[c] \in {"reserve", "wait"} THEN paid[c]
  ELSE IF lpc[c] = "lookup" /\ dials[c] <= Prepaid(c) THEN Prepaid(c) - dials[c]
  ELSE 0
Credits == {p \in Client \X (1..3) : p[2] <= Credit(p[1])}

(* The slots that have come and nobody waits for. *)
Come == {k \in DOMAIN handed : handed[k] <= now /\ \A c \in Client : slot[c] # handed[k]}

Account == IsFiniteSet(Credits) /\ wire + Cardinality(Credits) <= Cardinality(Come)

WireInv == RateInv /\ LookTypeOK /\ SlotsOwn /\ PaidFor /\ Account

-----------------------------------------------------------------------------
(* The slots. *)

LEMMA HandedOnce ==
  ASSUME RateInv, NEW j \in DOMAIN handed, NEW k \in DOMAIN handed, handed[j] = handed[k]
  PROVE  j = k
<1>1. /\ handed \in Seq(Int) /\ Interval \in Nat \ {0}
      /\ handed[j] \in Int /\ handed[k] \in Int /\ j \in Int /\ k \in Int
  BY RateAssumption DEF RateInv, RateTypeOK
<1>2. CASE j < k
  BY <1>1, <1>2 DEF RateInv, SlotsSpaced
<1>3. CASE k < j
  BY <1>1, <1>3 DEF RateInv, SlotsSpaced
<1>4. QED BY <1>1, <1>2, <1>3

(* A reservation takes a slot nobody has had. *)
LEMMA FreshSlot ==
  ASSUME RateInv, LookTypeOK, SlotsOwn, NEW c \in Client, Reserve(c)
  PROVE  /\ NextSlot \in Nat /\ NextSlot # NoSlot
         /\ handed' = Append(handed, NextSlot) /\ slot' = [slot EXCEPT ![c] = NextSlot]
         /\ DOMAIN handed' = DOMAIN handed \cup {Len(handed) + 1}
         /\ \A k \in DOMAIN handed : handed'[k] = handed[k] /\ handed[k] # NextSlot
         /\ handed'[Len(handed) + 1] = NextSlot
         /\ \A d \in Client : slot[d] # NextSlot
<1>1. NextSlot \in Nat /\ free <= NextSlot
  BY DEF NextSlot, LookTypeOK
<1>2. /\ handed' = Append(handed, NextSlot) /\ slot' = [slot EXCEPT ![c] = NextSlot]
      /\ handed \in Seq(Nat)
  BY DEF Reserve, LookTypeOK
<1>3. /\ Len(handed) \in Nat /\ DOMAIN handed = 1..Len(handed)
      /\ DOMAIN handed' = 1..(Len(handed) + 1)
      /\ \A k \in DOMAIN handed : handed'[k] = handed[k]
      /\ handed'[Len(handed) + 1] = NextSlot
  BY <1>1, <1>2
<1>4. \A k \in DOMAIN handed : handed[k] # NextSlot
  BY <1>1, <1>2, RateAssumption DEF RateInv, BehindFree, LookTypeOK
<1>5. NextSlot # NoSlot
  BY <1>1 DEF NoSlot
<1>6. \A d \in Client : slot[d] # NextSlot
  BY <1>4, <1>5 DEF SlotsOwn
<1>7. QED BY <1>1, <1>2, <1>3, <1>4, <1>5, <1>6

LEMMA SlotsOwnStep ==
  ASSUME RateInv, LookTypeOK, SlotsOwn, [RateNext]_rateVars
  PROVE  SlotsOwn'
<1>1. slot \in [Client -> Int]
  BY DEF LookTypeOK
<1>2. CASE ClockTick \/ UNCHANGED rateVars
  BY <1>2 DEF ClockTick, rateVars, SlotsOwn
<1>3. ASSUME NEW c \in Client, StopWaiting(c) PROVE SlotsOwn'
  BY <1>1, <1>3 DEF StopWaiting, SlotsOwn
<1>4. ASSUME NEW c \in Client, Reserve(c) PROVE SlotsOwn'
  <2>1. /\ slot' = [slot EXCEPT ![c] = NextSlot] /\ NextSlot # NoSlot
        /\ DOMAIN handed' = DOMAIN handed \cup {Len(handed) + 1}
        /\ \A k \in DOMAIN handed : handed'[k] = handed[k]
        /\ handed'[Len(handed) + 1] = NextSlot
        /\ \A d \in Client : slot[d] # NextSlot
    BY <1>4, FreshSlot
  <2>2. ASSUME NEW d \in Client, slot'[d] # NoSlot PROVE \E k \in DOMAIN handed' : slot'[d] = handed'[k]
    <3>1. CASE d = c
      BY <1>1, <2>1, <3>1
    <3>2. CASE d # c
      BY <1>1, <2>1, <2>2, <3>2 DEF SlotsOwn
    <3>3. QED BY <3>1, <3>2
  <2>3. ASSUME NEW d \in Client, NEW e \in Client, d # e, slot'[d] # NoSlot
        PROVE  slot'[d] # slot'[e]
    BY <1>1, <2>1, <2>3 DEF SlotsOwn
  <2>4. QED BY <2>2, <2>3 DEF SlotsOwn
<1>5. QED BY <1>2, <1>3, <1>4 DEF RateNext

LEMMA SomeSlots ==
  ASSUME NEW h \in Seq(Nat), NEW S \in SUBSET DOMAIN h
  PROVE  IsFiniteSet(S) /\ Cardinality(S) \in Nat
<1>1. IsFiniteSet(DOMAIN h)
  <2>1. DOMAIN h = 1..Len(h) /\ Len(h) \in Int /\ 1 \in Int
    OBVIOUS
  <2>2. QED BY <2>1, FS_Interval
<1>2. QED BY <1>1, FS_Subset, FS_CardinalityType

LEMMA ComeCounts ==
  ASSUME LookTypeOK, LookTypeOK'
  PROVE  /\ IsFiniteSet(Come) /\ IsFiniteSet(Come')
         /\ Cardinality(Come) \in Nat /\ Cardinality(Come') \in Nat
<1>1. handed \in Seq(Nat) /\ Come \in SUBSET DOMAIN handed
  BY DEF LookTypeOK, Come
<1>2. handed' \in Seq(Nat) /\ Come' \in SUBSET DOMAIN handed'
  BY DEF LookTypeOK, Come
<1>3. QED BY <1>1, <1>2, SomeSlots

(* A slot that has come and is not waited for stays so. *)
LEMMA ComeStays ==
  ASSUME RateInv, LookTypeOK, LookTypeOK', SlotsOwn, [RateNext]_rateVars
  PROVE  Come \subseteq Come' /\ Cardinality(Come) <= Cardinality(Come')
<1>1. Come \subseteq Come'
  <2>1. CASE UNCHANGED rateVars
    BY <2>1 DEF rateVars, Come
  <2>2. CASE ClockTick
    BY <2>2 DEF ClockTick, Come, LookTypeOK
  <2>3. ASSUME NEW c \in Client, StopWaiting(c) PROVE Come \subseteq Come'
    <3>1. \A k \in DOMAIN handed : handed[k] # NoSlot
      <4>1. handed \in [1..Len(handed) -> Nat]
        BY DEF LookTypeOK
      <4>2. DOMAIN handed = 1..Len(handed)
        BY <4>1
      <4>3. NoSlot \notin Nat
        BY DEF NoSlot
      <4>4. QED BY <4>1, <4>2, <4>3
    <3>2. QED BY <2>3, <3>1 DEF StopWaiting, Come, LookTypeOK
  <2>4. ASSUME NEW c \in Client, Reserve(c) PROVE Come \subseteq Come'
    <3>1. /\ slot' = [slot EXCEPT ![c] = NextSlot] /\ now' = now
          /\ DOMAIN handed' = DOMAIN handed \cup {Len(handed) + 1}
          /\ \A k \in DOMAIN handed : handed'[k] = handed[k] /\ handed[k] # NextSlot
      BY <2>4, FreshSlot DEF Reserve
    <3>2. slot \in [Client -> Int]
      BY DEF LookTypeOK
    <3>3. QED BY <3>1, <3>2 DEF Come
  <2>5. QED BY <2>1, <2>2, <2>3, <2>4 DEF RateNext
<1>2. IsFiniteSet(Come')
  BY ComeCounts
<1>3. QED BY <1>1, <1>2, FS_Subset

(* And a caller whose slot has come leaves one more. *)
LEMMA ServeAddsOne ==
  ASSUME RateInv, LookTypeOK, LookTypeOK', SlotsOwn, NEW c \in Client, Serve(c)
  PROVE  Cardinality(Come') >= Cardinality(Come) + 1
<1>1. /\ slot[c] # NoSlot /\ slot[c] <= now /\ slot' = [slot EXCEPT ![c] = NoSlot]
      /\ UNCHANGED <<now, free, handed>> /\ slot \in [Client -> Int]
  BY DEF Serve, StopWaiting, LookTypeOK
<1>2. PICK k \in DOMAIN handed : slot[c] = handed[k]
  BY <1>1 DEF SlotsOwn
<1>3. Come \subseteq Come'
  <2>1. StopWaiting(c)
    BY DEF Serve
  <2>2. QED BY <2>1, ComeStays DEF RateNext
<1>4. k \notin Come
  BY <1>2 DEF Come
<1>5. k \in Come'
  <2>1. handed[k] # NoSlot
    BY <1>1, <1>2
  <2>2. \A d \in Client : slot'[d] # handed[k]
    BY <1>1, <1>2, <2>1 DEF SlotsOwn
  <2>3. QED BY <1>1, <1>2, <2>2 DEF Come
<1>6. /\ IsFiniteSet(Come) /\ IsFiniteSet(Come')
      /\ Cardinality(Come) \in Nat /\ Cardinality(Come') \in Nat
  BY ComeCounts
<1>7. Cardinality(Come \cup {k}) = Cardinality(Come) + 1
  BY <1>4, <1>6, FS_AddElement
<1>8. Cardinality(Come \cup {k}) <= Cardinality(Come')
  BY <1>3, <1>5, <1>6, FS_Subset
<1>9. QED BY <1>6, <1>7, <1>8

-----------------------------------------------------------------------------
(* The account of the wire. *)

LEMMA PrepaidRange ==
  \A t \in 1..Len(Types) : queriesPerType[Types[t]] \in 1..3
<1>1. SUFFICES ASSUME NEW t \in 1..Len(Types) PROVE queriesPerType[Types[t]] \in 1..3
  OBVIOUS
<1>2. Types[t] \in {"A", "AAAA", "CNAME"}
  BY <1>1, LookupAssumption
<1>3. QED BY <1>2 DEF queriesPerType

LEMMA CreditNat ==
  ASSUME LookTypeOK, NEW c \in Client
  PROVE  Prepaid(c) \in 1..3 /\ Credit(c) \in Nat
<1>1. Prepaid(c) \in 1..3
  BY PrepaidRange DEF LookTypeOK, Prepaid
<1>2. paid[c] \in Nat /\ dials[c] \in Nat
  BY DEF LookTypeOK
<1>3. QED BY <1>1, <1>2 DEF Credit

LEMMA CreditNatPrimed ==
  ASSUME LookTypeOK', NEW c \in Client
  PROVE  Prepaid(c)' \in 1..3 /\ Credit(c)' \in Nat
<1>1. Prepaid(c)' \in 1..3
  BY PrepaidRange DEF LookTypeOK, Prepaid
<1>2. paid'[c] \in Nat /\ dials'[c] \in Nat
  BY DEF LookTypeOK
<1>3. QED BY <1>1, <1>2 DEF Credit

LEMMA RateTypes ==
  ASSUME LookTypeOK, [RateNext]_rateVars
  PROVE  now' \in Nat /\ free' \in Nat /\ handed' \in Seq(Nat) /\ slot' \in [Client -> Int]
<1>1. CASE ClockTick \/ UNCHANGED rateVars
  BY <1>1 DEF ClockTick, rateVars, LookTypeOK
<1>2. ASSUME NEW c \in Client, StopWaiting(c)
      PROVE  now' \in Nat /\ free' \in Nat /\ handed' \in Seq(Nat) /\ slot' \in [Client -> Int]
  BY <1>2 DEF StopWaiting, NoSlot, LookTypeOK
<1>3. ASSUME NEW c \in Client, Reserve(c)
      PROVE  now' \in Nat /\ free' \in Nat /\ handed' \in Seq(Nat) /\ slot' \in [Client -> Int]
  <2>1. NextSlot \in Nat
    BY DEF NextSlot, LookTypeOK
  <2>2. QED BY <1>3, <2>1, RateAssumption DEF Reserve, LookTypeOK
<1>4. QED BY <1>1, <1>2, <1>3 DEF RateNext

LEMMA LookTypeStep ==
  ASSUME LookTypeOK, [LookNext]_lookVars
  PROVE  LookTypeOK'
<1>1. now' \in Nat /\ free' \in Nat /\ handed' \in Seq(Nat) /\ slot' \in [Client -> Int]
  BY LookupsStep, RateTypes
<1>2. /\ lpc \in [Client -> LookPlaces] /\ type \in [Client -> 1..Len(Types)]
      /\ paid \in [Client -> Nat] /\ dials \in [Client -> Nat] /\ wire \in Nat
  BY DEF LookTypeOK
<1>3. 1 \in 1..Len(Types) /\ Len(Types) \in Nat
  BY LookupAssumption
<1>4. CASE UNCHANGED lookVars \/ TimePasses \/ CancelLookups
  <2>1. UNCHANGED <<lpc, askVars, wire>>
    BY <1>4 DEF lookVars, TimePasses, CancelLookups
  <2>2. QED BY <1>1, <1>2, <2>1 DEF askVars, LookTypeOK
<1>5. ASSUME NEW c \in Client, LookStep(c) PROVE LookTypeOK'
  <2>1. lpc' \in [Client -> LookPlaces]
    <3>1. lpc' = lpc \/ \E p \in LookPlaces : LookTo(c, p)
      BY <1>5
      DEF LookStep, StartAttempt, ReserveSlot, SlotTaken, SlotRefused, Dial, ExtraTaken, ExtraRefused,
          Answered, Judge, Backoff, Return, LookTo, LookPlaces
    <3>2. QED BY <1>2, <3>1 DEF LookTo
  <2>2. type' \in [Client -> 1..Len(Types)]
    <3>1. \/ type' = type
          \/ type' = [type EXCEPT ![c] = 1]
          \/ type[c] < Len(Types) /\ type' = [type EXCEPT ![c] = @ + 1]
      BY <1>5
      DEF LookStep, StartAttempt, ReserveSlot, SlotTaken, SlotRefused, Dial, ExtraTaken, ExtraRefused,
          Answered, Judge, Backoff, askVars
    <3>2. QED BY <1>2, <1>3, <3>1
  <2>3. paid' \in [Client -> Nat]
    <3>1. paid' = paid \/ paid' = [paid EXCEPT ![c] = 0] \/ paid' = [paid EXCEPT ![c] = @ + 1]
      BY <1>5
      DEF LookStep, StartAttempt, ReserveSlot, SlotTaken, SlotRefused, Dial, ExtraTaken, ExtraRefused,
          Answered, Judge, Backoff, askVars
    <3>2. QED BY <1>2, <3>1
  <2>4. dials' \in [Client -> Nat]
    <3>1. CASE SlotTaken(c)
      BY <1>2, <3>1 DEF SlotTaken
    <3>2. CASE Dial(c)
      BY <1>2, <3>2 DEF Dial
    <3>3. CASE ~SlotTaken(c) /\ ~Dial(c)
      <4>1. dials' = dials
        BY <1>5, <3>3
        DEF LookStep, StartAttempt, ReserveSlot, SlotRefused, ExtraTaken, ExtraRefused,
            Answered, Judge, Backoff, askVars
      <4>2. QED BY <1>2, <4>1
    <3>4. QED BY <3>1, <3>2, <3>3
  <2>5. wire' \in Nat
    <3>1. wire' = wire \/ wire' = wire + 1
      BY <1>5
      DEF LookStep, StartAttempt, ReserveSlot, SlotTaken, SlotRefused, Dial, ExtraTaken, ExtraRefused,
          Answered, Judge, Backoff
    <3>2. QED BY <1>2, <3>1
  <2>6. QED BY <1>1, <2>1, <2>2, <2>3, <2>4, <2>5 DEF LookTypeOK
<1>6. QED BY <1>4, <1>5 DEF LookNext

LEMMA PaidForStep ==
  ASSUME LookTypeOK, PaidFor, [LookNext]_lookVars
  PROVE  PaidFor'
<1>1. /\ lpc \in [Client -> LookPlaces] /\ type \in [Client -> 1..Len(Types)]
      /\ paid \in [Client -> Nat] /\ dials \in [Client -> Nat]
      /\ LookTypeOK'
  BY LookTypeStep DEF LookTypeOK
<1>2. CASE UNCHANGED lookVars \/ TimePasses \/ CancelLookups
  BY <1>2 DEF lookVars, TimePasses, CancelLookups, askVars, PaidFor, Prepaid
<1>3. ASSUME NEW c \in Client, LookStep(c) PROVE PaidFor'
  <2>1. ASSUME NEW d \in Client, d # c
        PROVE  lpc'[d] = lpc[d] /\ paid'[d] = paid[d] /\ dials'[d] = dials[d] /\ type'[d] = type[d]
    BY <1>1, <1>3, <2>1
    DEF LookStep, StartAttempt, ReserveSlot, SlotTaken, SlotRefused, Dial, ExtraTaken, ExtraRefused,
        Answered, Judge, Backoff, Return, LookTo, askVars
  <2>2. ASSUME lpc'[c] \in {"reserve", "wait"} PROVE paid'[c] < Prepaid(c)'
    <3>1. CASE StartAttempt(c) \/ Answered(c)
      <4>1. Types[type'[c]] \in {"A", "AAAA", "CNAME"}
        BY <1>1, LookupAssumption DEF LookTypeOK
      <4>2. paid'[c] = 0
        BY <1>1, <2>2, <3>1 DEF StartAttempt, Answered, Return, LookTo
      <4>3. QED BY <4>1, <4>2 DEF Prepaid, queriesPerType
    <3>2. CASE ReserveSlot(c)
      BY <1>1, <3>2 DEF ReserveSlot, LookAt, askVars, PaidFor, Prepaid
    <3>3. CASE SlotTaken(c)
      BY <1>1, <2>2, <3>3 DEF SlotTaken, LookTo, Prepaid
    <3>4. CASE SlotRefused(c) \/ Dial(c) \/ ExtraTaken(c) \/ ExtraRefused(c) \/ Judge(c) \/ Backoff(c)
      BY <1>1, <2>2, <3>4
      DEF SlotRefused, Dial, ExtraTaken, ExtraRefused, Judge, Backoff, Return, LookTo, LookAt
    <3>5. QED BY <1>3, <3>1, <3>2, <3>3, <3>4 DEF LookStep
  <2>3. ASSUME lpc'[c] = "extra" PROVE dials'[c] > Prepaid(c)'
    <3>1. Dial(c) /\ BeyondPaid(c)
      BY <1>1, <1>3, <2>3
      DEF LookStep, StartAttempt, ReserveSlot, SlotTaken, SlotRefused, Dial, ExtraTaken, ExtraRefused,
          Answered, Judge, Backoff, Return, LookTo, LookAt
    <3>2. QED BY <1>1, <3>1 DEF Dial, BeyondPaid, Prepaid
  <2>4. QED BY <2>1, <2>2, <2>3 DEF PaidFor, Prepaid
<1>4. QED BY <1>2, <1>3 DEF LookNext

(* Credits that shrink leave the account in order. *)
LEMMA CreditsShrink ==
  ASSUME RateInv, LookTypeOK, LookTypeOK', SlotsOwn, Account, [RateNext]_rateVars,
         wire' = wire, \A d \in Client : Credit(d)' <= Credit(d)
  PROVE  Account'
<1>1. \A d \in Client : Credit(d) \in Nat
  BY CreditNat
<1>2. \A d \in Client : Credit(d)' \in Nat
  BY CreditNatPrimed
<1>3. Credits' \subseteq Credits
  BY <1>1, <1>2 DEF Credits
<1>4. IsFiniteSet(Credits') /\ Cardinality(Credits') <= Cardinality(Credits)
  BY <1>3, FS_Subset DEF Account
<1>5. Cardinality(Credits) \in Nat /\ Cardinality(Credits') \in Nat
  BY <1>4, FS_CardinalityType DEF Account
<1>6. Cardinality(Come) <= Cardinality(Come')
  BY ComeStays
<1>7. Cardinality(Come) \in Nat /\ Cardinality(Come') \in Nat
  BY ComeCounts
<1>8. wire \in Nat
  BY DEF LookTypeOK
<1>9. QED BY <1>4, <1>5, <1>6, <1>7, <1>8 DEF Account

(* What the other lookups have paid for, a lookup's step leaves alone. *)
LEMMA OthersPaid ==
  ASSUME LookTypeOK, NEW c \in Client, LookStep(c), NEW d \in Client, d # c
  PROVE  Credit(d)' = Credit(d)
<1>1. lpc'[d] = lpc[d] /\ paid'[d] = paid[d] /\ dials'[d] = dials[d] /\ type'[d] = type[d]
  BY DEF LookTypeOK, LookStep, StartAttempt, ReserveSlot, SlotTaken, SlotRefused, Dial, ExtraTaken,
         ExtraRefused, Answered, Judge, Backoff, Return, LookTo, askVars
<1>2. QED BY <1>1 DEF Credit, Prepaid

(* A slot taken is a query paid for. *)
LEMMA SlotTakenAccounts ==
  ASSUME RateInv, LookTypeOK, LookTypeOK', SlotsOwn, PaidFor, Account, NEW c \in Client, SlotTaken(c)
  PROVE  Account'
<1>1. Cardinality(Come') >= Cardinality(Come) + 1
  BY ServeAddsOne DEF SlotTaken
<1>2. /\ lpc[c] = "wait" /\ paid'[c] = paid[c] + 1 /\ dials'[c] = 0 /\ type' = type /\ wire' = wire
      /\ lpc'[c] = IF paid'[c] < Prepaid(c) THEN "reserve" ELSE "lookup"
  BY DEF SlotTaken, LookAt, LookTo, LookTypeOK
<1>3. Prepaid(c)' = Prepaid(c)
  BY <1>2 DEF Prepaid
<1>4. paid[c] \in Nat /\ Prepaid(c) \in 1..3 /\ paid[c] < Prepaid(c)
  BY <1>2, CreditNat DEF LookTypeOK, PaidFor
<1>5. Credit(c) = paid[c]
  BY <1>2 DEF Credit
<1>6. Credit(c)' = paid[c] + 1
  <2>1. CASE paid[c] + 1 < Prepaid(c)
    BY <1>2, <2>1 DEF Credit
  <2>2. CASE paid[c] + 1 = Prepaid(c)
    <3>1. lpc'[c] = "lookup" /\ dials'[c] <= Prepaid(c)'
      BY <1>2, <1>3, <1>4, <2>2
    <3>2. Credit(c)' = Prepaid(c)' - dials'[c]
      BY <3>1 DEF Credit
    <3>3. QED BY <1>2, <1>3, <1>4, <2>2, <3>2
  <2>3. QED BY <1>4, <2>1, <2>2
<1>7. \A d \in Client : d # c => Credit(d)' = Credit(d)
  BY OthersPaid DEF LookStep
<1>8. <<c, paid[c] + 1>> \notin Credits
  BY <1>4, <1>5 DEF Credits
<1>9. Credits' = Credits \cup {<<c, paid[c] + 1>>}
  <2>1. \A d \in Client, n \in 1..3 : <<d, n>> \in Credits' <=> n <= Credit(d)'
    BY DEF Credits
  <2>2. \A d \in Client, n \in 1..3 : <<d, n>> \in Credits <=> n <= Credit(d)
    BY DEF Credits
  <2>3. \A n \in 1..3 : n <= paid[c] + 1 <=> n <= paid[c] \/ n = paid[c] + 1
    BY <1>4
  <2>4. \A d \in Client, n \in 1..3 :
          <<d, n>> \in Credits' <=> <<d, n>> \in Credits \/ <<d, n>> = <<c, paid[c] + 1>>
    BY <1>5, <1>6, <1>7, <2>1, <2>2, <2>3
  <2>5. Credits \subseteq Client \X (1..3) /\ Credits' \subseteq Client \X (1..3)
    BY DEF Credits
  <2>6. paid[c] + 1 \in 1..3
    BY <1>4
  <2>7. \A p \in Client \X (1..3) : p \in Credits' <=> p \in Credits \/ p = <<c, paid[c] + 1>>
    <3>1. SUFFICES ASSUME NEW p \in Client \X (1..3)
                   PROVE  p \in Credits' <=> p \in Credits \/ p = <<c, paid[c] + 1>>
      OBVIOUS
    <3>2. PICK e \in Client, k \in 1..3 : p = <<e, k>>
      OBVIOUS
    <3>3. <<e, k>> \in Credits' <=> <<e, k>> \in Credits \/ <<e, k>> = <<c, paid[c] + 1>>
      BY <2>4
    <3>4. QED BY <3>2, <3>3
  <2>8. <<c, paid[c] + 1>> \in Client \X (1..3)
    BY <2>6
  <2>9. QED BY <2>5, <2>7, <2>8
<1>10. IsFiniteSet(Credits') /\ Cardinality(Credits') = Cardinality(Credits) + 1
  BY <1>8, <1>9, FS_AddElement DEF Account
<1>11. Cardinality(Credits) \in Nat /\ wire \in Nat
  BY FS_CardinalityType DEF Account, LookTypeOK
<1>12. Cardinality(Come) \in Nat /\ Cardinality(Come') \in Nat
  BY ComeCounts
<1>13. QED BY <1>1, <1>2, <1>10, <1>11, <1>12 DEF Account

(* A query within what is paid for spends it. *)
LEMMA PaidDialAccounts ==
  ASSUME RateInv, LookTypeOK, LookTypeOK', SlotsOwn, Account,
         NEW c \in Client, Dial(c), ~BeyondPaid(c)
  PROVE  Account'
<1>1. /\ lpc[c] = "lookup" /\ lpc' = lpc /\ dials'[c] = dials[c] + 1 /\ type' = type
      /\ wire' = wire + 1 /\ UNCHANGED rateVars /\ dials[c] + 1 <= Prepaid(c)
  <2>1. dials[c] \in Nat /\ Prepaid(c) \in 1..3
    BY CreditNat DEF LookTypeOK
  <2>2. QED BY <2>1 DEF Dial, LookAt, LookTypeOK, BeyondPaid
<1>2. Prepaid(c)' = Prepaid(c)
  BY <1>1 DEF Prepaid
<1>3. dials[c] \in Nat /\ Prepaid(c) \in 1..3
  BY CreditNat DEF LookTypeOK
<1> DEFINE n == Prepaid(c) - dials[c]
<1>4. n \in 1..3
  BY <1>1, <1>3
<1>5. Credit(c) = n
  BY <1>1, <1>3 DEF Credit
<1>6. Credit(c)' = n - 1
  <2>1. lpc'[c] = "lookup" /\ dials'[c] <= Prepaid(c)'
    BY <1>1, <1>2
  <2>2. Credit(c)' = Prepaid(c)' - dials'[c]
    BY <2>1 DEF Credit
  <2>3. QED BY <1>1, <1>2, <1>3, <2>2
<1>7. \A d \in Client : d # c => Credit(d)' = Credit(d)
  BY OthersPaid DEF LookStep
<1> HIDE DEF n
<1>8. <<c, n>> \in Credits
  BY <1>4, <1>5 DEF Credits
<1>9. Credits' = Credits \ {<<c, n>>}
  <2>1. \A d \in Client, k \in 1..3 : <<d, k>> \in Credits' <=> k <= Credit(d)'
    BY DEF Credits
  <2>2. \A d \in Client, k \in 1..3 : <<d, k>> \in Credits <=> k <= Credit(d)
    BY DEF Credits
  <2>3. \A k \in 1..3 : k <= n - 1 <=> k <= n /\ k # n
    BY <1>4
  <2>4. \A d \in Client, k \in 1..3 :
          <<d, k>> \in Credits' <=> <<d, k>> \in Credits /\ <<d, k>> # <<c, n>>
    BY <1>5, <1>6, <1>7, <2>1, <2>2, <2>3
  <2>5. Credits \subseteq Client \X (1..3) /\ Credits' \subseteq Client \X (1..3)
    BY DEF Credits
  <2>6. \A p \in Client \X (1..3) : p \in Credits' <=> p \in Credits /\ p # <<c, n>>
    <3>1. SUFFICES ASSUME NEW p \in Client \X (1..3)
                   PROVE  p \in Credits' <=> p \in Credits /\ p # <<c, n>>
      OBVIOUS
    <3>2. PICK e \in Client, k \in 1..3 : p = <<e, k>>
      OBVIOUS
    <3>3. <<e, k>> \in Credits' <=> <<e, k>> \in Credits /\ <<e, k>> # <<c, n>>
      BY <2>4
    <3>4. QED BY <3>2, <3>3
  <2>7. QED BY <2>5, <2>6
<1>10. IsFiniteSet(Credits') /\ Cardinality(Credits') = Cardinality(Credits) - 1
  BY <1>8, <1>9, FS_RemoveElement DEF Account
<1>11. Cardinality(Credits) \in Nat /\ wire \in Nat
  BY FS_CardinalityType DEF Account, LookTypeOK
<1>12. Cardinality(Come) \in Nat /\ Come' = Come
  BY <1>1, ComeCounts DEF rateVars, Come
<1>13. QED BY <1>1, <1>10, <1>11, <1>12 DEF Account

(* A query beyond it goes out on a slot of its own. *)
LEMMA ExtraTakenAccounts ==
  ASSUME RateInv, LookTypeOK, LookTypeOK', SlotsOwn, PaidFor, Account, NEW c \in Client, ExtraTaken(c)
  PROVE  Account'
<1>1. Cardinality(Come') >= Cardinality(Come) + 1
  BY ServeAddsOne DEF ExtraTaken
<1>2. /\ lpc[c] = "extra" /\ lpc'[c] = "lookup" /\ dials' = dials /\ type' = type
      /\ wire' = wire + 1 /\ dials[c] > Prepaid(c)
  BY DEF ExtraTaken, LookAt, LookTo, LookTypeOK, askVars, PaidFor
<1>3. Prepaid(c)' = Prepaid(c) /\ Prepaid(c) \in 1..3 /\ dials[c] \in Nat
  BY <1>2, CreditNat DEF Prepaid, LookTypeOK
<1>4. Credit(c)' = Credit(c)
  <2>1. Credit(c) = 0
    BY <1>2 DEF Credit
  <2>2. ~(dials'[c] <= Prepaid(c)')
    BY <1>2, <1>3
  <2>3. Credit(c)' = 0
    BY <1>2, <2>2 DEF Credit
  <2>4. QED BY <2>1, <2>3
<1>5. \A d \in Client : Credit(d)' = Credit(d)
  BY <1>4, OthersPaid DEF LookStep
<1>6. Credits' = Credits
  BY <1>5 DEF Credits
<1>7. Cardinality(Credits) \in Nat /\ wire \in Nat
  BY FS_CardinalityType DEF Account, LookTypeOK
<1>8. Cardinality(Come) \in Nat /\ Cardinality(Come') \in Nat
  BY ComeCounts
<1>9. QED BY <1>1, <1>2, <1>6, <1>7, <1>8 DEF Account

(* No other step sends a query or pays for one. *)
LEMMA OtherStepsAccount ==
  ASSUME RateInv, LookTypeOK, LookTypeOK', SlotsOwn, PaidFor, Account, NEW c \in Client,
         \/ StartAttempt(c) \/ ReserveSlot(c) \/ SlotRefused(c) \/ (Dial(c) /\ BeyondPaid(c))
         \/ ExtraRefused(c) \/ Answered(c) \/ Judge(c) \/ Backoff(c)
  PROVE  Account'
<1>1. wire' = wire
  BY DEF StartAttempt, ReserveSlot, SlotRefused, Dial, ExtraRefused, Answered, Judge, Backoff
<1>2. /\ Credit(c) \in Nat /\ Prepaid(c) \in 1..3 /\ dials[c] \in Nat /\ paid[c] \in Nat
      /\ lpc \in [Client -> LookPlaces]
  BY CreditNat DEF LookTypeOK
<1>3. Credit(c)' <= Credit(c)
  <2>1. CASE StartAttempt(c) \/ SlotRefused(c) \/ Judge(c) \/ Backoff(c) \/ (Dial(c) /\ BeyondPaid(c))
    <3>1. Credit(c)' = 0
      <4>1. CASE StartAttempt(c)
        <5>1. lpc'[c] = "over" \/ (lpc'[c] = "reserve" /\ paid'[c] = 0)
          <6>1. paid \in [Client -> Nat]
            BY DEF LookTypeOK
          <6>2. QED BY <1>2, <4>1, <6>1 DEF StartAttempt, Return, LookTo
        <5>2. QED BY <5>1 DEF Credit
      <4>2. CASE SlotRefused(c) \/ Judge(c) \/ Backoff(c) \/ (Dial(c) /\ BeyondPaid(c))
        <5>1. lpc'[c] \in {"judge", "over", "backoff", "attempt", "extra"}
          BY <1>2, <4>2 DEF SlotRefused, Judge, Backoff, Dial, Return, LookTo
        <5>2. QED BY <5>1 DEF Credit
      <4>3. QED BY <2>1, <4>1, <4>2
    <3>2. QED BY <1>2, <3>1
  <2>2. CASE ReserveSlot(c)
    <3>1. lpc[c] = "reserve" /\ lpc'[c] = "wait" /\ paid' = paid
      BY <1>2, <2>2 DEF ReserveSlot, LookAt, LookTo, askVars
    <3>2. Credit(c)' = Credit(c)
      BY <3>1 DEF Credit
    <3>3. QED BY <1>2, <3>2
  <2>3. CASE ExtraRefused(c)
    <3>1. /\ lpc[c] = "extra" /\ lpc'[c] = "lookup" /\ dials' = dials /\ type' = type
          /\ dials[c] > Prepaid(c)
      BY <1>2, <2>3 DEF ExtraRefused, LookAt, LookTo, askVars, PaidFor
    <3>2. ~(dials'[c] <= Prepaid(c)')
      BY <1>2, <3>1 DEF Prepaid
    <3>3. Credit(c)' = 0
      BY <3>1, <3>2 DEF Credit
    <3>4. QED BY <1>2, <3>3
  <2>4. CASE Answered(c)
    <3>1. paid'[c] = 0 /\ lpc'[c] \in {"reserve", "judge"}
      BY <1>2, <2>4 DEF Answered, LookTo, LookTypeOK
    <3>2. Credit(c)' = 0
      BY <3>1 DEF Credit
    <3>3. QED BY <1>2, <3>2
  <2>5. QED BY <2>1, <2>2, <2>3, <2>4
<1>4. LookStep(c)
  <2>1. CASE Dial(c)
    BY <2>1 DEF LookStep
  <2>2. CASE ~Dial(c)
    BY <2>2 DEF LookStep
  <2>3. QED BY <2>1, <2>2
<1>5. \A d \in Client : Credit(d)' <= Credit(d)
  <2>1. ASSUME NEW d \in Client PROVE Credit(d)' <= Credit(d)
    <3>1. CASE d = c
      BY <1>3, <3>1
    <3>2. CASE d # c
      BY <1>4, <3>2, OthersPaid, CreditNat
    <3>3. QED BY <3>1, <3>2
  <2>2. QED BY <2>1
<1>6. [RateNext]_rateVars
  BY <1>4, LookupsStep DEF LookNext
<1>7. QED BY <1>1, <1>5, <1>6, CreditsShrink

LEMMA WireInvStep ==
  ASSUME WireInv, [LookNext]_lookVars
  PROVE  WireInv'
<1>1. RateInv /\ LookTypeOK /\ SlotsOwn /\ PaidFor /\ Account
  BY DEF WireInv
<1>2. [RateNext]_rateVars
  BY LookupsStep
<1>3. RateInv' /\ LookTypeOK' /\ SlotsOwn' /\ PaidFor'
  BY <1>1, <1>2, RateInvStep, LookTypeStep, SlotsOwnStep, PaidForStep
<1>4. CASE UNCHANGED lookVars \/ TimePasses \/ CancelLookups
  <2>1. UNCHANGED <<lpc, askVars, wire>>
    BY <1>4 DEF lookVars, TimePasses, CancelLookups
  <2>2. \A d \in Client : Credit(d)' = Credit(d)
    BY <2>1 DEF askVars, Credit, Prepaid
  <2>3. \A d \in Client : Credit(d)' <= Credit(d)
    BY <1>1, <2>2, CreditNat
  <2>4. wire' = wire
    BY <2>1
  <2>5. QED BY <1>1, <1>2, <1>3, <2>3, <2>4, CreditsShrink DEF WireInv
<1>5. ASSUME NEW c \in Client, LookStep(c) PROVE Account'
  <2>1. CASE SlotTaken(c)
    BY <1>1, <1>3, <2>1, SlotTakenAccounts
  <2>2. CASE Dial(c)
    <3>1. CASE BeyondPaid(c)
      BY <1>1, <1>3, <2>2, <3>1, OtherStepsAccount
    <3>2. CASE ~BeyondPaid(c)
      BY <1>1, <1>3, <2>2, <3>2, PaidDialAccounts
    <3>3. QED BY <3>1, <3>2
  <2>3. CASE ExtraTaken(c)
    BY <1>1, <1>3, <2>3, ExtraTakenAccounts
  <2>4. CASE \/ StartAttempt(c) \/ ReserveSlot(c) \/ SlotRefused(c)
             \/ ExtraRefused(c) \/ Answered(c) \/ Judge(c) \/ Backoff(c)
    BY <1>1, <1>3, <2>4, OtherStepsAccount
  <2>5. QED BY <1>5, <2>1, <2>2, <2>3, <2>4 DEF LookStep
<1>6. QED BY <1>3, <1>4, <1>5 DEF LookNext, WireInv

LEMMA WireInvInit ==
  ASSUME LookInit
  PROVE  WireInv
<1>1. /\ now = 0 /\ free = 0 /\ handed = <<>> /\ slot = [c \in Client |-> NoSlot] /\ wire = 0
      /\ lpc = [c \in Client |-> "attempt"] /\ type = [c \in Client |-> 1]
      /\ paid = [c \in Client |-> 0] /\ dials = [c \in Client |-> 0]
  BY DEF LookInit, RateInit
<1>2. RateInv
  BY <1>1 DEF RateInv, RateTypeOK, BehindFree, SlotsSpaced, NoSlot
<1>3. LookTypeOK
  BY <1>1, LookupAssumption DEF LookTypeOK, NoSlot, LookPlaces
<1>4. SlotsOwn /\ PaidFor
  BY <1>1 DEF SlotsOwn, PaidFor, NoSlot
<1>5. Account
  <2>1. \A c \in Client : Credit(c) = 0
    BY <1>1 DEF Credit
  <2>2. Credits = {}
    BY <2>1 DEF Credits
  <2>3. Come = {}
    BY <1>1 DEF Come
  <2>4. QED BY <1>1, <2>2, <2>3, FS_EmptySet DEF Account
<1>6. QED BY <1>2, <1>3, <1>4, <1>5 DEF WireInv

(* The rate holds of the queries on the wire, of any number of lookups, with   *)
(* whatever Go sends beyond what they reserved and whoever gives up: none goes *)
(* out that a slot whose time has come has not paid for.                       *)
THEOREM PaceIsHeld == LookSpec => []PaceHeld
<1>1. LookInit => WireInv
  BY WireInvInit
<1>2. WireInv /\ [LookNext]_lookVars => WireInv'
  BY WireInvStep
<1>3. WireInv => PaceHeld
  <2>1. SUFFICES ASSUME WireInv PROVE PaceHeld
    OBVIOUS
  <2>2. LookTypeOK /\ Account
    BY <2>1 DEF WireInv
  <2> DEFINE Due == {k \in DOMAIN handed : handed[k] <= now}
  <2>3. /\ handed \in Seq(Nat) /\ Due \in SUBSET DOMAIN handed
        /\ Come \in SUBSET DOMAIN handed /\ Come \subseteq Due
    BY <2>2 DEF LookTypeOK, Come
  <2> HIDE DEF Due
  <2>4. IsFiniteSet(Due) /\ Cardinality(Due) \in Nat /\ Cardinality(Come) \in Nat
    BY <2>3, SomeSlots
  <2>5. Cardinality(Come) <= Cardinality(Due)
    BY <2>3, <2>4, FS_Subset
  <2>6. Cardinality(Credits) \in Nat /\ wire \in Nat /\ wire + Cardinality(Credits) <= Cardinality(Come)
    BY <2>2, FS_CardinalityType DEF Account, LookTypeOK
  <2>7. wire <= Cardinality(Due)
    BY <2>4, <2>5, <2>6
  <2>8. QED BY <2>7 DEF Due, PaceHeld
<1>4. QED BY <1>1, <1>2, <1>3, PTL DEF LookSpec

-----------------------------------------------------------------------------
(***************************************************************************)
(* What a reply means.  Behind it stand the answers of its attempt: there  *)
(* is one of them for every type asked so far, unless a cancel cut them    *)
(* short, and then the last one says so.                                   *)
(***************************************************************************)
Answer == {"records", "nodata", "nxdomain", "failed", "canceled"}
Outcome == {"none", "found", "nxdomain", "failed", "canceled"}
CutShort == {<<"canceled">>, <<"records", "canceled">>}

ReplyTypeOK ==
  /\ LookTypeOK /\ attempt \in [Client -> Int] /\ reply \in [Client -> Outcome]
  /\ answers \in [Client -> Seq(Answer)] /\ lookCtx \in BOOLEAN

Kept(c) ==
  /\ Contains(answers[c], "canceled") => lookCtx
  /\ lpc[c] \in {"reserve", "wait", "lookup", "extra"} => Len(answers[c]) = type[c] - 1
  /\ lpc[c] = "judge" => Len(answers[c]) = Len(Types) \/ answers[c] \in CutShort
  /\ lpc[c] # "over" => reply[c] = "none"

Earned(c) ==
  /\ reply[c] = "found" => Contains(answers[c], "records")
  /\ reply[c] = "nxdomain" =>
       Len(answers[c]) = Len(Types) /\ ToSet(answers[c]) \subseteq {"nxdomain", "nodata"}
  /\ reply[c] = "failed" => attempt[c] = Attempts
  /\ reply[c] = "canceled" => lookCtx

ReplyInv == ReplyTypeOK /\ \A c \in Client : Kept(c) /\ Earned(c)

(* A set of numbers that is not empty has a least one. *)
LEMMA LeastHit ==
  ASSUME NEW T, T \subseteq Nat, T # {}
  PROVE  Min(T) \in T
<1>1. IsWellFoundedOn(OpToRel(<, Nat), Nat)
  BY NatLessThanWellFounded
<1>2. PICK x \in T : \A y \in T : ~(<<y, x>> \in OpToRel(<, Nat))
  BY <1>1, WFMin
<1>3. \A y \in T : ~(y < x)
  BY <1>2 DEF OpToRel
<1>4. \A y \in T : x <= y
  BY <1>3
<1>5. QED BY <1>4 DEF Min

(* The outcome of an attempt is the first of its failures; a negative if it    *)
(* has none.                                                                   *)
LEMMA OutcomeOfAttempt ==
  ASSUME ReplyTypeOK, NEW c \in Client
  PROVE  \/ /\ LastOutcome(c) = "nxdomain"
            /\ ~Contains(answers[c], "failed") /\ ~Contains(answers[c], "canceled")
         \/ LastOutcome(c) = "failed"
         \/ LastOutcome(c) = "canceled" /\ Contains(answers[c], "canceled")
<1>1. answers[c] \in Seq(Answer)
  BY DEF ReplyTypeOK
<1>2. DOMAIN answers[c] = 1..Len(answers[c]) /\ Len(answers[c]) \in Nat
  BY <1>1
<1> DEFINE hits == {k \in DOMAIN answers[c] : answers[c][k] \in {"failed", "canceled"}}
<1>3. LastOutcome(c) = IF hits = {} THEN "nxdomain" ELSE answers[c][Min(hits)]
  BY DEF LastOutcome, FirstOf
<1>4. CASE hits = {}
  <2>1. ~Contains(answers[c], "failed") /\ ~Contains(answers[c], "canceled")
    BY <1>2, <1>4 DEF Contains
  <2>2. QED BY <1>3, <1>4, <2>1
<1>5. CASE hits # {}
  <2>1. hits \subseteq Nat
    BY <1>2
  <2> HIDE DEF hits
  <2>2. Min(hits) \in hits
    BY <1>5, <2>1, LeastHit
  <2>3. Min(hits) \in 1..Len(answers[c]) /\ answers[c][Min(hits)] \in {"failed", "canceled"}
    BY <1>2, <2>2 DEF hits
  <2>4. LastOutcome(c) = answers[c][Min(hits)]
    BY <1>3, <1>5
  <2>5. QED BY <2>3, <2>4 DEF Contains
<1>6. QED BY <1>4, <1>5

LEMMA ReplyTypeStep ==
  ASSUME ReplyTypeOK, [LookNext]_lookVars
  PROVE  ReplyTypeOK'
<1>1. LookTypeOK'
  BY LookTypeStep DEF ReplyTypeOK
<1>2. /\ attempt \in [Client -> Int] /\ reply \in [Client -> Outcome]
      /\ answers \in [Client -> Seq(Answer)] /\ lookCtx \in BOOLEAN
  BY DEF ReplyTypeOK
<1>3. CASE UNCHANGED lookVars \/ TimePasses \/ CancelLookups
  <2>1. UNCHANGED askVars /\ (lookCtx' = lookCtx \/ lookCtx' = TRUE)
    BY <1>3 DEF lookVars, TimePasses, CancelLookups
  <2>2. QED BY <1>1, <1>2, <2>1 DEF askVars, ReplyTypeOK
<1>4. ASSUME NEW c \in Client, LookStep(c) PROVE ReplyTypeOK'
  <2>1. lookCtx' = lookCtx
    BY <1>4
    DEF LookStep, StartAttempt, ReserveSlot, SlotTaken, SlotRefused, Dial, ExtraTaken, ExtraRefused,
        Answered, Judge, Backoff
  <2>2. attempt' \in [Client -> Int]
    <3>1. attempt' = attempt \/ attempt' = [attempt EXCEPT ![c] = @ + 1]
      BY <1>4
      DEF LookStep, StartAttempt, ReserveSlot, SlotTaken, SlotRefused, Dial, ExtraTaken, ExtraRefused,
          Answered, Judge, Backoff, askVars
    <3>2. QED BY <1>2, <3>1
  <2>3. answers' \in [Client -> Seq(Answer)]
    <3>1. \/ answers' = answers
          \/ \E s \in CutShort \cup {<<>>} : answers' = [answers EXCEPT ![c] = s]
          \/ \E a \in Answer : answers' = [answers EXCEPT ![c] = Append(@, a)]
      <4>1. CASE StartAttempt(c) \/ SlotRefused(c) \/ Answered(c)
        BY <4>1 DEF StartAttempt, SlotRefused, Answered, CutShort, Answer
      <4>2. CASE ~(StartAttempt(c) \/ SlotRefused(c) \/ Answered(c))
        BY <1>4, <4>2
        DEF LookStep, ReserveSlot, SlotTaken, Dial, ExtraTaken, ExtraRefused, Judge, Backoff, askVars
      <4>3. QED BY <4>1, <4>2
    <3>2. CutShort \cup {<<>>} \subseteq Seq(Answer)
      BY DEF CutShort, Answer
    <3>3. \A a \in Answer : Append(answers[c], a) \in Seq(Answer)
      BY <1>2
    <3>4. QED BY <1>2, <3>1, <3>2, <3>3
  <2>4. reply' \in [Client -> Outcome]
    <3>1. reply' = reply \/ \E o \in Outcome : reply' = [reply EXCEPT ![c] = o]
      <4>1. CASE StartAttempt(c) \/ Backoff(c)
        BY <4>1 DEF StartAttempt, Backoff, Return, Outcome
      <4>2. CASE Judge(c)
        BY <1>2, <4>2, OutcomeOfAttempt DEF Judge, Return, Outcome
      <4>3. CASE ~(StartAttempt(c) \/ Backoff(c) \/ Judge(c))
        BY <1>4, <4>3
        DEF LookStep, ReserveSlot, SlotTaken, SlotRefused, Dial, ExtraTaken, ExtraRefused, Answered,
            askVars
      <4>4. QED BY <4>1, <4>2, <4>3
    <3>2. QED BY <1>2, <3>1
  <2>5. QED BY <1>1, <1>2, <2>1, <2>2, <2>3, <2>4 DEF ReplyTypeOK
<1>5. QED BY <1>3, <1>4 DEF LookNext

(* The step of one lookup leaves what the others have alone. *)
LEMMA OthersReply ==
  ASSUME ReplyTypeOK, NEW c \in Client, LookStep(c), NEW d \in Client, d # c, Kept(d), Earned(d)
  PROVE  Kept(d)' /\ Earned(d)'
<1>1. /\ lpc'[d] = lpc[d] /\ type'[d] = type[d]
      /\ attempt'[d] = attempt[d] /\ answers'[d] = answers[d] /\ reply'[d] = reply[d]
      /\ lookCtx' = lookCtx
  BY DEF ReplyTypeOK, LookTypeOK, LookStep, StartAttempt, ReserveSlot, SlotTaken, SlotRefused, Dial,
         ExtraTaken, ExtraRefused, Answered, Judge, Backoff, Return, LookTo, askVars
<1>2. QED BY <1>1 DEF Kept, Earned

(* Under way a lookup has no reply yet: its answers are what its step must     *)
(* account for.                                                                *)
LEMMA UnderWay ==
  ASSUME ReplyTypeOK, NEW c \in Client, Kept(c), Earned(c),
         ReserveSlot(c) \/ SlotTaken(c) \/ Dial(c) \/ ExtraTaken(c) \/ ExtraRefused(c)
  PROVE  Kept(c)' /\ Earned(c)'
<1>1. /\ lpc[c] \in {"reserve", "wait", "lookup", "extra"}
      /\ lpc'[c] \in {"reserve", "wait", "lookup", "extra"}
  BY DEF ReplyTypeOK, LookTypeOK, ReserveSlot, SlotTaken, Dial, ExtraTaken, ExtraRefused, LookTo, LookAt
<1>2. /\ type' = type /\ attempt' = attempt /\ answers' = answers /\ reply' = reply /\ lookCtx' = lookCtx
  BY DEF ReserveSlot, SlotTaken, Dial, ExtraTaken, ExtraRefused, askVars
<1>3. QED BY <1>1, <1>2 DEF Kept, Earned

LEMMA AnswerKept ==
  ASSUME ReplyTypeOK, NEW c \in Client, Kept(c), Earned(c), Answered(c)
  PROVE  Kept(c)' /\ Earned(c)'
<1>1. /\ lpc[c] = "lookup" /\ reply'[c] = "none" /\ Len(answers[c]) = type[c] - 1
      /\ type[c] \in 1..Len(Types) /\ answers[c] \in Seq(Answer) /\ lookCtx' = lookCtx
  BY DEF Answered, LookAt, Kept, ReplyTypeOK, LookTypeOK
<1>2. PICK a \in Answer : /\ a = "canceled" => lookCtx
                          /\ answers' = [answers EXCEPT ![c] = Append(@, a)]
  BY DEF Answered, Answer
<1>3. answers'[c] = Append(answers[c], a)
  BY <1>2 DEF ReplyTypeOK
<1>4. Len(answers'[c]) = Len(answers[c]) + 1
  BY <1>1, <1>3
<1>5. Contains(answers'[c], "canceled") => lookCtx
  <2>1. SUFFICES ASSUME NEW i \in 1..Len(answers'[c]), answers'[c][i] = "canceled" PROVE lookCtx
    BY DEF Contains
  <2>2. CASE i = Len(answers[c]) + 1
    BY <1>1, <1>2, <1>3, <2>1, <2>2
  <2>3. CASE i # Len(answers[c]) + 1
    <3>1. i \in 1..Len(answers[c]) /\ answers[c][i] = "canceled"
      BY <1>1, <1>3, <1>4, <2>1, <2>3
    <3>2. QED BY <3>1 DEF Kept, Contains
  <2>4. QED BY <2>2, <2>3
<1>6. CASE type[c] < Len(Types)
  <2>1. lpc'[c] = "reserve" /\ type'[c] = type[c] + 1
    BY <1>6 DEF Answered, LookTo, ReplyTypeOK, LookTypeOK
  <2>2. Len(answers'[c]) = type'[c] - 1
    BY <1>1, <1>4, <2>1
  <2>3. QED BY <1>1, <1>5, <2>1, <2>2 DEF Kept, Earned
<1>7. CASE ~(type[c] < Len(Types))
  <2>1. lpc'[c] = "judge" /\ type[c] = Len(Types)
    BY <1>1, <1>7, LookupAssumption DEF Answered, LookTo, ReplyTypeOK, LookTypeOK
  <2>2. Len(answers'[c]) = Len(Types)
    BY <1>1, <1>4, <2>1
  <2>3. QED BY <1>1, <1>5, <2>1, <2>2 DEF Kept, Earned
<1>8. QED BY <1>6, <1>7

(* An attempt starts without answers; a refused slot leaves the cancel last.   *)
LEMMA EndsKept ==
  ASSUME ReplyTypeOK, NEW c \in Client, Kept(c), Earned(c),
         StartAttempt(c) \/ SlotRefused(c) \/ Backoff(c)
  PROVE  Kept(c)' /\ Earned(c)'
<1>1. /\ lpc \in [Client -> LookPlaces] /\ type \in [Client -> 1..Len(Types)]
      /\ reply \in [Client -> Outcome] /\ answers \in [Client -> Seq(Answer)]
      /\ reply[c] = "none"
  BY DEF ReplyTypeOK, LookTypeOK, StartAttempt, SlotRefused, Backoff, LookAt, Kept
<1>2. lookCtx' = lookCtx
  BY DEF StartAttempt, SlotRefused, Backoff
<1>3. CASE StartAttempt(c) /\ ~lookCtx
  <2>1. lpc'[c] = "reserve" /\ type'[c] = 1 /\ answers'[c] = <<>> /\ reply'[c] = "none"
    BY <1>1, <1>3 DEF StartAttempt, LookTo
  <2>2. Len(answers'[c]) = type'[c] - 1 /\ ~Contains(answers'[c], "canceled")
    BY <2>1 DEF Contains
  <2>3. QED BY <2>1, <2>2 DEF Kept, Earned
<1>4. CASE SlotRefused(c)
  <2>1. lookCtx /\ lpc'[c] = "judge" /\ answers'[c] \in CutShort /\ reply'[c] = "none"
    BY <1>1, <1>4 DEF SlotRefused, LookTo, CutShort
  <2>2. QED BY <1>2, <2>1 DEF Kept, Earned
<1>5. CASE (StartAttempt(c) /\ lookCtx) \/ Backoff(c)
  <2>1. answers' = answers
    BY <1>5 DEF StartAttempt, Backoff
  <2>2. \/ lookCtx /\ lpc'[c] = "over" /\ reply'[c] = "canceled"
        \/ lpc'[c] = "attempt" /\ reply'[c] = "none"
    BY <1>1, <1>5 DEF StartAttempt, Backoff, Return, LookTo
  <2>3. QED BY <1>2, <2>1, <2>2 DEF Kept, Earned
<1>6. QED BY <1>3, <1>4, <1>5

(* The judgement: a negative is what is left when no answer is a record, a     *)
(* failure or a cancel, and then no type went unasked.                         *)
LEMMA JudgedTruly ==
  ASSUME ReplyTypeOK, NEW c \in Client, Kept(c), Earned(c), Judge(c)
  PROVE  Kept(c)' /\ Earned(c)'
<1>1. /\ lpc[c] = "judge" /\ reply[c] = "none" /\ answers[c] \in Seq(Answer)
      /\ lpc \in [Client -> LookPlaces] /\ reply \in [Client -> Outcome]
      /\ UNCHANGED <<type, attempt, answers, lookCtx>>
      /\ Len(answers[c]) = Len(Types) \/ answers[c] \in CutShort
      /\ Contains(answers[c], "canceled") => lookCtx
  BY DEF Judge, LookAt, Kept, ReplyTypeOK, LookTypeOK
<1>2. CASE Contains(answers[c], "records")
  <2>1. lpc'[c] = "over" /\ reply'[c] = "found"
    BY <1>1, <1>2 DEF Judge, Return, LookTo
  <2>2. QED BY <1>1, <1>2, <2>1 DEF Kept, Earned
<1>3. CASE ~Contains(answers[c], "records") /\ (LastOutcome(c) # "failed" \/ attempt[c] = Attempts)
  <2>1. lpc'[c] = "over" /\ reply'[c] = LastOutcome(c)
    BY <1>1, <1>3 DEF Judge, Return, LookTo
  <2>2. CASE LastOutcome(c) = "failed"
    BY <1>1, <1>3, <2>1, <2>2 DEF Kept, Earned
  <2>3. CASE LastOutcome(c) = "canceled" /\ Contains(answers[c], "canceled")
    BY <1>1, <2>1, <2>3 DEF Kept, Earned
  <2>4. CASE /\ LastOutcome(c) = "nxdomain"
             /\ ~Contains(answers[c], "failed") /\ ~Contains(answers[c], "canceled")
    <3>1. answers[c] \notin CutShort
      <4>1. Contains(<<"canceled">>, "canceled") /\ Contains(<<"records", "canceled">>, "canceled")
        <5>1. 1 \in 1..Len(<<"canceled">>) /\ <<"canceled">>[1] = "canceled"
          OBVIOUS
        <5>2. 2 \in 1..Len(<<"records", "canceled">>) /\ <<"records", "canceled">>[2] = "canceled"
          OBVIOUS
        <5>3. QED BY <5>1, <5>2 DEF Contains
      <4>2. QED BY <2>4, <4>1 DEF CutShort
    <3>2. Len(answers[c]) = Len(Types)
      BY <1>1, <3>1
    <3>3. ToSet(answers[c]) \subseteq {"nxdomain", "nodata"}
      <4>1. SUFFICES ASSUME NEW i \in DOMAIN answers[c] PROVE answers[c][i] \in {"nxdomain", "nodata"}
        BY DEF ToSet
      <4>2. i \in 1..Len(answers[c]) /\ answers[c][i] \in Answer
        BY <1>1, <4>1
      <4>3. QED BY <1>3, <2>4, <4>2 DEF Contains, Answer
    <3>4. QED BY <1>1, <2>1, <2>4, <3>2, <3>3 DEF Kept, Earned
  <2>5. QED BY <2>2, <2>3, <2>4, OutcomeOfAttempt
<1>4. CASE ~Contains(answers[c], "records") /\ ~(LastOutcome(c) # "failed" \/ attempt[c] = Attempts)
  <2>1. lpc'[c] = "backoff" /\ reply'[c] = "none"
    BY <1>1, <1>4 DEF Judge, LookTo
  <2>2. QED BY <1>1, <2>1 DEF Kept, Earned
<1>5. QED BY <1>2, <1>3, <1>4

LEMMA ReplyInvStep ==
  ASSUME ReplyInv, [LookNext]_lookVars
  PROVE  ReplyInv'
<1>1. ReplyTypeOK /\ ReplyTypeOK'
  BY ReplyTypeStep DEF ReplyInv
<1>2. CASE UNCHANGED lookVars \/ TimePasses \/ CancelLookups
  <2>1. UNCHANGED <<lpc, askVars>> /\ (lookCtx => lookCtx')
    BY <1>2 DEF lookVars, TimePasses, CancelLookups
  <2>2. ASSUME NEW d \in Client PROVE Kept(d)' /\ Earned(d)'
    <3>1. Kept(d) /\ Earned(d)
      BY DEF ReplyInv
    <3>2. QED BY <2>1, <3>1 DEF askVars, Kept, Earned
  <2>3. QED BY <1>1, <2>2 DEF ReplyInv
<1>3. ASSUME NEW c \in Client, LookStep(c), NEW d \in Client PROVE Kept(d)' /\ Earned(d)'
  <2>1. Kept(d) /\ Earned(d) /\ Kept(c) /\ Earned(c)
    BY DEF ReplyInv
  <2>2. CASE d # c
    BY <1>1, <1>3, <2>1, <2>2, OthersReply
  <2>3. CASE d = c
    <3>1. CASE ReserveSlot(c) \/ SlotTaken(c) \/ Dial(c) \/ ExtraTaken(c) \/ ExtraRefused(c)
      BY <1>1, <2>1, <2>3, <3>1, UnderWay
    <3>2. CASE Answered(c)
      BY <1>1, <2>1, <2>3, <3>2, AnswerKept
    <3>3. CASE StartAttempt(c) \/ SlotRefused(c) \/ Backoff(c)
      BY <1>1, <2>1, <2>3, <3>3, EndsKept
    <3>4. CASE Judge(c)
      BY <1>1, <2>1, <2>3, <3>4, JudgedTruly
    <3>5. QED BY <1>3, <3>1, <3>2, <3>3, <3>4 DEF LookStep
  <2>4. QED BY <2>2, <2>3
<1>4. QED BY <1>1, <1>2, <1>3 DEF LookNext, ReplyInv

(* A reply means what the scan takes it for: a negative is every type's, in    *)
(* one attempt; a failure is the last attempt's; a cancellation is the         *)
(* context's.                                                                  *)
THEOREM RepliesEarned == LookSpec => []ReplyEarned
<1>1. LookInit => ReplyInv
  <2>1. SUFFICES ASSUME LookInit PROVE ReplyInv
    OBVIOUS
  <2>2. /\ lpc = [c \in Client |-> "attempt"] /\ attempt = [c \in Client |-> 1]
        /\ answers = [c \in Client |-> <<>>] /\ reply = [c \in Client |-> "none"] /\ lookCtx = FALSE
    BY <2>1 DEF LookInit
  <2>3. LookTypeOK
    BY <2>1, WireInvInit DEF WireInv
  <2>4. ReplyTypeOK
    <3>1. <<>> \in Seq(Answer) /\ "none" \in Outcome /\ 1 \in Int
      BY DEF Outcome
    <3>2. QED BY <2>2, <2>3, <3>1 DEF ReplyTypeOK
  <2>5. ASSUME NEW c \in Client PROVE Kept(c) /\ Earned(c)
    <3>1. lpc[c] = "attempt" /\ reply[c] = "none" /\ answers[c] = <<>>
      BY <2>2
    <3>2. ~Contains(answers[c], "canceled")
      BY <3>1 DEF Contains
    <3>3. QED BY <3>1, <3>2 DEF Kept, Earned
  <2>6. QED BY <2>4, <2>5 DEF ReplyInv
<1>2. ReplyInv /\ [LookNext]_lookVars => ReplyInv'
  BY ReplyInvStep
<1>3. ReplyInv => ReplyEarned
  BY DEF ReplyInv, Earned, ReplyEarned
<1>4. QED BY <1>1, <1>2, <1>3, PTL DEF LookSpec
=============================================================================
