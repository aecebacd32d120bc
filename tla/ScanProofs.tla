----------------------------- MODULE ScanProofs -----------------------------
(* Proofs of what ScanProps states of the scan engine. *)
EXTENDS ScanProps, FiniteSetTheorems, TLAPS

LEMMA ConstantTypes ==
  /\ N \in Nat /\ Start \in 0..N
  /\ \A i \in 0..(N - 1) : \A p \in Name : Child(i, p) \in Name
  /\ ResumeExpansions \in Seq(Expansion)
<1>1. N \in Nat /\ Start \in 0..N
  BY ScanAssumption DEF ScanAssumption, N, Start
<1>2. ASSUME NEW i \in 0..(N - 1), NEW p \in Name
      PROVE  Child(i, p) \in Name
  <2>1. Entries[i + 1] \in Seq(Label)
    BY ScanAssumption DEF ScanAssumption, N, Name
  <2> QED BY <2>1 DEF Child, Name
<1>3. ResumeExpansions \in Seq(Expansion)
  <2>1. ASSUME NEW i \in DOMAIN ResumeParents
        PROVE  [parent |-> ResumeParents[i], depth |-> Len(ResumeParents[i]) + 1,
                next |-> IF Expandable(ResumeParents[i]) THEN 0 ELSE N] \in Expansion
    BY <1>1, ScanAssumption DEF ScanAssumption, Expansion, Name
  <2>2. DOMAIN ResumeParents = 1..Len(ResumeParents) /\ Len(ResumeParents) \in Nat
    BY ScanAssumption DEF ScanAssumption
  <2> QED BY <2>1, <2>2 DEF ResumeExpansions
<1> QED BY <1>1, <1>2, <1>3

LEMMA CandidateType ==
  ASSUME TypeOK, HasCandidate
  PROVE  /\ Candidate \in Name
         /\ Cursor \in 0..(N - 1)
         /\ frontier[1] \in Expansion
         /\ RootIndex \in -1..(N - 1)
<1>1. frontier[1] \in Expansion
  BY DEF TypeOK, QueueType, HasCandidate
<1>2. Cursor \in 0..(N - 1) /\ frontier[1].parent \in Name
  BY <1>1, ConstantTypes DEF Cursor, Expansion, HasCandidate
<1>3. Candidate \in Name
  BY <1>2, ConstantTypes DEF Candidate
<1>4. RootIndex \in -1..(N - 1)
  BY <1>2, ConstantTypes DEF RootIndex
<1> QED BY <1>1, <1>2, <1>3, <1>4

LEMMA TakeType ==
  ASSUME TypeOK, HasCandidate, Take
  PROVE  frontier' \in Seq(Expansion) /\ remaining' \in Int
<1> DEFINE e == [frontier[1] EXCEPT !.next = @ + 1]
<1>1. e \in Expansion
  <2>1. frontier[1].next + 1 \in 0..N
    BY CandidateType, ConstantTypes DEF Cursor
  <2> QED BY <2>1, CandidateType DEF Expansion
<1>2. frontier' = [frontier EXCEPT ![1] = e]
  BY DEF Take
<1>3. frontier \in Seq(Expansion) /\ 1 \in DOMAIN frontier
  BY DEF TypeOK, QueueType, HasCandidate
<1>4. frontier' \in Seq(Expansion)
  <2> HIDE DEF e
  <2> QED BY <1>1, <1>2, <1>3
<1>5. remaining' \in Int
  BY DEF Take, TypeOK, QueueType
<1> QED BY <1>4, <1>5

LEMMA SettleType ==
  ASSUME TypeOK, NEW i \in -1..N, Settle(i)
  PROVE  MarkType'
<1>1. CASE i < Start
  BY <1>1 DEF TypeOK, MarkType, Settle, markVars
<1>2. CASE ~(i < Start)
  <2>1. settled' = settled \cup {i} /\ watermark' \in watermark..N
    BY <1>2 DEF Settle
  <2>2. i \in 0..N
    BY <1>2, ConstantTypes
  <2> QED BY <2>1, <2>2, ConstantTypes DEF TypeOK, MarkType
<1> QED BY <1>1, <1>2

LEMMA InitType == Init => TypeOK
<1> SUFFICES ASSUME Init PROVE TypeOK
  OBVIOUS
<1>1. CtlType /\ TickType /\ MarkType
  <2>1. CtlType
    BY DEF Init, CtlType, MainPcs
  <2>2. TickType
    BY DEF Init, TickType, TickPcs, Progress
  <2>3. MarkType
    BY ConstantTypes DEF Init, MarkType
  <2> QED BY <2>1, <2>2, <2>3
<1>2. WorkType
  BY DEF Init, WorkType, WorkPcs, Jobs, Counted
<1>3. QueueType
  <2>1. <<[parent |-> <<>>, depth |-> 1, next |-> Start]>> \in Seq(Expansion)
    BY ConstantTypes DEF Expansion, Name
  <2>2. frontier \in Seq(Expansion)
    BY <2>1, ConstantTypes DEF Init
  <2>3. remaining \in Int
    <3>1. IsFiniteSet({i \in DOMAIN ResumeExpansions : Expandable(ResumeParents[i])})
      <4>1. IsFiniteSet(DOMAIN ResumeExpansions)
        BY ConstantTypes, FS_Interval
      <4> QED BY <4>1, FS_Subset
    <3> QED BY <3>1, ConstantTypes, FS_CardinalityType DEF Init
  <2>4. total \in Int /\ visited \subseteq Name /\ ready \in Jobs
    BY ConstantTypes DEF Init, Jobs
  <2>5. /\ disp \in DispPcs /\ pending \in Int /\ capped \in BOOLEAN
        /\ admitted \in Nat /\ skipped \in Int /\ excluded \in Nat
    <3>1. disp = "off" /\ pending = 0 /\ admitted = 0 /\ skipped = 0 /\ excluded = 0
      BY DEF Init
    <3>2. capped \in BOOLEAN
      BY DEF Init
    <3> QED BY <3>1, <3>2 DEF DispPcs
  <2> QED BY <2>2, <2>3, <2>4, <2>5 DEF QueueType
<1>4. CountType
  BY DEF Init, CountType, Counted
<1>5. OutType
  <2>1. progress \in Progress
    BY DEF Init, Progress
  <2>2. done \in Seq(Final)
    BY DEF Init
  <2> QED BY <2>1, <2>2 DEF Init, OutType
<1> QED BY <1>1, <1>2, <1>3, <1>4, <1>5 DEF TypeOK

(* A part of the type invariant holds on while its variables do not change. *)
LEMMA FrameType ==
  ASSUME TypeOK
  PROVE  /\ UNCHANGED <<argVars, ctlVars, cancelled>> => CtlType'
         /\ UNCHANGED dispVars => QueueType' /\ MarkType'
         /\ UNCHANGED markVars => MarkType'
         /\ UNCHANGED workVars => WorkType'
         /\ UNCHANGED <<sumVars, guard, tripped, aborted>> => CountType'
         /\ UNCHANGED tickVars => TickType'
         /\ UNCHANGED outVars => OutType'
<1>1. UNCHANGED <<argVars, ctlVars, cancelled>> => CtlType'
  BY DEF TypeOK, CtlType, argVars, ctlVars
<1>2. UNCHANGED dispVars => QueueType'
  BY DEF TypeOK, QueueType, dispVars, genVars, lossVars
<1>3. UNCHANGED markVars => MarkType'
  BY DEF TypeOK, MarkType, markVars
<1>4. UNCHANGED workVars => WorkType'
  BY DEF TypeOK, WorkType, workVars
<1>5. UNCHANGED <<sumVars, guard, tripped, aborted>> => CountType'
  BY DEF TypeOK, CountType, sumVars
<1>6. UNCHANGED tickVars => TickType'
  BY DEF TypeOK, TickType, tickVars
<1>7. UNCHANGED outVars => OutType'
  BY DEF TypeOK, OutType, outVars
<1> QED BY <1>1, <1>2, <1>3, <1>4, <1>5, <1>6, <1>7 DEF dispVars

LEMMA PublishedType ==
  ASSUME NEW i \in Int, NEW r \in Int PROVE Published(i, r) \in Int
BY ScanAssumption DEF ScanAssumption, Published

LEMMA JobsType ==
  \A j \in Jobs : j.name \in Name /\ j.depth \in Nat /\ j.root \in -1..N
<1>1. NoJob.name = <<>> /\ NoJob.depth = 0 /\ NoJob.root = -1
  BY DEF NoJob
<1>2. <<>> \in Name
  BY DEF Name
<1>3. NoJob.name \in Name /\ NoJob.depth \in Nat /\ NoJob.root \in -1..N
  BY <1>1, <1>2, ConstantTypes
<1>4. \A j \in Job : j.name \in Name /\ j.depth \in Nat /\ j.root \in -1..N
  BY DEF Job
<1> HIDE DEF NoJob
<1> QED BY <1>3, <1>4 DEF Jobs

LEMMA HeldType ==
  ASSUME TypeOK, NEW w \in Worker
  PROVE  /\ wjob[w].name \in Name /\ wjob[w].depth \in Nat
         /\ wjob[w].root \in -1..N
BY JobsType DEF TypeOK, WorkType

LEMMA AdmitType ==
  ASSUME TypeOK, Admit
  PROVE  /\ ready' \in Jobs /\ total' \in Int /\ admitted' \in Nat
         /\ visited' \subseteq Name
<1>1. frontier[1].depth \in Nat \ {0}
  BY CandidateType DEF Admit, Expansion
<1>2. ready' \in Jobs
  BY <1>1, CandidateType, ConstantTypes DEF Admit, Job, Jobs
<1>3. admitted' \in Nat /\ visited' \subseteq Name
  BY CandidateType DEF Admit, TypeOK, QueueType
<1>4. total' \in Int
  BY <1>3, TakeType, PublishedType DEF Admit
<1> QED BY <1>2, <1>3, <1>4

LEMMA EnqueueType ==
  ASSUME TypeOK, NEW w \in Worker, Enqueue(w)
  PROVE  /\ frontier' \in Seq(Expansion) /\ remaining' \in Int /\ total' \in Int
         /\ skipped' \in Int /\ excluded' \in Nat
<1> DEFINE e == [parent |-> wjob[w].name, depth |-> wjob[w].depth + 1, next |-> 0]
<1>1. e \in Expansion
  BY ConstantTypes, HeldType DEF Expansion
<1>2. frontier' = frontier \/ frontier' = Append(frontier, e)
  BY DEF Enqueue
<1>3. frontier' \in Seq(Expansion)
  <2> HIDE DEF e
  <2> QED BY <1>1, <1>2 DEF TypeOK, QueueType
<1>4. /\ remaining' = remaining \/ remaining' = remaining + N
      /\ skipped' = skipped \/ skipped' = skipped + N
      /\ excluded' = excluded \/ excluded' = excluded + N
      /\ total' = total \/ total' = Published(admitted, remaining')
  <2>1. CASE skipped' = skipped + N /\ UNCHANGED <<excluded, remaining, total>>
    BY <2>1
  <2>2. CASE excluded' = excluded + N /\ UNCHANGED <<skipped, remaining, total>>
    BY <2>2
  <2>3. CASE /\ remaining' = remaining + N /\ total' = Published(admitted, remaining')
             /\ UNCHANGED <<skipped, excluded>>
    BY <2>3
  <2> QED BY <2>1, <2>2, <2>3 DEF Enqueue, lossVars
<1>5. /\ remaining \in Int /\ skipped \in Int /\ excluded \in Nat
      /\ total \in Int /\ admitted \in Int
  BY DEF TypeOK, QueueType
<1>6. remaining' \in Int /\ skipped' \in Int /\ excluded' \in Nat
  BY <1>4, <1>5, ConstantTypes
<1> QED BY <1>3, <1>4, <1>5, <1>6, PublishedType

LEMMA SettleHeldType ==
  ASSUME TypeOK, NEW w \in Worker, Settle(wjob[w].root)
  PROVE  MarkType'
BY HeldType, SettleType

LEMMA VerdictType ==
  ASSUME NEW o \in Outcomes PROVE Verdicts(o) \subseteq Counted \cup {"cut"}
BY DEF Outcomes, Verdicts, Counted


LEMMA NoticeType ==
  \A k \in {"ceiling", "wildcard", "cap"} :
    <<k, <<>>>> \in {"ceiling", "wildcard", "skip", "cap"} \X Name
<1>1. <<>> \in Name
  BY DEF Name
<1> QED BY <1>1

LEMMA FinalType ==
  ASSUME TypeOK PROVE DoneEvent \in Final /\ StoppedEvent \in Final
BY ConstantTypes DEF TypeOK, QueueType, MarkType, CountType, DoneEvent, StoppedEvent, Final

LEMMA StepType == TypeOK /\ [Next]_vars => TypeOK'
<1> SUFFICES ASSUME TypeOK, [Next]_vars PROVE TypeOK'
  OBVIOUS
<1> USE DEF argVars, ctlVars, genVars, lossVars, markVars, dispVars, workVars, sumVars, stopVars, tickVars, outVars, poolVars, restVars, workEnv
<1>1. CASE Cancel
  <2>1. CtlType'
    BY <1>1 DEF TypeOK, CtlType, Cancel
  <2> QED BY <1>1, <2>1, FrameType DEF TypeOK, Cancel
<1>2. CASE CheckScope
  <2>1. CtlType'
    BY <1>2 DEF TypeOK, CtlType, MainPcs, Refuse, GoOn, CheckScope
  <2>2. OutType'
    BY <1>2 DEF TypeOK, OutType, Name, Refuse, GoOn, CheckScope
  <2> QED BY <1>2, <2>1, <2>2, FrameType DEF TypeOK, CheckScope
<1>3. CASE CheckCeiling
  <2>1. CtlType'
    BY <1>3 DEF TypeOK, CtlType, MainPcs, Refuse, GoOn, CheckCeiling
  <2>2. OutType'
    <3>1. /\ notices' \subseteq notices \cup {<<k, <<>>>> : k \in {"ceiling", "wildcard", "cap"}}
          /\ errors' \subseteq errors \cup {"inconclusive", "wildcard", "ceiling"}
          /\ UNCHANGED <<results, progress, done, closed>>
      BY <1>3 DEF Refuse, GoOn, CheckCeiling
    <3>2. notices' \subseteq {"ceiling", "wildcard", "skip", "cap"} \X Name
      <4>1. notices \subseteq {"ceiling", "wildcard", "skip", "cap"} \X Name
        BY DEF TypeOK, OutType
      <4> QED BY <3>1, <4>1, NoticeType, Zenon
    <3> QED BY <3>1, <3>2 DEF TypeOK, OutType
  <2> QED BY <1>3, <2>1, <2>2, FrameType DEF TypeOK, CheckCeiling
<1>4. CASE Preflight
  <2>1. CtlType'
    BY <1>4 DEF TypeOK, CtlType, MainPcs, Refuse, GoOn, Preflight
  <2>2. OutType'
    BY <1>4 DEF TypeOK, OutType, Name, Refuse, GoOn, Preflight
  <2> QED BY <1>4, <2>1, <2>2, FrameType DEF TypeOK, Preflight
<1>5. CASE DetectWildcard
  <2>1. CtlType'
    BY <1>5 DEF TypeOK, CtlType, MainPcs, Refuse, GoOn, DetectWildcard
  <2>2. OutType'
    <3>1. /\ notices' \subseteq notices \cup {<<k, <<>>>> : k \in {"ceiling", "wildcard", "cap"}}
          /\ errors' \subseteq errors \cup {"inconclusive", "wildcard", "ceiling"}
          /\ UNCHANGED <<results, progress, done, closed>>
      BY <1>5 DEF Refuse, GoOn, DetectWildcard
    <3>2. notices' \subseteq {"ceiling", "wildcard", "skip", "cap"} \X Name
      <4>1. notices \subseteq {"ceiling", "wildcard", "skip", "cap"} \X Name
        BY DEF TypeOK, OutType
      <4> QED BY <3>1, <4>1, NoticeType, Zenon
    <3> QED BY <3>1, <3>2 DEF TypeOK, OutType
  <2> QED BY <1>5, <2>1, <2>2, FrameType DEF TypeOK, DetectWildcard
<1>6. CASE Spawn
  <2>1. CtlType'
    BY <1>6 DEF TypeOK, CtlType, MainPcs, Spawn
  <2>2. QueueType'
    BY <1>6 DEF TypeOK, QueueType, DispPcs, Spawn
  <2>3. WorkType'
    BY <1>6 DEF TypeOK, WorkType, WorkPcs, Spawn
  <2>4. TickType'
    BY <1>6 DEF TypeOK, TickType, TickPcs, Spawn
  <2> QED BY <1>6, <2>1, <2>2, <2>3, <2>4, FrameType DEF TypeOK, Spawn
<1>7. CASE JoinWorkers
  <2>1. CtlType'
    BY <1>7 DEF TypeOK, CtlType, MainPcs, JoinWorkers
  <2> QED BY <1>7, <2>1, FrameType DEF TypeOK, JoinWorkers
<1>8. CASE SendDone
  <2>1. CtlType'
    BY <1>8 DEF TypeOK, CtlType, MainPcs, SendDone
  <2>2. OutType'
    <3>1. PICK e \in Final : done' = Append(done, e)
      BY <1>8, FinalType DEF SendDone
    <3>2. done \in Seq(Final)
      BY DEF TypeOK, OutType
    <3>3. done' \in Seq(Final)
      BY <3>1, <3>2
    <3> QED BY <1>8, <3>3 DEF TypeOK, OutType, SendDone
  <2> QED BY <1>8, <2>1, <2>2, FrameType DEF TypeOK, SendDone
<1>9. CASE Close
  <2>1. CtlType'
    BY <1>9 DEF TypeOK, CtlType, MainPcs, Close
  <2>2. OutType'
    BY <1>9 DEF TypeOK, OutType, Close
  <2> QED BY <1>9, <2>1, <2>2, FrameType DEF TypeOK, Close
<1>10. CASE PopExpansion
  <2>1. QueueType'
    BY <1>10 DEF TypeOK, QueueType, PopExpansion
  <2> QED BY <1>10, <2>1, FrameType DEF TypeOK, PopExpansion
<1>11. CASE HitCap
  <2>1. QueueType'
    BY <1>11 DEF TypeOK, QueueType, HitCap
  <2> QED BY <1>11, <2>1, FrameType DEF TypeOK, HitCap
<1>12. CASE SkipDuplicate
  <2>1. QueueType'
    BY <1>12, TakeType DEF TypeOK, QueueType, SkipDuplicate
  <2>2. MarkType'
    <3>1. HasCandidate /\ Settle(RootIndex)
      BY <1>12 DEF SkipDuplicate
    <3>2. RootIndex \in -1..N
      BY <3>1, CandidateType, ConstantTypes
    <3> QED BY <3>1, <3>2, SettleType
  <2> QED BY <1>12, <2>1, <2>2, FrameType DEF TypeOK, SkipDuplicate
<1>13. CASE SkipExcluded
  <2>1. QueueType'
    BY <1>13, TakeType, CandidateType DEF TypeOK, QueueType, SkipExcluded
  <2>2. MarkType'
    <3>1. HasCandidate /\ Settle(RootIndex)
      BY <1>13 DEF SkipExcluded
    <3>2. RootIndex \in -1..N
      BY <3>1, CandidateType, ConstantTypes
    <3> QED BY <3>1, <3>2, SettleType
  <2> QED BY <1>13, <2>1, <2>2, FrameType DEF TypeOK, SkipExcluded
<1>14. CASE Admit
  <2>1. QueueType'
    BY <1>14, TakeType, AdmitType DEF TypeOK, QueueType, DispPcs, Admit
  <2> QED BY <1>14, <2>1, FrameType DEF TypeOK, Admit
<1>15. CASE NoneLeft
  <2>1. QueueType'
    BY <1>15, PublishedType DEF TypeOK, QueueType, DispPcs, NoneLeft
  <2> QED BY <1>15, <2>1, FrameType DEF TypeOK, NoneLeft
<1>16. CASE BeginClose
  <2>1. QueueType'
    BY <1>16 DEF TypeOK, QueueType, DispPcs, BeginClose
  <2> QED BY <1>16, <2>1, FrameType DEF TypeOK, BeginClose
<1>17. CASE CloseJobs
  <2>1. QueueType'
    BY <1>17 DEF TypeOK, QueueType, DispPcs, CloseJobs
  <2>2. OutType'
    <3>1. /\ notices' \subseteq notices \cup {<<k, <<>>>> : k \in {"ceiling", "wildcard", "cap"}}
          /\ errors' \subseteq errors \cup {"inconclusive", "wildcard", "ceiling"}
          /\ UNCHANGED <<results, progress, done, closed>>
      BY <1>17 DEF CloseJobs
    <3>2. notices' \subseteq {"ceiling", "wildcard", "skip", "cap"} \X Name
      <4>1. notices \subseteq {"ceiling", "wildcard", "skip", "cap"} \X Name
        BY DEF TypeOK, OutType
      <4> QED BY <3>1, <4>1, NoticeType, Zenon
    <3> QED BY <3>1, <3>2 DEF TypeOK, OutType
  <2> QED BY <1>17, <2>1, <2>2, FrameType DEF TypeOK, CloseJobs
<1>18. CASE Tick
  <2>1. TickType'
    BY <1>18 DEF TypeOK, TickType, TickPcs, Progress, CountType, Tick
  <2> QED BY <1>18, <2>1, FrameType DEF TypeOK, Tick
<1>19. CASE LoadTick
  <2>1. TickType'
    BY <1>19 DEF TypeOK, TickType, TickPcs, Progress, CountType, QueueType, LoadTick
  <2> QED BY <1>19, <2>1, FrameType DEF TypeOK, LoadTick
<1>20. CASE SendProgress
  <2>1. TickType'
    BY <1>20 DEF TypeOK, TickType, TickPcs, SendProgress
  <2>2. OutType'
    BY <1>20 DEF TypeOK, OutType, TickType, SendProgress
  <2> QED BY <1>20, <2>1, <2>2, FrameType DEF TypeOK, SendProgress
<1>21. CASE StopTicker
  <2>1. TickType'
    BY <1>21 DEF TypeOK, TickType, TickPcs, StopTicker
  <2> QED BY <1>21, <2>1, FrameType DEF TypeOK, StopTicker
<1>22. ASSUME NEW w \in Worker, Dispatch(w) PROVE TypeOK'
  <2>1. QueueType'
    BY <1>22 DEF TypeOK, QueueType, DispPcs, Jobs, Dispatch
  <2>2. WorkType'
    BY <1>22 DEF TypeOK, WorkType, WorkPcs, QueueType, Jobs, Dispatch
  <2> QED BY <1>22, <2>1, <2>2, FrameType DEF TypeOK, Dispatch
<1>23. ASSUME NEW w \in Worker, Enqueue(w) PROVE TypeOK'
  <2>1. QueueType'
    BY <1>23, EnqueueType DEF TypeOK, QueueType, DispPcs, Resume, Enqueue
  <2>2. WorkType'
    BY <1>23 DEF TypeOK, WorkType, WorkPcs, Enqueue
  <2> QED BY <1>23, <2>1, <2>2, FrameType DEF TypeOK, Enqueue
<1>24. ASSUME NEW w \in Worker, Complete(w) PROVE TypeOK'
  <2>1. QueueType'
    BY <1>24 DEF TypeOK, QueueType, DispPcs, Resume, Complete
  <2>2. MarkType'
    BY <1>24, SettleHeldType, FrameType DEF TypeOK, WorkType, Complete
  <2>3. WorkType'
    BY <1>24 DEF TypeOK, WorkType, WorkPcs, Complete
  <2> QED BY <1>24, <2>1, <2>2, <2>3, FrameType DEF TypeOK, Complete
<1>25. ASSUME NEW w \in Worker, Exit(w) PROVE TypeOK'
  <2>1. WorkType'
    BY <1>25 DEF TypeOK, WorkType, WorkPcs, Goto, Exit
  <2> QED BY <1>25, <2>1, FrameType DEF TypeOK, Exit
<1>26. ASSUME NEW w \in Worker, Begin(w) PROVE TypeOK'
  <2>1. WorkType'
    BY <1>26 DEF TypeOK, WorkType, WorkPcs, Goto, Begin
  <2> QED BY <1>26, <2>1, FrameType DEF TypeOK, Begin
<1>27. ASSUME NEW w \in Worker, Lookup(w) PROVE TypeOK'
  <2>1. WorkType'
    BY <1>27, VerdictType DEF TypeOK, WorkType, WorkPcs, Goto, Lookup
  <2>2. CountType'
    BY <1>27, VerdictType DEF TypeOK, CountType, WorkType, Lookup
  <2> QED BY <1>27, <2>1, <2>2, FrameType DEF TypeOK, Lookup
<1>28. ASSUME NEW w \in Worker, Count(w) PROVE TypeOK'
  <2>1. WorkType'
    BY <1>28 DEF TypeOK, WorkType, WorkPcs, Goto, CountType, Count
  <2>2. CountType'
    BY <1>28 DEF TypeOK, CountType, Count
  <2> QED BY <1>28, <2>1, <2>2, FrameType DEF TypeOK, Count
<1>29. ASSUME NEW w \in Worker, CheckReliability(w) PROVE TypeOK'
  <2>1. WorkType'
    BY <1>29 DEF TypeOK, WorkType, WorkPcs, Goto, AfterGuard, CheckReliability
  <2>2. CountType'
    BY <1>29 DEF TypeOK, CountType, WorkType, Counted, CheckReliability
  <2> QED BY <1>29, <2>1, <2>2, FrameType DEF TypeOK, CheckReliability
<1>30. ASSUME NEW w \in Worker, Trip(w) PROVE TypeOK'
  <2>1. CtlType'
    BY <1>30 DEF TypeOK, CtlType, Trip
  <2>2. WorkType'
    BY <1>30 DEF TypeOK, WorkType, WorkPcs, Goto, AfterGuard, Trip
  <2>3. CountType'
    BY <1>30 DEF TypeOK, CountType, Trip
  <2>4. OutType'
    BY <1>30 DEF TypeOK, OutType, Trip
  <2> QED BY <1>30, <2>1, <2>2, <2>3, <2>4, FrameType DEF TypeOK, Trip
<1>31. ASSUME NEW w \in Worker, CountFound(w) PROVE TypeOK'
  <2>1. WorkType'
    BY <1>31 DEF TypeOK, WorkType, WorkPcs, Goto, CountFound
  <2>2. CountType'
    BY <1>31 DEF TypeOK, CountType, CountFound
  <2> QED BY <1>31, <2>1, <2>2, FrameType DEF TypeOK, CountFound
<1>32. ASSUME NEW w \in Worker, SendResult(w) PROVE TypeOK'
  <2>1. WorkType'
    BY <1>32 DEF TypeOK, WorkType, WorkPcs, Goto, AfterResult, SendResult
  <2>2. OutType'
    BY <1>32, HeldType DEF TypeOK, OutType, SendResult
  <2> QED BY <1>32, <2>1, <2>2, FrameType DEF TypeOK, SendResult
<1>33. ASSUME NEW w \in Worker, ProbeParent(w) PROVE TypeOK'
  <2>1. WorkType'
    BY <1>33 DEF TypeOK, WorkType, WorkPcs, Goto, ProbeParent
  <2>2. OutType'
    BY <1>33, HeldType DEF TypeOK, OutType, ProbeParent
  <2> QED BY <1>33, <2>1, <2>2, FrameType DEF TypeOK, ProbeParent
<1>34. ASSUME NEW w \in Worker, GiveUp(w) PROVE TypeOK'
  <2>1. WorkType'
    BY <1>34 DEF TypeOK, WorkType, WorkPcs, Goto, GiveUp
  <2> QED BY <1>34, <2>1, FrameType DEF TypeOK, GiveUp
<1>35. CASE UNCHANGED vars
  BY <1>35, FrameType DEF TypeOK, vars
<1> QED
  BY <1>1, <1>2, <1>3, <1>4, <1>5, <1>6, <1>7, <1>8, <1>9, <1>10, <1>11, <1>12,
     <1>13, <1>14, <1>15, <1>16, <1>17, <1>18, <1>19, <1>20, <1>21, <1>22,
     <1>23, <1>24, <1>25, <1>26, <1>27, <1>28, <1>29, <1>30, <1>31, <1>32,
     <1>33, <1>34, <1>35 DEF Next, Main, Dispatcher, Ticker, Work, Meet,
     Returned

(* Every variable keeps its type: the counters never leave the integers, the   *)
(* queue holds expansions and the workers hold jobs.                           *)
THEOREM TypeCorrect == Spec => []TypeOK
<1> QED BY InitType, StepType, PTL DEF Spec

-----------------------------------------------------------------------------
(* Shutdown.  Before Spawn and after a refusal nobody runs; a worker exits only *)
(* once the dispatcher has closed jobs; Run joins every worker, then the ticker. *)

NotSpawned == {"scope", "ceiling", "preflight", "wildcard", "spawn", "stopped"}
Over == {"close", "returned"}

NobodyBeforeSpawn ==
  main \in NotSpawned =>
    disp = "off" /\ tpc = "off" /\ \A w \in Worker : wpc[w] = "off"

ExitAfterClose == \A w \in Worker : wpc[w] = "exited" => disp = "closed"
OffTogether == \A w \in Worker : wpc[w] = "off" => disp = "off"
AllJoined == main = "joinTicker" => AllExited
DoneAtEnd == IF main \in Over THEN Len(done) = 1 ELSE done = <<>>
ClosedAtEnd == closed = (main = "returned")

(* The inductive invariant of the shutdown. *)
ShutdownInv ==
  /\ NobodyBeforeSpawn /\ ExitAfterClose /\ OffTogether /\ AllJoined
  /\ DoneAtEnd /\ ClosedAtEnd /\ NobodyOutlivesRun

LEMMA ShutdownInit == Init => ShutdownInv
BY DEF Init, ShutdownInv, NobodyBeforeSpawn, ExitAfterClose, OffTogether, AllJoined,
       DoneAtEnd, ClosedAtEnd, NobodyOutlivesRun, NotSpawned, Over

(* Once Run is past its joins no goroutine can take a step. *)
LEMMA NothingAfterOver ==
  ASSUME TypeOK, ShutdownInv, main \in Over, Next
  PROVE  Close \/ Cancel \/ Returned
<1>1. /\ \A w \in Worker : wpc[w] \in {"off", "exited"}
      /\ disp \in {"off", "closed"} /\ tpc \in {"off", "exited"}
  BY DEF ShutdownInv, NobodyOutlivesRun, Over
<1>2. ASSUME NEW w \in Worker PROVE ~Work(w) /\ ~Meet(w)
  <2>1. wpc[w] \in {"off", "exited"}
    BY <1>1
  <2> QED BY <2>1, <1>1 DEF Work, Meet, Exit, Begin, Lookup, Count, CheckReliability, Trip,
     CountFound, SendResult, ProbeParent, GiveUp, Dispatch, Enqueue, Complete
<1>3. ~Dispatcher
  BY <1>1 DEF Dispatcher, PopExpansion, HitCap, SkipDuplicate, SkipExcluded, Admit,
     NoneLeft, BeginClose, CloseJobs, HasCandidate
<1>4. ~Ticker
  BY <1>1 DEF Ticker, Tick, LoadTick, SendProgress, StopTicker
<1>5. Main => Close
  BY DEF Main, Over, CheckScope, CheckCeiling, Preflight, DetectWildcard, Spawn,
     JoinWorkers, SendDone
<1> QED BY <1>2, <1>3, <1>4, <1>5 DEF Next

LEMMA ShutdownStep == TypeOK /\ ShutdownInv /\ [Next]_vars => ShutdownInv'
<1> SUFFICES ASSUME TypeOK, ShutdownInv, [Next]_vars PROVE ShutdownInv'
  OBVIOUS
<1> USE DEF ShutdownInv, NobodyBeforeSpawn, ExitAfterClose, OffTogether, AllJoined,
            DoneAtEnd, ClosedAtEnd, NobodyOutlivesRun, NotSpawned, Over, AllExited,
            TypeOK, WorkType, QueueType, CtlType
<1> USE DEF argVars, ctlVars, genVars, lossVars, markVars, dispVars, workVars, sumVars, stopVars, tickVars, outVars, poolVars, restVars, workEnv
<1>1. CASE Cancel
  BY <1>1 DEF Cancel
<1>2. CASE CheckScope
  BY <1>2 DEF CheckScope, Refuse, GoOn
<1>3. CASE CheckCeiling
  BY <1>3 DEF CheckCeiling, Refuse, GoOn
<1>4. CASE Preflight
  BY <1>4 DEF Preflight, Refuse, GoOn
<1>5. CASE DetectWildcard
  BY <1>5 DEF DetectWildcard, Refuse, GoOn
<1>6. CASE Spawn
  BY <1>6 DEF Spawn
<1>7. CASE JoinWorkers
  BY <1>7, ScanAssumption DEF ScanAssumption, JoinWorkers
<1>8. CASE SendDone
  <2>1. done = <<>> /\ \E e : done' = Append(done, e)
    BY <1>8 DEF SendDone
  <2>2. Len(done') = 1
    BY <2>1
  <2>3. main' = "close" /\ UNCHANGED <<disp, wpc, tpc, closed>>
    BY <1>8 DEF SendDone
  <2>4. NobodyOutlivesRun'
    <3>1. CASE main = "joinTicker" /\ tpc = "exited"
      <4>1. \A w \in Worker : wpc[w] = "exited"
        BY <3>1
      <4>2. PICK w \in Worker : TRUE
        BY ScanAssumption DEF ScanAssumption
      <4>3. disp = "closed"
        BY <4>1, <4>2
      <4> QED BY <2>3, <3>1, <4>1, <4>3
    <3>2. CASE main = "stopped"
      BY <2>3, <3>2
    <3> QED BY <1>8, <3>1, <3>2 DEF SendDone, TickerJoined
  <2> QED BY <1>8, <2>2, <2>3, <2>4 DEF SendDone
<1>9. CASE Close
  BY <1>9 DEF Close
<1>10. CASE Dispatcher
  BY <1>10 DEF Dispatcher, PopExpansion, HitCap, SkipDuplicate, SkipExcluded,
     Admit, NoneLeft, BeginClose, CloseJobs, HasCandidate, Take, Settle
<1>11. CASE Ticker
  BY <1>11 DEF Ticker, Tick, LoadTick, SendProgress, StopTicker
<1>12. ASSUME NEW w \in Worker, Dispatch(w) PROVE ShutdownInv'
  BY <1>12 DEF Dispatch, InSelect
<1>13. ASSUME NEW w \in Worker, Enqueue(w) PROVE ShutdownInv'
  BY <1>13 DEF Enqueue, InSelect, Resume
<1>14. ASSUME NEW w \in Worker, Complete(w) PROVE ShutdownInv'
  BY <1>14 DEF Complete, InSelect, Resume
<1>15. ASSUME NEW w \in Worker, Exit(w) PROVE ShutdownInv'
  BY <1>15 DEF Exit, Goto
<1>16. ASSUME NEW w \in Worker, Begin(w) PROVE ShutdownInv'
  BY <1>16 DEF Begin, Goto
<1>17. ASSUME NEW w \in Worker, Lookup(w) PROVE ShutdownInv'
  BY <1>17 DEF Lookup, Goto
<1>18. ASSUME NEW w \in Worker, Count(w) PROVE ShutdownInv'
  BY <1>18 DEF Count, Goto
<1>19. ASSUME NEW w \in Worker, CheckReliability(w) PROVE ShutdownInv'
  BY <1>19 DEF CheckReliability, Goto, AfterGuard
<1>20. ASSUME NEW w \in Worker, Trip(w) PROVE ShutdownInv'
  BY <1>20 DEF Trip, Goto, AfterGuard
<1>21. ASSUME NEW w \in Worker, CountFound(w) PROVE ShutdownInv'
  BY <1>21 DEF CountFound, Goto
<1>22. ASSUME NEW w \in Worker, SendResult(w) PROVE ShutdownInv'
  BY <1>22 DEF SendResult, Goto, AfterResult
<1>23. ASSUME NEW w \in Worker, ProbeParent(w) PROVE ShutdownInv'
  BY <1>23 DEF ProbeParent, Goto
<1>24. ASSUME NEW w \in Worker, GiveUp(w) PROVE ShutdownInv'
  BY <1>24 DEF GiveUp, Goto
<1>25. CASE UNCHANGED vars
  BY <1>25 DEF vars
<1> QED
  BY <1>1, <1>2, <1>3, <1>4, <1>5, <1>6, <1>7, <1>8, <1>9, <1>10, <1>11, <1>12,
     <1>13, <1>14, <1>15, <1>16, <1>17, <1>18, <1>19, <1>20, <1>21, <1>22,
     <1>23, <1>24, <1>25 DEF Next, Main, Work, Meet, Returned

(* Run never closes events while a worker, the dispatcher or the ticker could  *)
(* still send on it.                                                           *)
THEOREM NobodyOutlives == Spec => []NobodyOutlivesRun
<1>1. TypeOK /\ ShutdownInv /\ [Next]_vars => (TypeOK /\ ShutdownInv)'
  BY StepType, ShutdownStep
<1>2. Init => TypeOK /\ ShutdownInv
  BY InitType, ShutdownInit
<1>3. ShutdownInv => NobodyOutlivesRun
  BY DEF ShutdownInv
<1> QED BY <1>1, <1>2, <1>3, PTL DEF Spec

(* A closed events channel carried exactly one EventDone. *)
THEOREM ExactlyOneDone == Spec => []OneDone
<1>1. TypeOK /\ ShutdownInv /\ [Next]_vars => (TypeOK /\ ShutdownInv)'
  BY StepType, ShutdownStep
<1>2. Init => TypeOK /\ ShutdownInv
  BY InitType, ShutdownInit
<1>3. ShutdownInv => OneDone
  BY DEF ShutdownInv, ClosedAtEnd, DoneAtEnd, Over, OneDone
<1> QED BY <1>1, <1>2, <1>3, PTL DEF Spec

(* EventDone is the last event. *)
THEOREM NothingAfterDone == Spec => DoneIsLast
<1> DEFINE Quiet == done # <<>> => UNCHANGED <<results, notices, errors, progress, done>>
<1>1. TypeOK /\ ShutdownInv /\ [Next]_vars => (TypeOK /\ ShutdownInv)'
  BY StepType, ShutdownStep
<1>2. Init => TypeOK /\ ShutdownInv
  BY InitType, ShutdownInit
<1>3. TypeOK /\ ShutdownInv /\ [Next]_vars => [Quiet]_vars
  <2> SUFFICES ASSUME TypeOK, ShutdownInv, Next, done # <<>> 
               PROVE  UNCHANGED <<results, notices, errors, progress, done>>
    OBVIOUS
  <2>1. main \in Over
    BY DEF ShutdownInv, DoneAtEnd
  <2>2. Close \/ Cancel \/ Returned
    BY <2>1, NothingAfterOver
  <2> QED BY <2>2 DEF Close, Cancel, Returned, vars, outVars
<1> QED BY <1>1, <1>2, <1>3, PTL DEF Spec, DoneIsLast

-----------------------------------------------------------------------------
(* The resume point.  While the root expansion heads the queue, visited holds  *)
(* exactly the entries generated, so a duplicate has an earlier first          *)
(* occurrence, and the watermark can pass the duplicate only after that one.   *)

Entry(i) == Entries[i + 1]
First(i) == \A m \in Start..(i - 1) : Entry(m) # Entry(i)
AtRoot == frontier # <<>> /\ frontier[1].depth = 1

QueueShape ==
  \A k \in DOMAIN frontier : frontier[k].depth = 1 =>
    k = 1 /\ frontier[k].parent = <<>> /\ frontier[k].next >= Start

RootsSeen ==
  AtRoot =>
    /\ visited = {Entry(m) : m \in Start..(Cursor - 1)}
    /\ \A m \in Start..(Cursor - 1) :
         \E k \in Start..m : First(k) /\ Entry(k) = Entry(m)

Rooted(j) == j.root # -1 => j.root \in Start..(N - 1) /\ j.name = Entry(j.root)

JobsRooted ==
  /\ Rooted(ready)
  /\ \A w \in Worker :
       /\ Rooted(wjob[w])
       /\ wpc[w] \notin {"off", "recv", "exited"} => wjob[w].depth >= 1
  /\ ready # NoJob => ready.depth >= 1

AnswerTested ==
  \A w \in Worker :
    wpc[w] \notin {"off", "recv", "begin", "lookup", "exited"} /\ wout[w] # "cut" =>
      wjob[w] \in tested

Answered(i) == Excluded(Entry(i)) \/ Entry(i) \in TestedNames

SettledMeaning ==
  \A i \in settled :
    /\ i \in Start..(N - 1)
    /\ Answered(i) \/ \E k \in Start..(i - 1) : First(k) /\ Entry(k) = Entry(i)

SettledBelow == \A i \in Start..(watermark - 1) : i \in settled

(* The inductive invariant of the resume point. *)
MarkInv ==
  /\ QueueShape /\ RootsSeen /\ JobsRooted /\ AnswerTested
  /\ SettledMeaning /\ SettledBelow /\ watermark >= Start

LEMMA MarkInvSound == TypeOK /\ MarkInv => WatermarkSound
<1> SUFFICES ASSUME TypeOK, MarkInv, NEW i \in Start..(watermark - 1) PROVE Answered(i)
  BY DEF WatermarkSound, Answered, Entry
<1>1. i \in settled /\ i \in Nat /\ watermark \in Nat /\ Start \in Nat
  BY ConstantTypes DEF MarkInv, SettledBelow, TypeOK, MarkType
<1>2. CASE \E k \in Start..(i - 1) : First(k) /\ Entry(k) = Entry(i)
  <2>1. PICK k \in Start..(i - 1) : First(k) /\ Entry(k) = Entry(i)
    BY <1>2
  <2>2. k \in settled
    BY <1>1, <2>1 DEF MarkInv, SettledBelow
  <2>3. Answered(k)
    BY <2>1, <2>2 DEF MarkInv, SettledMeaning, First
  <2> QED BY <2>1, <2>3 DEF Answered
<1> QED BY <1>1, <1>2 DEF MarkInv, SettledMeaning

LEMMA MarkInit == Init => MarkInv
<1> SUFFICES ASSUME Init PROVE MarkInv
  OBVIOUS
<1> DEFINE root == [parent |-> <<>>, depth |-> 1, next |-> Start]
<1>1. frontier = <<root>> \o ResumeExpansions
  BY DEF Init
<1>2. /\ Len(frontier) = 1 + Len(ResumeExpansions) /\ frontier[1] = root
      /\ DOMAIN frontier = 1..Len(frontier)
      /\ \A k \in 2..Len(frontier) : frontier[k] = ResumeExpansions[k - 1]
  BY <1>1, ConstantTypes
<1>3. \A k \in DOMAIN ResumeExpansions : ResumeExpansions[k].depth > 1
  <2>1. \A k \in DOMAIN ResumeParents : Len(ResumeParents[k]) > 0
    BY ScanAssumption DEF ScanAssumption, Name
  <2>2. \A k \in DOMAIN ResumeExpansions :
          k \in DOMAIN ResumeParents /\ ResumeExpansions[k].depth = Len(ResumeParents[k]) + 1
    BY DEF ResumeExpansions
  <2>3. \A k \in DOMAIN ResumeParents : Len(ResumeParents[k]) \in Nat
    BY ScanAssumption DEF ScanAssumption, Name
  <2> QED BY <2>1, <2>2, <2>3
<1>4. QueueShape
  BY <1>2, <1>3, ConstantTypes DEF QueueShape
<1>5. RootsSeen
  <2>1. visited = {} /\ Cursor = Start
    BY <1>2 DEF Init, Cursor
  <2> QED BY <2>1, ConstantTypes DEF RootsSeen
<1>6. JobsRooted /\ AnswerTested
  BY DEF Init, JobsRooted, AnswerTested, Rooted, NoJob
<1>7. SettledMeaning /\ SettledBelow /\ watermark >= Start
  BY ConstantTypes DEF Init, SettledMeaning, SettledBelow
<1> QED BY <1>4, <1>5, <1>6, <1>7 DEF MarkInv

LEMMA IntervalJoin ==
  ASSUME NEW a \in Int, NEW b \in Int, NEW c \in Int, NEW S,
         \A m \in a..(b - 1) : m \in S, \A m \in b..(c - 1) : m \in S
  PROVE  \A m \in a..(c - 1) : m \in S
OBVIOUS

(* Settling an entry keeps the meaning of the settled set and the watermark. *)
LEMMA SettleMark ==
  ASSUME TypeOK, MarkInv, NEW i \in Start..(N - 1), Settle(i), tested' = tested,
         Answered(i) \/ \E k \in Start..(i - 1) : First(k) /\ Entry(k) = Entry(i)
  PROVE  SettledMeaning' /\ SettledBelow' /\ watermark' >= Start
<1>1. /\ settled' = settled \cup {i}
      /\ watermark' \in watermark..N
      /\ \A m \in watermark..(watermark' - 1) : m \in settled'
  BY ConstantTypes DEF Settle
<1>2. \A k : Answered(k)' = Answered(k)
  BY DEF Answered, TestedNames
<1>3. SettledMeaning'
  BY <1>1, <1>2 DEF MarkInv, SettledMeaning
<1>4. watermark \in Nat /\ watermark' \in Nat /\ Start \in Nat /\ watermark >= Start
  BY <1>1, ConstantTypes DEF TypeOK, MarkType, MarkInv
<1>5. \A m \in Start..(watermark - 1) : m \in settled'
  BY <1>1 DEF MarkInv, SettledBelow
<1>6. \A m \in Start..(watermark' - 1) : m \in settled'
  <2>1. PICK a, b, c, S : a = Start /\ b = watermark /\ c = watermark' /\ S = settled'
    OBVIOUS
  <2>2. a \in Int /\ b \in Int /\ c \in Int
    BY <1>4, <2>1
  <2>3. (\A m \in a..(b - 1) : m \in S) /\ (\A m \in b..(c - 1) : m \in S)
    BY <1>1, <1>5, <2>1
  <2>4. \A m \in a..(c - 1) : m \in S
    BY <2>2, <2>3, IntervalJoin
  <2> QED BY <2>1, <2>4
<1>7. SettledBelow'
  BY <1>6 DEF SettledBelow
<1> QED BY <1>1, <1>3, <1>4, <1>7

(* What stays true of the marks while neither they nor tested change. *)
LEMMA MarkFrame ==
  ASSUME TypeOK, MarkInv, UNCHANGED markVars, tested \subseteq tested'
  PROVE  SettledMeaning' /\ SettledBelow' /\ watermark' >= Start
<1>1. \A k : Answered(k) => Answered(k)'
  BY DEF Answered, TestedNames
<1> QED BY <1>1 DEF MarkInv, SettledMeaning, SettledBelow, markVars

LEMMA RootCandidate ==
  ASSUME TypeOK, MarkInv, HasCandidate
  PROVE  /\ AtRoot => /\ Candidate = Entry(Cursor) /\ RootIndex = Cursor
                      /\ Cursor \in Start..(N - 1)
         /\ ~AtRoot => RootIndex = -1
<1>1. frontier # <<>> /\ Cursor \in 0..(N - 1) /\ frontier[1] \in Expansion
  BY CandidateType DEF HasCandidate
<1>2. ASSUME AtRoot PROVE Candidate = Entry(Cursor) /\ Cursor \in Start..(N - 1)
  <2>1. 1 \in DOMAIN frontier
    BY <1>1 DEF TypeOK, QueueType
  <2>2. frontier[1].parent = <<>> /\ Cursor >= Start
    BY <1>2, <2>1 DEF MarkInv, QueueShape, AtRoot, Cursor
  <2>3. Entries[Cursor + 1] \in Seq(Label)
    BY <1>1, ScanAssumption DEF ScanAssumption, N, Name
  <2>4. Candidate = Entries[Cursor + 1]
    BY <2>2, <2>3 DEF Candidate, Child
  <2> QED BY <1>1, <2>2, <2>4, ConstantTypes DEF Entry
<1> QED BY <1>1, <1>2 DEF AtRoot, RootIndex

(* Generating a candidate keeps the queue's shape and the roots seen. *)
LEMMA AdvanceRoot ==
  ASSUME TypeOK, MarkInv, HasCandidate, Take, visited' = visited \cup {Candidate}
  PROVE  QueueShape' /\ RootsSeen'
<1>1. frontier \in Seq(Expansion) /\ 1 \in DOMAIN frontier /\ Cursor \in 0..(N - 1)
  BY CandidateType DEF TypeOK, QueueType, HasCandidate
<1>2. frontier' = [frontier EXCEPT ![1] = [frontier[1] EXCEPT !.next = Cursor + 1]]
  BY DEF Take, Cursor
<1>3. frontier[1] \in Expansion
  BY <1>1
<1>4. /\ frontier' # <<>> /\ DOMAIN frontier' = DOMAIN frontier
      /\ frontier'[1].depth = frontier[1].depth
      /\ frontier'[1].parent = frontier[1].parent
      /\ frontier'[1].next = Cursor + 1
      /\ \A k \in DOMAIN frontier : k # 1 => frontier'[k] = frontier[k]
  BY <1>1, <1>2, <1>3 DEF Expansion
<1>5. Cursor' = Cursor + 1
  BY <1>4 DEF Cursor
<1>6. QueueShape'
  BY <1>1, <1>4, ConstantTypes DEF MarkInv, QueueShape, Cursor
<1>7. ASSUME AtRoot' PROVE RootsSeen'
  <2>1. AtRoot
    BY <1>4, <1>7, <1>1 DEF AtRoot
  <2>2. Candidate = Entry(Cursor) /\ Cursor \in Start..(N - 1)
    BY <2>1, RootCandidate
  <2>3. visited = {Entry(m) : m \in Start..(Cursor - 1)}
    BY <2>1 DEF MarkInv, RootsSeen
  <2>4. Start..(Cursor' - 1) = (Start..(Cursor - 1)) \cup {Cursor}
    BY <1>5, <2>2, ConstantTypes
  <2>5. visited' = {Entry(m) : m \in Start..(Cursor' - 1)}
    BY <2>2, <2>3, <2>4
  <2>6. \E k \in Start..Cursor : First(k) /\ Entry(k) = Entry(Cursor)
    <3>1. CASE Candidate \in visited
      <4>1. PICK m \in Start..(Cursor - 1) : Entry(m) = Entry(Cursor)
        BY <2>2, <2>3, <3>1
      <4>2. PICK k \in Start..m : First(k) /\ Entry(k) = Entry(m)
        BY <2>1, <4>1 DEF MarkInv, RootsSeen
      <4> QED BY <2>2, <4>1, <4>2, ConstantTypes
    <3>2. CASE Candidate \notin visited
      <4>1. First(Cursor)
        BY <2>2, <2>3, <3>2 DEF First
      <4> QED BY <2>2, <4>1, ConstantTypes
    <3> QED BY <3>1, <3>2
  <2>7. \A m \in Start..(Cursor - 1) : \E k \in Start..m : First(k) /\ Entry(k) = Entry(m)
    BY <2>1 DEF MarkInv, RootsSeen
  <2> QED BY <2>4, <2>5, <2>6, <2>7 DEF RootsSeen
<1> QED BY <1>6, <1>7 DEF RootsSeen

(* A duplicate root entry has an earlier first occurrence. *)
LEMMA DuplicateRoot ==
  ASSUME TypeOK, MarkInv, HasCandidate, AtRoot, Candidate \in visited
  PROVE  \E k \in Start..(Cursor - 1) : First(k) /\ Entry(k) = Entry(Cursor)
<1>1. Candidate = Entry(Cursor) /\ Cursor \in Start..(N - 1)
  BY RootCandidate
<1>2. PICK m \in Start..(Cursor - 1) : Entry(m) = Entry(Cursor)
  BY <1>1 DEF MarkInv, RootsSeen
<1>3. PICK k \in Start..m : First(k) /\ Entry(k) = Entry(m)
  BY <1>2 DEF MarkInv, RootsSeen
<1> QED BY <1>1, <1>2, <1>3, ConstantTypes

(* The marks when the candidate just generated is settled. *)
LEMMA SettleCandidate ==
  ASSUME TypeOK, MarkInv, HasCandidate, Settle(RootIndex), tested' = tested,
         Candidate \in visited \/ Excluded(Candidate)
  PROVE  SettledMeaning' /\ SettledBelow' /\ watermark' >= Start
<1>1. CASE AtRoot
  <2>1. Candidate = Entry(Cursor) /\ RootIndex = Cursor /\ Cursor \in Start..(N - 1)
    BY <1>1, RootCandidate
  <2>2. \/ Answered(Cursor)
        \/ \E k \in Start..(Cursor - 1) : First(k) /\ Entry(k) = Entry(Cursor)
    BY <1>1, <2>1, DuplicateRoot DEF Answered
  <2> QED BY <2>1, <2>2, SettleMark
<1>2. CASE ~AtRoot
  <2>1. RootIndex = -1
    BY <1>2, RootCandidate
  <2>2. UNCHANGED markVars
    BY <2>1, ConstantTypes DEF Settle
  <2> QED BY <2>2, MarkFrame
<1> QED BY <1>1, <1>2

(* The parts of MarkInv that hold on while the queue, the hands or the workers *)
(* stand still.                                                                *)
LEMMA MarkQueueFrame ==
  ASSUME TypeOK, MarkInv
  PROVE  /\ UNCHANGED <<frontier, visited>> => QueueShape' /\ RootsSeen'
         /\ UNCHANGED <<wpc, wjob>> /\ Rooted(ready)' /\ (ready' # NoJob => ready'.depth >= 1)
              => JobsRooted'
         /\ UNCHANGED workVars /\ tested \subseteq tested' => AnswerTested'
<1>1. UNCHANGED <<frontier, visited>> => QueueShape' /\ RootsSeen'
  BY DEF MarkInv, QueueShape, RootsSeen, AtRoot, Cursor
<1>2. UNCHANGED <<wpc, wjob>> /\ Rooted(ready)' /\ (ready' # NoJob => ready'.depth >= 1)
        => JobsRooted'
  BY DEF MarkInv, JobsRooted, Rooted
<1>3. UNCHANGED workVars /\ tested \subseteq tested' => AnswerTested'
  BY DEF MarkInv, AnswerTested, workVars
<1> QED BY <1>1, <1>2, <1>3

LEMMA MarkStep == TypeOK /\ MarkInv /\ [Next]_vars => MarkInv'
<1> SUFFICES ASSUME TypeOK, MarkInv, [Next]_vars PROVE MarkInv'
  OBVIOUS
<1> USE DEF argVars, ctlVars, genVars, lossVars, markVars, dispVars, workVars, sumVars,
            stopVars, tickVars, outVars, poolVars, restVars, workEnv
<1>0. UNCHANGED <<dispVars, workVars, tested>> => MarkInv'
  <2> SUFFICES ASSUME UNCHANGED <<dispVars, workVars, tested>> PROVE MarkInv'
    OBVIOUS
  <2>1. QueueShape' /\ RootsSeen' /\ JobsRooted' /\ AnswerTested'
    BY MarkQueueFrame DEF MarkInv, JobsRooted, Rooted
  <2> QED BY <2>1, MarkFrame DEF MarkInv
<1>1. CASE Cancel \/ CheckScope \/ CheckCeiling \/ Preflight \/ DetectWildcard
  BY <1>0, <1>1 DEF Cancel, CheckScope, CheckCeiling, Preflight, DetectWildcard
<1>2. CASE JoinWorkers \/ SendDone \/ Close \/ Ticker \/ CloseJobs
  <2>1. UNCHANGED <<frontier, visited, ready, workVars, markVars, tested>>
    BY <1>2 DEF JoinWorkers, SendDone, Close, Ticker, Tick, LoadTick, SendProgress,
       StopTicker, CloseJobs
  <2>2. QueueShape' /\ RootsSeen' /\ JobsRooted' /\ AnswerTested'
    BY <2>1, MarkQueueFrame DEF MarkInv, JobsRooted, Rooted
  <2> QED BY <2>1, <2>2, MarkFrame DEF MarkInv
<1>3. CASE Spawn
  <2>1. UNCHANGED <<frontier, visited, ready, wjob, wout, markVars, tested>>
    BY <1>3 DEF Spawn
  <2>2. \A w \in Worker : wpc'[w] = "recv"
    BY <1>3 DEF Spawn
  <2>3. QueueShape' /\ RootsSeen'
    BY <2>1, MarkQueueFrame
  <2>4. JobsRooted' /\ AnswerTested'
    BY <2>1, <2>2 DEF MarkInv, JobsRooted, Rooted, AnswerTested
  <2> QED BY <2>1, <2>3, <2>4, MarkFrame DEF MarkInv
<1>4. CASE NoneLeft \/ BeginClose
  <2>1. UNCHANGED <<frontier, visited, ready, workVars, markVars, tested>>
    BY <1>4 DEF NoneLeft, BeginClose
  <2>2. QueueShape' /\ RootsSeen' /\ JobsRooted' /\ AnswerTested'
    BY <2>1, MarkQueueFrame DEF MarkInv, JobsRooted, Rooted
  <2> QED BY <2>1, <2>2, MarkFrame DEF MarkInv
<1>5. CASE PopExpansion
  <2>1. UNCHANGED <<visited, ready, workVars, markVars, tested>> /\ frontier # <<>>
        /\ frontier' = Tail(frontier) /\ frontier \in Seq(Expansion)
    BY <1>5 DEF PopExpansion, TypeOK, QueueType
  <2>2. \A k \in DOMAIN frontier' : k + 1 \in DOMAIN frontier /\ k + 1 # 1
                                    /\ frontier'[k] = frontier[k + 1]
    BY <2>1
  <2>3. \A k \in DOMAIN frontier' : frontier'[k].depth # 1
    BY <2>2 DEF MarkInv, QueueShape
  <2>4. QueueShape'
    BY <2>3 DEF QueueShape
  <2>5. ~AtRoot'
    <3>1. frontier' \in Seq(Expansion)
      BY <2>1
    <3>2. frontier' # <<>> => 1 \in DOMAIN frontier'
      BY <3>1
    <3> QED BY <2>3, <3>2 DEF AtRoot
  <2>6. RootsSeen' /\ JobsRooted' /\ AnswerTested'
    BY <2>1, <2>5, MarkQueueFrame DEF MarkInv, JobsRooted, Rooted, RootsSeen
  <2> QED BY <2>1, <2>4, <2>6, MarkFrame DEF MarkInv
<1>6. CASE HitCap
  <2>1. UNCHANGED <<visited, ready, workVars, markVars, tested>> /\ frontier' = <<>>
    BY <1>6 DEF HitCap
  <2>2. QueueShape' /\ RootsSeen'
    BY <2>1 DEF QueueShape, RootsSeen, AtRoot
  <2>3. JobsRooted' /\ AnswerTested'
    BY <2>1, MarkQueueFrame DEF MarkInv, JobsRooted, Rooted
  <2> QED BY <2>1, <2>2, <2>3, MarkFrame DEF MarkInv
<1>7. CASE SkipDuplicate \/ SkipExcluded
  <2>1. /\ HasCandidate /\ Take /\ Settle(RootIndex)
        /\ UNCHANGED <<ready, workVars, tested>>
        /\ Candidate \in visited \/ Excluded(Candidate)
        /\ visited' = visited \cup {Candidate}
    BY <1>7 DEF SkipDuplicate, SkipExcluded
  <2>2. QueueShape' /\ RootsSeen'
    BY <2>1, AdvanceRoot
  <2>3. JobsRooted' /\ AnswerTested'
    BY <2>1, MarkQueueFrame DEF MarkInv, JobsRooted, Rooted
  <2>4. SettledMeaning' /\ SettledBelow' /\ watermark' >= Start
    BY <2>1, SettleCandidate
  <2> QED BY <2>2, <2>3, <2>4 DEF MarkInv
<1>8. CASE Admit
  <2>1. /\ HasCandidate /\ Take /\ visited' = visited \cup {Candidate}
        /\ UNCHANGED <<workVars, markVars, tested>>
        /\ ready' = [name |-> Candidate, depth |-> frontier[1].depth, root |-> RootIndex]
    BY <1>8 DEF Admit
  <2>2. QueueShape' /\ RootsSeen'
    BY <2>1, AdvanceRoot
  <2>3. Rooted(ready)'
    BY <2>1, RootCandidate DEF Rooted
  <2>4. frontier[1].depth >= 1
    BY <2>1, CandidateType DEF HasCandidate, Expansion
  <2>5. JobsRooted' /\ AnswerTested'
    BY <2>1, <2>3, <2>4, MarkQueueFrame
  <2> QED BY <2>1, <2>2, <2>5, MarkFrame DEF MarkInv
<1>9. ASSUME NEW w \in Worker, Dispatch(w) PROVE MarkInv'
  <2>1. /\ wpc[w] = "recv" /\ ready # NoJob /\ ready' = NoJob
        /\ wpc' = [wpc EXCEPT ![w] = "begin"] /\ wjob' = [wjob EXCEPT ![w] = ready]
        /\ UNCHANGED <<frontier, visited, wout, markVars, tested>>
    BY <1>9 DEF Dispatch
  <2>2. wpc \in [Worker -> WorkPcs] /\ wjob \in [Worker -> Jobs]
    BY DEF TypeOK, WorkType
  <2>3. JobsRooted'
    BY <2>1, <2>2 DEF MarkInv, JobsRooted, Rooted, NoJob
  <2>4. AnswerTested'
    BY <2>1, <2>2 DEF MarkInv, AnswerTested
  <2> QED BY <2>1, <2>3, <2>4, MarkQueueFrame, MarkFrame DEF MarkInv
<1>10. ASSUME NEW w \in Worker, Enqueue(w) PROVE MarkInv'
  <2>1. /\ wpc[w] = "enqueue" /\ wpc' = [wpc EXCEPT ![w] = "report"]
        /\ UNCHANGED <<visited, ready, wjob, wout, markVars, tested>>
        /\ \/ UNCHANGED frontier
           \/ frontier' = Append(frontier,
                [parent |-> wjob[w].name, depth |-> wjob[w].depth + 1, next |-> 0])
    BY <1>10 DEF Enqueue
  <2>2. wpc \in [Worker -> WorkPcs] /\ frontier \in Seq(Expansion) /\ wjob[w] \in Jobs
    BY DEF TypeOK, WorkType, QueueType
  <2>3. JobsRooted' /\ AnswerTested'
    BY <2>1, <2>2 DEF MarkInv, JobsRooted, Rooted, AnswerTested
  <2>4. wjob[w].depth + 1 # 1
    <3>1. wjob[w].depth >= 1 /\ wjob[w].depth \in Nat
      BY <2>1, <2>2 DEF MarkInv, JobsRooted, Jobs, Job, NoJob
    <3> QED BY <3>1
  <2>5. CASE UNCHANGED frontier
    BY <2>1, <2>3, <2>5, MarkQueueFrame, MarkFrame DEF MarkInv
  <2>6. CASE frontier' = Append(frontier,
               [parent |-> wjob[w].name, depth |-> wjob[w].depth + 1, next |-> 0])
    <3>1. /\ DOMAIN frontier' = 1..(Len(frontier) + 1) /\ DOMAIN frontier = 1..Len(frontier)
          /\ \A k \in DOMAIN frontier : frontier'[k] = frontier[k]
          /\ frontier'[Len(frontier) + 1].depth = wjob[w].depth + 1
          /\ Len(frontier) \in Nat
      BY <2>2, <2>6
    <3>2. \A k \in DOMAIN frontier' : frontier'[k].depth = 1 => k \in DOMAIN frontier
      BY <2>4, <3>1
    <3>3. QueueShape'
      BY <3>1, <3>2 DEF MarkInv, QueueShape
    <3>4. AtRoot' => AtRoot /\ Cursor' = Cursor
      <4>1. frontier # <<>> => 1 \in DOMAIN frontier
        BY <2>2
      <4>2. frontier = <<>> => frontier'[1].depth # 1
        BY <2>4, <3>1
      <4> QED BY <3>1, <4>1, <4>2 DEF AtRoot, Cursor
    <3>5. RootsSeen'
      BY <2>1, <3>4 DEF MarkInv, RootsSeen
    <3> QED BY <2>1, <2>3, <3>3, <3>5, MarkFrame DEF MarkInv
  <2> QED BY <2>1, <2>5, <2>6
<1>11. ASSUME NEW w \in Worker, Complete(w) PROVE MarkInv'
  <2>1. /\ wpc[w] = "report" /\ wpc' = [wpc EXCEPT ![w] = "recv"]
        /\ UNCHANGED <<frontier, visited, ready, wjob, wout, tested>>
        /\ IF Finished(w) THEN Settle(wjob[w].root) ELSE UNCHANGED markVars
    BY <1>11 DEF Complete
  <2>2. wpc \in [Worker -> WorkPcs] /\ wjob[w] \in Jobs
    BY DEF TypeOK, WorkType
  <2>3. JobsRooted' /\ AnswerTested'
    BY <2>1, <2>2 DEF MarkInv, JobsRooted, Rooted, AnswerTested
  <2>4. SettledMeaning' /\ SettledBelow' /\ watermark' >= Start
    <3>1. CASE Finished(w) /\ wjob[w].root # -1
      <4>1. wjob[w] \in tested
        BY <2>1, <3>1 DEF MarkInv, AnswerTested, Finished
      <4>2. wjob[w].root \in Start..(N - 1) /\ wjob[w].name = Entry(wjob[w].root)
        BY <3>1 DEF MarkInv, JobsRooted, Rooted
      <4>3. Answered(wjob[w].root)
        BY <4>1, <4>2 DEF Answered, TestedNames
      <4> QED BY <2>1, <3>1, <4>2, <4>3, SettleMark
    <3>2. CASE ~(Finished(w) /\ wjob[w].root # -1)
      <4>1. UNCHANGED markVars
        BY <2>1, <3>2, ConstantTypes DEF Settle
      <4> QED BY <2>1, <4>1, MarkFrame
    <3> QED BY <3>1, <3>2
  <2> QED BY <2>1, <2>3, <2>4, MarkQueueFrame DEF MarkInv
<1>12. ASSUME NEW w \in Worker, Lookup(w) PROVE MarkInv'
  <2>1. /\ wpc[w] = "lookup" /\ UNCHANGED <<dispVars, wjob>>
        /\ \E v : /\ wout' = [wout EXCEPT ![w] = v]
                  /\ \/ v = "cut" /\ wpc' = [wpc EXCEPT ![w] = "report"] /\ UNCHANGED tested
                     \/ wpc' = [wpc EXCEPT ![w] = "count"] /\ tested' = tested \cup {wjob[w]}
    BY <1>12 DEF Lookup, Goto
  <2>2. wpc \in [Worker -> WorkPcs] /\ wout \in [Worker -> Counted \cup {"cut"}]
    BY DEF TypeOK, WorkType
  <2>3. tested \subseteq tested' /\ Rooted(ready)'
    BY <2>1 DEF MarkInv, JobsRooted, Rooted
  <2>4. JobsRooted'
    BY <2>1, <2>2, <2>3 DEF MarkInv, JobsRooted, Rooted
  <2>5. AnswerTested'
    BY <2>1, <2>2 DEF MarkInv, AnswerTested
  <2> QED BY <2>1, <2>3, <2>4, <2>5, MarkQueueFrame, MarkFrame DEF MarkInv
<1>13. ASSUME NEW w \in Worker, Begin(w) \/ Exit(w) \/ GiveUp(w) PROVE MarkInv'
  <2>1. /\ UNCHANGED <<dispVars, wjob, tested>>
        /\ \/ wpc[w] = "begin" /\ wout' = [wout EXCEPT ![w] = "cut"]
              /\ wpc' = [wpc EXCEPT ![w] = "report"]
           \/ wpc[w] = "begin" /\ wpc' = [wpc EXCEPT ![w] = "lookup"] /\ UNCHANGED wout
           \/ wpc[w] = "recv" /\ wpc' = [wpc EXCEPT ![w] = "exited"] /\ UNCHANGED wout
           \/ wpc[w] = "enqueue" /\ wpc' = [wpc EXCEPT ![w] = "report"] /\ UNCHANGED wout
           \/ wpc[w] = "report" /\ wpc' = [wpc EXCEPT ![w] = "recv"] /\ UNCHANGED wout
    BY <1>13 DEF Begin, Exit, GiveUp, Goto
  <2>2. wpc \in [Worker -> WorkPcs] /\ wout \in [Worker -> Counted \cup {"cut"}]
    BY DEF TypeOK, WorkType
  <2>3. JobsRooted'
    BY <2>1, <2>2 DEF MarkInv, JobsRooted, Rooted
  <2>4. AnswerTested'
    BY <2>1, <2>2 DEF MarkInv, AnswerTested
  <2> QED BY <2>1, <2>3, <2>4, MarkQueueFrame, MarkFrame DEF MarkInv
<1>14. ASSUME NEW w \in Worker,
              \/ Count(w) \/ CheckReliability(w) \/ Trip(w) \/ CountFound(w)
              \/ SendResult(w) \/ ProbeParent(w)
       PROVE MarkInv'
  <2> DEFINE Inside == WorkPcs \ {"off", "recv", "begin", "lookup", "exited"}
  <2>1. /\ UNCHANGED <<dispVars, wjob, wout, tested>>
        /\ wpc[w] \in Inside /\ \E pc \in Inside : wpc' = [wpc EXCEPT ![w] = pc]
    BY <1>14 DEF Count, CheckReliability, Trip, CountFound, SendResult, ProbeParent, Goto,
       AfterGuard, AfterResult, WorkPcs
  <2>2. wpc \in [Worker -> WorkPcs]
    BY DEF TypeOK, WorkType
  <2>3. JobsRooted'
    BY <2>1, <2>2 DEF MarkInv, JobsRooted, Rooted
  <2>4. AnswerTested'
    BY <2>1, <2>2 DEF MarkInv, AnswerTested
  <2> QED BY <2>1, <2>3, <2>4, MarkQueueFrame, MarkFrame DEF MarkInv
<1>15. CASE UNCHANGED vars
  BY <1>0, <1>15 DEF vars
<1> QED
  BY <1>1, <1>2, <1>3, <1>4, <1>5, <1>6, <1>7, <1>8, <1>9, <1>10, <1>11, <1>12,
     <1>13, <1>14, <1>15 DEF Next, Main, Dispatcher, Work, Meet, Returned

(* Whatever becomes of a scan, its events end with one EventDone, which the    *)
(* front ends wait for (#99).                                                  *)
THEOREM FinalEventOnce == Spec => FinalEvent
BY ExactlyOneDone, NothingAfterDone, PTL DEF FinalEvent

(* The resume point a scan reports passes no entry that was neither looked up  *)
(* to an answer nor out of scope: at Stats.RootDone nothing below is lost,     *)
(* for every wordlist, number of workers, cap and moment of cancellation.      *)
THEOREM ResumePointSound == Spec => []WatermarkSound
<1>1. Init => MarkInv
  BY MarkInit
<1>2. TypeOK /\ TypeOK' /\ MarkInv /\ [Next]_vars => MarkInv'
  BY MarkStep
<1>3. TypeOK /\ MarkInv => WatermarkSound
  BY MarkInvSound
<1> QED BY <1>1, <1>2, <1>3, TypeCorrect, PTL DEF Spec

-----------------------------------------------------------------------------
(***************************************************************************)
(* What the engine's counters say: the dispatcher's pending count, the     *)
(* query cap, and the totals of the final event.                           *)
(***************************************************************************)
(* The pending count.  Every job between the dispatcher and its completion is  *)
(* in the hands of one worker.                                                 *)

(* Before Spawn nothing is pending. *)
NothingPending == disp = "off" => pending = 0

PendingInv == NothingPending /\ PendingExact

LEMMA WorkersFinite ==
  ASSUME NEW S \in SUBSET Worker
  PROVE  IsFiniteSet(S) /\ Cardinality(S) \in Nat
BY ScanAssumption, FS_Subset, FS_CardinalityType DEF ScanAssumption

(* One worker more, or one less, at some place. *)
LEMMA OneWorkerMore ==
  ASSUME NEW S \in SUBSET Worker, NEW w \in Worker, w \notin S
  PROVE  Cardinality(S \cup {w}) = Cardinality(S) + 1
BY WorkersFinite, FS_AddElement

LEMMA OneWorkerLess ==
  ASSUME NEW S \in SUBSET Worker, NEW w \in S
  PROVE  Cardinality(S \ {w}) = Cardinality(S) - 1
BY WorkersFinite, FS_RemoveElement

LEMMA PendingInit == Init => PendingInv
BY DEF Init, PendingInv, NothingPending, PendingExact

LEMMA PendingStep == TypeOK /\ ShutdownInv /\ PendingInv /\ [Next]_vars => PendingInv'
<1> SUFFICES ASSUME TypeOK, ShutdownInv, PendingInv, [Next]_vars PROVE PendingInv'
  OBVIOUS
<1> USE DEF argVars, ctlVars, genVars, lossVars, markVars, dispVars, workVars, sumVars,
            stopVars, tickVars, outVars, poolVars, restVars, workEnv
<1> USE DEF PendingInv, NothingPending, PendingExact
<1>1. /\ wpc \in [Worker -> WorkPcs] /\ pending \in Int
      /\ Busy \in SUBSET Worker /\ Cardinality(Busy) \in Nat
  BY WorkersFinite DEF TypeOK, WorkType, QueueType, Busy
<1>2. ASSUME UNCHANGED <<disp, pending, wpc>>, cancelled => cancelled' PROVE PendingInv'
  BY <1>2 DEF Busy
<1>3. CASE Cancel \/ CheckScope \/ CheckCeiling \/ Preflight \/ DetectWildcard
  BY <1>2, <1>3 DEF Cancel, CheckScope, CheckCeiling, Preflight, DetectWildcard
<1>4. CASE JoinWorkers \/ SendDone \/ Close \/ Ticker
  BY <1>2, <1>4 DEF JoinWorkers, SendDone, Close, Ticker, Tick, LoadTick, SendProgress,
     StopTicker
<1>5. CASE Spawn
  <2>1. pending' = 0 /\ disp' = "next"
    BY <1>5 DEF Spawn, ShutdownInv, NobodyBeforeSpawn, NotSpawned
  <2>2. Busy' = {}
    BY <1>5 DEF Spawn, Busy
  <2> QED BY <2>1, <2>2, FS_EmptySet
<1>6. CASE Dispatcher
  <2>1. /\ UNCHANGED <<pending, wpc, cancelled>> /\ disp \in {"next", "select", "closing"}
        /\ disp' # "off" /\ (disp = "closing" => disp' = "closed")
    BY <1>6 DEF Dispatcher, PopExpansion, HitCap, SkipDuplicate, SkipExcluded, Admit,
       NoneLeft, BeginClose, CloseJobs, HasCandidate
  <2>2. Busy' = Busy
    BY <2>1 DEF Busy
  <2> QED BY <2>1, <2>2
<1>7. ASSUME NEW w \in Worker, Dispatch(w) PROVE PendingInv'
  <2>1. /\ disp = "select" /\ disp' = "next" /\ pending' = pending + 1
        /\ wpc[w] = "recv" /\ wpc' = [wpc EXCEPT ![w] = "begin"] /\ UNCHANGED cancelled
    BY <1>7 DEF Dispatch, InSelect
  <2>2. w \notin Busy /\ Busy' = Busy \cup {w}
    BY <1>1, <2>1 DEF Busy
  <2> QED BY <1>1, <2>1, <2>2, OneWorkerMore
<1>8. ASSUME NEW w \in Worker, Enqueue(w) PROVE PendingInv'
  <2>1. /\ disp = "select" /\ disp' \in {"next", "select"} /\ UNCHANGED <<pending, cancelled>>
        /\ wpc[w] = "enqueue" /\ wpc' = [wpc EXCEPT ![w] = "report"]
    BY <1>8 DEF Enqueue, InSelect, Resume
  <2>2. Busy' = Busy
    BY <1>1, <2>1 DEF Busy
  <2> QED BY <2>1, <2>2
<1>9. ASSUME NEW w \in Worker, Complete(w) PROVE PendingInv'
  <2>1. /\ disp = "select" /\ disp' \in {"next", "select"} /\ pending' = pending - 1
        /\ wpc[w] = "report" /\ wpc' = [wpc EXCEPT ![w] = "recv"] /\ UNCHANGED cancelled
    BY <1>9 DEF Complete, InSelect, Resume
  <2>2. w \in Busy /\ Busy' = Busy \ {w}
    BY <1>1, <2>1 DEF Busy
  <2> QED BY <1>1, <2>1, <2>2, OneWorkerLess
<1>10. ASSUME NEW w \in Worker, GiveUp(w) PROVE PendingInv'
  <2>1. /\ UNCHANGED <<disp, pending, cancelled>> /\ cancelled
        /\ \/ wpc[w] = "enqueue" /\ wpc' = [wpc EXCEPT ![w] = "report"]
           \/ wpc[w] = "report" /\ wpc' = [wpc EXCEPT ![w] = "recv"]
    BY <1>10 DEF GiveUp, Goto
  <2>2. Busy' = Busy \/ (w \in Busy /\ Busy' = Busy \ {w})
    BY <1>1, <2>1 DEF Busy
  <2> QED BY <1>1, <2>1, <2>2, OneWorkerLess
<1>11. ASSUME NEW w \in Worker, Exit(w) PROVE PendingInv'
  BY <1>11 DEF Exit, Goto
<1>12. ASSUME NEW w \in Worker,
              \/ Begin(w) \/ Lookup(w) \/ Count(w) \/ CheckReliability(w) \/ Trip(w)
              \/ CountFound(w) \/ SendResult(w) \/ ProbeParent(w)
       PROVE PendingInv'
  <2> DEFINE Hands == WorkPcs \ {"off", "recv", "exited"}
  <2>1. /\ UNCHANGED <<disp, pending>> /\ (cancelled => cancelled')
        /\ wpc[w] \in Hands /\ \E pc \in Hands : wpc' = [wpc EXCEPT ![w] = pc]
    <3>1. CASE Begin(w)
      BY <3>1 DEF Begin, Goto, WorkPcs
    <3>2. CASE Lookup(w)
      BY <3>2 DEF Lookup, Goto, WorkPcs
    <3>3. CASE CheckReliability(w)
      BY <3>3 DEF CheckReliability, Goto, AfterGuard, WorkPcs
    <3>5. CASE Trip(w)
      BY <3>5 DEF Trip, Goto, AfterGuard, WorkPcs, TypeOK, CtlType
    <3>4. CASE Count(w) \/ CountFound(w) \/ SendResult(w) \/ ProbeParent(w)
      BY <3>4 DEF Count, CountFound, SendResult, ProbeParent, Goto, AfterResult, WorkPcs
    <3> QED BY <1>12, <3>1, <3>2, <3>3, <3>4, <3>5
  <2>2. Busy' = Busy
    BY <1>1, <2>1 DEF Busy
  <2> QED BY <2>1, <2>2
<1>13. CASE UNCHANGED vars
  BY <1>2, <1>13 DEF vars
<1> QED
  BY <1>3, <1>4, <1>5, <1>6, <1>7, <1>8, <1>9, <1>10, <1>11, <1>12, <1>13
  DEF Next, Main, Work, Meet, Returned, vars

(* The dispatcher closes jobs only when no worker holds one, unless the scan   *)
(* was cancelled: pending counts the jobs in the workers' hands, whatever the  *)
(* number of workers and the order they finish in.                             *)
THEOREM PendingIsExact == Spec => []PendingExact
<1>1. Init => ShutdownInv /\ PendingInv
  BY ShutdownInit, PendingInit
<1>2. TypeOK /\ (ShutdownInv /\ PendingInv) /\ [Next]_vars => (ShutdownInv /\ PendingInv)'
  BY ShutdownStep, PendingStep
<1>3. PendingInv => PendingExact
  BY DEF PendingInv
<1> QED BY <1>1, <1>2, <1>3, TypeCorrect, PTL DEF Spec

-----------------------------------------------------------------------------
(* The query cap.  Skipping starts when the budget is used up and the queue is *)
(* emptied, and only the dispatcher, on its way out, announces it.             *)

CapNotice == <<"cap", <<>>>> \in notices

BudgetKept == MaxQueries > 0 => admitted <= MaxQueries
CappedSpent == capped => frontier = <<>> /\ admitted = MaxQueries
SkipsCapped == skipped # 0 => capped
NoticeHonest == CapNotice => disp = "closed" /\ skipped > 0
NoticeGiven == disp = "closed" /\ ~cancelled /\ skipped > 0 => CapNotice
EndAfterClose == main \in Over /\ ~done[1].stopped => disp = "closed"

(* The inductive invariant of the cap. *)
CapInv ==
  /\ BudgetKept /\ CappedSpent /\ SkipsCapped
  /\ NoticeHonest /\ NoticeGiven /\ EndAfterClose

LEMMA CapInit == Init => CapInv
BY ScanAssumption DEF ScanAssumption, Init, CapInv, BudgetKept, CappedSpent, SkipsCapped,
   NoticeHonest, NoticeGiven, EndAfterClose, CapNotice, Over

LEMMA CapStep == TypeOK /\ ShutdownInv /\ CapInv /\ [Next]_vars => CapInv'
<1> SUFFICES ASSUME TypeOK, ShutdownInv, CapInv, [Next]_vars PROVE CapInv'
  OBVIOUS
<1> USE DEF argVars, ctlVars, genVars, lossVars, markVars, dispVars, workVars, sumVars,
            stopVars, tickVars, outVars, poolVars, restVars, workEnv
<1> USE DEF CapInv, BudgetKept, CappedSpent, SkipsCapped, NoticeHonest, NoticeGiven,
            EndAfterClose, CapNotice
<1>1. admitted \in Nat /\ skipped \in Int /\ MaxQueries \in Nat /\ cancelled \in BOOLEAN
  BY ScanAssumption DEF ScanAssumption, TypeOK, QueueType, CtlType
<1>2. main \in Over => disp \in {"off", "closed"}
  BY DEF ShutdownInv, NobodyOutlivesRun, Over
<1>3. ASSUME UNCHANGED <<genVars, skipped, disp, main, done>>, cancelled => cancelled',
             CapNotice' = CapNotice
      PROVE  CapInv'
  BY <1>3
<1>4. ASSUME UNCHANGED <<genVars, skipped, disp>>, disp = "off", CapNotice' = CapNotice,
             main' \notin Over
      PROVE  CapInv'
  BY <1>4
<1>5. CASE CheckScope \/ CheckCeiling \/ Preflight \/ DetectWildcard
  <2>1. disp = "off" /\ UNCHANGED <<genVars, skipped, disp>> /\ main' \notin Over
    BY <1>5 DEF CheckScope, CheckCeiling, Preflight, DetectWildcard, Refuse, GoOn, Over,
       ShutdownInv, NobodyBeforeSpawn, NotSpawned
  <2>2. CapNotice' = CapNotice
    <3>1. notices' \subseteq notices \cup {<<"ceiling", <<>>>>, <<"wildcard", <<>>>>}
          /\ notices \subseteq notices'
      BY <1>5 DEF CheckScope, CheckCeiling, Preflight, DetectWildcard, Refuse, GoOn
    <3> QED BY <3>1
  <2> QED BY <1>4, <2>1, <2>2
<1>6. CASE Spawn
  <2>1. disp = "off" /\ disp' = "next" /\ main' \notin Over
        /\ UNCHANGED <<genVars, skipped, notices>>
    BY <1>6 DEF Spawn, Over, ShutdownInv, NobodyBeforeSpawn, NotSpawned
  <2> QED BY <2>1
<1>7. CASE JoinWorkers
  BY <1>7 DEF JoinWorkers, Over
<1>8. CASE SendDone
  <2>1. UNCHANGED <<genVars, skipped, disp, cancelled, notices>> /\ done = <<>>
    BY <1>8 DEF SendDone, ShutdownInv, DoneAtEnd, Over
  <2>2. CASE main = "joinTicker"
    <3>1. PICK w \in Worker : wpc[w] = "exited"
      BY <2>2, ScanAssumption DEF ScanAssumption, ShutdownInv, AllJoined, AllExited
    <3>2. disp = "closed"
      BY <3>1 DEF ShutdownInv, ExitAfterClose
    <3> QED BY <2>1, <3>2
  <2>3. CASE main = "stopped"
    <3>1. done' = <<StoppedEvent>>
      BY <1>8, <2>1, <2>3 DEF SendDone
    <3>2. done'[1].stopped
      BY <3>1 DEF StoppedEvent
    <3> QED BY <2>1, <3>2
  <2> QED BY <1>8, <2>2, <2>3 DEF SendDone
<1>9. CASE Close
  BY <1>9 DEF Close, Over
<1>10. CASE Cancel
  BY <1>10, <1>3 DEF Cancel
<1>11. CASE Ticker
  BY <1>11, <1>3 DEF Ticker, Tick, LoadTick, SendProgress, StopTicker
<1>12. CASE PopExpansion \/ SkipDuplicate \/ SkipExcluded \/ NoneLeft \/ BeginClose
  <2>1. main \notin Over /\ UNCHANGED main
    BY <1>2, <1>12 DEF PopExpansion, SkipDuplicate,
       SkipExcluded, NoneLeft, BeginClose, HasCandidate
  <2>2. disp' # "closed" /\ disp # "closed" /\ UNCHANGED <<admitted, capped, skipped, notices>>
    BY <1>12 DEF PopExpansion, SkipDuplicate, SkipExcluded, NoneLeft, BeginClose,
       HasCandidate
  <2>3. frontier = <<>> => UNCHANGED frontier
    BY <1>12 DEF PopExpansion, SkipDuplicate, SkipExcluded, NoneLeft, BeginClose,
       HasCandidate
  <2> QED BY <2>1, <2>2, <2>3
<1>13. CASE HitCap
  <2>1. main \notin Over /\ UNCHANGED main
    BY <1>2, <1>13 DEF HitCap, HasCandidate
  <2>2. /\ disp = "next" /\ frontier' = <<>> /\ capped' = TRUE
        /\ UNCHANGED <<disp, admitted, notices>> /\ MaxQueries > 0 /\ admitted >= MaxQueries
    BY <1>13 DEF HitCap, HasCandidate, CapReached
  <2> QED BY <1>1, <2>1, <2>2
<1>14. CASE Admit
  <2>1. main \notin Over /\ UNCHANGED main
    BY <1>2, <1>14 DEF Admit, HasCandidate
  <2>2. /\ disp' = "select" /\ disp = "next" /\ frontier # <<>>
        /\ admitted' = admitted + 1 /\ ~(MaxQueries > 0 /\ admitted >= MaxQueries)
        /\ UNCHANGED <<skipped, capped, notices>>
    BY <1>14 DEF Admit, HasCandidate, CapReached
  <2> QED BY <1>1, <2>1, <2>2
<1>15. CASE CloseJobs
  <2>1. main \notin Over /\ UNCHANGED main
    BY <1>2, <1>15 DEF CloseJobs
  <2>2. /\ disp = "closing" /\ disp' = "closed" /\ UNCHANGED <<genVars, skipped, cancelled>>
        /\ \/ skipped > 0 /\ notices' = notices \cup {<<"cap", <<>>>>}
           \/ (skipped = 0 \/ cancelled) /\ UNCHANGED notices
    BY <1>15 DEF CloseJobs, NoticeUnneeded
  <2> QED BY <1>1, <2>1, <2>2
<1>16. ASSUME NEW w \in Worker, Dispatch(w) \/ Complete(w) PROVE CapInv'
  <2>1. main \notin Over /\ UNCHANGED main
    BY <1>2, <1>16 DEF Dispatch, Complete, InSelect
  <2>2. disp = "select" /\ disp' \in {"next", "select"} /\ UNCHANGED <<genVars, skipped, notices>>
    BY <1>16 DEF Dispatch, Complete, InSelect, Resume
  <2> QED BY <2>1, <2>2
<1>17. ASSUME NEW w \in Worker, Enqueue(w) PROVE CapInv'
  <2>1. main \notin Over /\ UNCHANGED main
    BY <1>2, <1>17 DEF Enqueue, InSelect
  <2>2. /\ disp = "select" /\ disp' \in {"next", "select"}
        /\ UNCHANGED <<admitted, capped, notices>>
        /\ IF capped THEN UNCHANGED frontier ELSE UNCHANGED skipped
    BY <1>17 DEF Enqueue, InSelect, Resume
  <2> QED BY <2>1, <2>2
<1>18. ASSUME NEW w \in Worker, Work(w) PROVE CapInv'
  <2>1. UNCHANGED <<genVars, skipped, disp, main, done>>
    BY <1>18 DEF Work, Exit, Begin, Lookup, Count, CheckReliability, Trip, CountFound,
       SendResult, ProbeParent, GiveUp
  <2>2. cancelled => cancelled'
    BY <1>1, <1>18 DEF Work, Exit, Begin, Lookup, Count, CheckReliability, Trip, CountFound,
       SendResult, ProbeParent, GiveUp
  <2>3. CapNotice' = CapNotice
    <3>1. UNCHANGED notices \/ notices' = notices \cup {<<"skip", wjob[w].name>>}
      BY <1>18 DEF Work, Exit, Begin, Lookup, Count, CheckReliability, Trip, CountFound,
         SendResult, ProbeParent, GiveUp
    <3> QED BY <3>1
  <2> QED BY <1>3, <2>1, <2>2, <2>3
<1>19. CASE UNCHANGED vars
  BY <1>3, <1>19 DEF vars
<1> QED
  BY <1>5, <1>6, <1>7, <1>8, <1>9, <1>10, <1>11, <1>12, <1>13, <1>14, <1>15, <1>16, <1>17,
     <1>18, <1>19 DEF Next, Main, Dispatcher, Meet, Returned

(* A cap is never silent: when a scan ends uncancelled the cap was announced   *)
(* exactly if candidates were skipped, and only a scan that used up its whole  *)
(* query budget skips any.                                                     *)
THEOREM CapIsAnnounced == Spec => []CapAnnounced
<1>1. Init => ShutdownInv /\ CapInv
  BY ShutdownInit, CapInit
<1>2. TypeOK /\ (ShutdownInv /\ CapInv) /\ [Next]_vars => (ShutdownInv /\ CapInv)'
  BY ShutdownStep, CapStep
<1>3. TypeOK /\ ShutdownInv /\ CapInv => CapAnnounced
  BY DEF TypeOK, QueueType, CapInv, CappedSpent, SkipsCapped, NoticeHonest, NoticeGiven,
     EndAfterClose, CapNotice, CapAnnounced, Over
<1> QED BY <1>1, <1>2, <1>3, TypeCorrect, PTL DEF Spec

-----------------------------------------------------------------------------
(* The totals.  A name is generated once, handed to one worker and looked up   *)
(* by it, so outcomes, names and results are the same count taken at different *)
(* moments; a total lags by the workers that still have to add to it.          *)

Waiting(w) == wpc[w] \in {"begin", "lookup"}
Fresh(job) == job.name \in visited /\ \A t \in tested : t.name # job.name

NamesOnce ==
  /\ \A t \in tested : t.name \in visited
  /\ ready # NoJob => Fresh(ready)
  /\ \A w \in Worker : Waiting(w) =>
       Fresh(wjob[w]) /\ (ready # NoJob => wjob[w].name # ready.name)
  /\ \A v, w \in Worker : Waiting(v) /\ Waiting(w) /\ v # w => wjob[v].name # wjob[w].name

(* A hit that a worker still has to send. *)
Unsent(w) == wpc[w] \in HitPcs /\ wout[w] = "found"

ResultsOnce ==
  /\ \A w \in Worker : wpc[w] \in {"found", "result"} => wout[w] = "found"
  /\ \A w \in Worker : Unsent(w) => wjob[w].name \in TestedNames \ results
  /\ \A v, w \in Worker : Unsent(v) /\ Unsent(w) /\ v # w => wjob[v].name # wjob[w].name
  /\ results \subseteq TestedNames

NothingYet ==
  disp = "off" => tested = {} /\ results = {} /\ \A w \in Worker : wpc[w] = "off"

LEMMA NamesInit == Init => NamesOnce /\ ResultsOnce /\ NothingYet
BY DEF Init, NamesOnce, ResultsOnce, NothingYet, Waiting, Unsent, HitPcs

(* A step inside a worker moves it from one place to another, and only the end *)
(* of a lookup and the sending of a result touch the sets of names.            *)
LEMMA NamesFrame ==
  ASSUME TypeOK, NamesOnce, ResultsOnce, NEW w \in Worker, NEW pc \in WorkPcs,
         wpc' = [wpc EXCEPT ![w] = pc], UNCHANGED <<visited, ready, wjob, wout, tested, results>>,
         pc \in {"begin", "lookup"} => Waiting(w),
         pc \in HitPcs => wpc[w] \in HitPcs,
         pc \in {"found", "result"} => wout[w] = "found"
  PROVE  NamesOnce' /\ ResultsOnce'
<1>1. \A v \in Worker : wpc'[v] = IF v = w THEN pc ELSE wpc[v]
  BY DEF TypeOK, WorkType
<1>2. NamesOnce'
  BY <1>1 DEF NamesOnce, Fresh, Waiting
<1>3. ResultsOnce'
  BY <1>1 DEF ResultsOnce, Unsent, TestedNames
<1> QED BY <1>2, <1>3

LEMMA NamesStep ==
  TypeOK /\ ShutdownInv /\ NamesOnce /\ ResultsOnce /\ NothingYet /\ [Next]_vars
    => NamesOnce' /\ ResultsOnce' /\ NothingYet'
<1> SUFFICES ASSUME TypeOK, ShutdownInv, NamesOnce, ResultsOnce, NothingYet, [Next]_vars
             PROVE  NamesOnce' /\ ResultsOnce' /\ NothingYet'
  OBVIOUS
<1> USE DEF argVars, ctlVars, genVars, lossVars, markVars, dispVars, workVars, sumVars,
            stopVars, tickVars, outVars, poolVars, restVars, workEnv
<1>0. wpc \in [Worker -> WorkPcs] /\ wjob \in [Worker -> Jobs]
      /\ wout \in [Worker -> Counted \cup {"cut"}]
  BY DEF TypeOK, WorkType
<1>1. ASSUME UNCHANGED <<visited, ready, wpc, wjob, wout, tested, results>>
      PROVE  NamesOnce' /\ ResultsOnce'
  BY <1>1 DEF NamesOnce, ResultsOnce, Fresh, Waiting, Unsent, TestedNames
<1>2. CASE \/ Cancel \/ CheckScope \/ CheckCeiling \/ Preflight \/ DetectWildcard
           \/ JoinWorkers \/ SendDone \/ Close \/ Ticker
  <2>1. UNCHANGED <<visited, ready, wpc, wjob, wout, tested, results, disp>>
    BY <1>2 DEF Cancel, CheckScope, CheckCeiling, Preflight, DetectWildcard, JoinWorkers,
       SendDone, Close, Ticker, Tick, LoadTick, SendProgress, StopTicker
  <2> QED BY <1>1, <2>1 DEF NothingYet
<1>3. CASE Spawn
  <2>1. /\ UNCHANGED <<visited, ready, wjob, wout, tested, results>> /\ disp' = "next"
        /\ \A w \in Worker : wpc'[w] = "recv"
    BY <1>3 DEF Spawn
  <2> QED BY <2>1 DEF NamesOnce, ResultsOnce, NothingYet, Fresh, Waiting, Unsent, HitPcs,
     TestedNames
<1>4. CASE \/ PopExpansion \/ HitCap \/ SkipDuplicate \/ NoneLeft \/ BeginClose \/ CloseJobs
  <2>1. UNCHANGED <<visited, ready, wpc, wjob, wout, tested, results>> /\ disp' # "off"
    BY <1>4 DEF PopExpansion, HitCap, SkipDuplicate, NoneLeft, BeginClose, CloseJobs,
       HasCandidate
  <2> QED BY <1>1, <2>1 DEF NothingYet
<1>5. CASE SkipExcluded
  <2>1. /\ UNCHANGED <<ready, wpc, wjob, wout, tested, results>> /\ disp' # "off"
        /\ visited \subseteq visited'
    BY <1>5 DEF SkipExcluded, HasCandidate
  <2> QED BY <2>1 DEF NamesOnce, ResultsOnce, NothingYet, Fresh, Waiting, Unsent, TestedNames
<1>6. CASE Admit
  <2>1. /\ UNCHANGED <<wpc, wjob, wout, tested, results>> /\ disp' # "off"
        /\ Candidate \notin visited /\ visited' = visited \cup {Candidate}
        /\ ready'.name = Candidate
    BY <1>6 DEF Admit, HasCandidate
  <2>2. NamesOnce'
    BY <2>1 DEF NamesOnce, Fresh, Waiting
  <2> QED BY <2>1, <2>2 DEF ResultsOnce, NothingYet, Unsent, TestedNames
<1>7. ASSUME NEW w \in Worker, Dispatch(w)
      PROVE  NamesOnce' /\ ResultsOnce' /\ NothingYet'
  <2>1. /\ UNCHANGED <<visited, wout, tested, results>> /\ disp' # "off"
        /\ ready # NoJob /\ ready' = NoJob /\ wpc[w] = "recv"
    BY <1>7 DEF Dispatch
  <2>2. \A v \in Worker : /\ wjob'[v] = IF v = w THEN ready ELSE wjob[v]
                          /\ wpc'[v] = IF v = w THEN "begin" ELSE wpc[v]
    BY <1>0, <1>7 DEF Dispatch
  <2>3. NamesOnce'
    BY <2>1, <2>2 DEF NamesOnce, Fresh, Waiting
  <2>4. ResultsOnce'
    BY <2>1, <2>2 DEF ResultsOnce, Unsent, TestedNames, HitPcs
  <2> QED BY <2>1, <2>3, <2>4 DEF NothingYet
<1>8. ASSUME NEW w \in Worker, Enqueue(w) \/ Complete(w) \/ Exit(w) \/ GiveUp(w)
      PROVE  NamesOnce' /\ ResultsOnce' /\ NothingYet'
  <2>1. /\ UNCHANGED <<visited, ready, wjob, wout, tested, results>>
        /\ disp' # "off" \/ UNCHANGED disp
        /\ wpc[w] # "off"
        /\ \E pc \in {"report", "recv", "exited"} : wpc' = [wpc EXCEPT ![w] = pc]
    BY <1>8 DEF Enqueue, Complete, Exit, GiveUp, Goto, Resume
  <2>2. NamesOnce' /\ ResultsOnce'
    BY <2>1, NamesFrame DEF HitPcs, WorkPcs
  <2> QED BY <2>1, <2>2 DEF NothingYet
<1>9. ASSUME NEW w \in Worker, Begin(w)
      PROVE  NamesOnce' /\ ResultsOnce' /\ NothingYet'
  <2>1. /\ UNCHANGED <<visited, ready, wjob, tested, results, disp>> /\ wpc[w] = "begin"
        /\ \E pc \in {"report", "lookup"} : wpc' = [wpc EXCEPT ![w] = pc]
        /\ UNCHANGED wout \/ wout' = [wout EXCEPT ![w] = "cut"]
    BY <1>9 DEF Begin, Goto
  <2>2. \A v \in Worker : v # w => wpc'[v] = wpc[v] /\ wout'[v] = wout[v]
    BY <1>0, <2>1
  <2>3. wpc'[w] \in {"report", "lookup"}
    BY <1>0, <2>1
  <2>4. NamesOnce'
    BY <2>1, <2>2, <2>3 DEF NamesOnce, Fresh, Waiting
  <2>5. ResultsOnce'
    BY <2>1, <2>2, <2>3 DEF ResultsOnce, Unsent, TestedNames, HitPcs
  <2> QED BY <2>1, <2>4, <2>5 DEF NothingYet
<1>10. ASSUME NEW w \in Worker, Lookup(w)
       PROVE  NamesOnce' /\ ResultsOnce' /\ NothingYet'
  <2>1. /\ UNCHANGED <<visited, ready, wjob, results, disp>> /\ wpc[w] = "lookup"
        /\ \E v : wout' = [wout EXCEPT ![w] = v]
        /\ \/ wpc' = [wpc EXCEPT ![w] = "report"] /\ UNCHANGED tested
           \/ wpc' = [wpc EXCEPT ![w] = "count"] /\ tested' = tested \cup {wjob[w]}
    BY <1>10 DEF Lookup, Goto
  <2>2. \A v \in Worker : v # w => wpc'[v] = wpc[v] /\ wout'[v] = wout[v]
    BY <1>0, <2>1
  <2>3. Waiting(w) /\ Fresh(wjob[w]) /\ disp # "off"
    BY <2>1 DEF Waiting, NamesOnce, NothingYet
  <2>4. CASE wpc' = [wpc EXCEPT ![w] = "report"] /\ UNCHANGED tested
    <3>1. wpc'[w] = "report"
      BY <1>0, <2>4
    <3>2. NamesOnce'
      BY <2>1, <2>2, <2>4, <3>1 DEF NamesOnce, Fresh, Waiting
    <3>3. ResultsOnce'
      BY <2>1, <2>2, <2>4, <3>1 DEF ResultsOnce, Unsent, TestedNames, HitPcs
    <3> QED BY <2>1, <2>3, <3>2, <3>3 DEF NothingYet
  <2>5. CASE wpc' = [wpc EXCEPT ![w] = "count"] /\ tested' = tested \cup {wjob[w]}
    <3>1. wpc'[w] = "count" /\ TestedNames' = TestedNames \cup {wjob[w].name}
      BY <1>0, <2>5 DEF TestedNames
    <3>2. NamesOnce'
      BY <2>1, <2>2, <2>3, <2>5, <3>1 DEF NamesOnce, Fresh, Waiting
    <3>3. wjob[w].name \notin TestedNames
      BY <2>3 DEF Fresh, TestedNames
    <3>4. ResultsOnce'
      <4>1. \A v \in Worker : v # w => (Unsent(v)' <=> Unsent(v)) /\ wjob'[v] = wjob[v]
        BY <2>1, <2>2 DEF Unsent
      <4>2. \A v \in Worker : v # w /\ Unsent(v) => wjob[v].name # wjob[w].name
        BY <3>3 DEF ResultsOnce
      <4>3. \A v \in Worker : wpc'[v] \in {"found", "result"} => wout'[v] = "found"
        BY <2>2, <3>1 DEF ResultsOnce
      <4>4. \A v \in Worker : Unsent(v)' => wjob'[v].name \in TestedNames' \ results'
        BY <2>1, <3>1, <3>3, <4>1 DEF ResultsOnce
      <4>5. \A u, v \in Worker : Unsent(u)' /\ Unsent(v)' /\ u # v
                                 => wjob'[u].name # wjob'[v].name
        BY <2>1, <4>1, <4>2 DEF ResultsOnce
      <4> QED BY <2>1, <3>1, <4>3, <4>4, <4>5 DEF ResultsOnce
    <3> QED BY <2>1, <2>3, <3>2, <3>4 DEF NothingYet
  <2> QED BY <2>1, <2>4, <2>5
<1>11. ASSUME NEW w \in Worker,
              Count(w) \/ CheckReliability(w) \/ Trip(w) \/ CountFound(w) \/ ProbeParent(w)
       PROVE  NamesOnce' /\ ResultsOnce' /\ NothingYet'
  <2>1. UNCHANGED <<visited, ready, wjob, wout, tested, results, disp>> /\ wpc[w] # "off"
    BY <1>11 DEF Count, CheckReliability, Trip, CountFound, ProbeParent
  <2>2. PICK pc \in WorkPcs : /\ wpc' = [wpc EXCEPT ![w] = pc]
                              /\ pc \notin {"begin", "lookup"}
                              /\ pc \in HitPcs => wpc[w] \in HitPcs
                              /\ pc \in {"found", "result"} => wout[w] = "found"
    <3>1. CASE CheckReliability(w) \/ Trip(w)
      BY <3>1 DEF CheckReliability, Trip, Goto, AfterGuard, WorkPcs, HitPcs
    <3>2. CASE Count(w) \/ ProbeParent(w)
      BY <3>2 DEF Count, ProbeParent, Goto, WorkPcs, HitPcs
    <3>3. CASE CountFound(w)
      BY <3>3 DEF CountFound, Goto, WorkPcs, HitPcs, ResultsOnce
    <3> QED BY <1>11, <3>1, <3>2, <3>3
  <2>3. NamesOnce' /\ ResultsOnce'
    BY <2>1, <2>2, NamesFrame
  <2>4. NothingYet'
    BY <2>1 DEF NothingYet
  <2> QED BY <2>3, <2>4
<1>12. ASSUME NEW w \in Worker, SendResult(w)
       PROVE  NamesOnce' /\ ResultsOnce' /\ NothingYet'
  <2>1. /\ UNCHANGED <<visited, ready, wjob, wout, tested, disp>>
        /\ wpc[w] = "result" /\ results' = results \cup {wjob[w].name}
        /\ \E pc \in {"report", "enqueue", "probe"} : wpc' = [wpc EXCEPT ![w] = pc]
    BY <1>12 DEF SendResult, Goto, AfterResult
  <2>2. /\ \A v \in Worker : v # w => wpc'[v] = wpc[v]
        /\ wpc'[w] \in {"report", "enqueue", "probe"}
    BY <1>0, <2>1
  <2>3. Unsent(w) /\ ~Unsent(w)'
    BY <2>1, <2>2 DEF ResultsOnce, Unsent, HitPcs
  <2>4. NamesOnce'
    BY <2>1, <2>2 DEF NamesOnce, Fresh, Waiting
  <2>5. \A v \in Worker : Unsent(v)' => v # w /\ Unsent(v)
    BY <2>1, <2>2, <2>3 DEF Unsent
  <2>6. ResultsOnce'
    BY <2>1, <2>2, <2>3, <2>5 DEF ResultsOnce, TestedNames
  <2> QED BY <2>1, <2>4, <2>6 DEF NothingYet
<1>13. CASE UNCHANGED vars
  BY <1>1, <1>13 DEF vars, NothingYet
<1> QED
  BY <1>2, <1>3, <1>4, <1>5, <1>6, <1>7, <1>8, <1>9, <1>10, <1>11, <1>12, <1>13
  DEF Next, Main, Dispatcher, Work, Meet, Returned

(* The workers that have still to count their outcome as processed, to count   *)
(* their hit as found, and to send it.                                         *)
Uncounted == {w \in Worker : wpc[w] = "count"}
Unfound == {w \in Worker : wpc[w] \in {"count", "guard", "trip", "found"} /\ wout[w] = "found"}
Sending == {w \in Worker : wpc[w] = "result"}

Tally ==
  /\ StatsSum = Cardinality(tested)
  /\ Cardinality(TestedNames) = Cardinality(tested)
  /\ processed + Cardinality(Uncounted) = StatsSum
  /\ found + Cardinality(Unfound) = stats["found"]
  /\ Cardinality(results) + Cardinality(Sending) = found

TallyInv ==
  Tally /\ IsFiniteSet(tested) /\ IsFiniteSet(TestedNames) /\ IsFiniteSet(results)

LEMMA TallyInit == Init => TallyInv
<1> SUFFICES ASSUME Init PROVE TallyInv
  OBVIOUS
<1>1. /\ tested = {} /\ TestedNames = {} /\ results = {}
      /\ Uncounted = {} /\ Unfound = {} /\ Sending = {}
  BY DEF Init, TestedNames, Uncounted, Unfound, Sending
<1>2. processed = 0 /\ found = 0 /\ StatsSum = 0 /\ stats["found"] = 0
  BY DEF Init, StatsSum, Counted
<1> QED BY <1>1, <1>2, FS_EmptySet DEF TallyInv, Tally

(* While the counters and the sets stand, so do the totals. *)
LEMMA TallyFrame ==
  ASSUME TallyInv, UNCHANGED <<tested, results, processed, found, stats>>,
         Uncounted' = Uncounted, Unfound' = Unfound, Sending' = Sending
  PROVE  TallyInv'
<1>1. TestedNames' = TestedNames /\ StatsSum' = StatsSum
  BY DEF TestedNames, StatsSum
<1> QED BY <1>1 DEF TallyInv, Tally

(* A lookup that is counted adds one outcome, one name and one worker who has  *)
(* to follow up on it.                                                         *)
LEMMA TallyLookup ==
  ASSUME TypeOK, NamesOnce, TallyInv, NEW w \in Worker, NEW v \in Counted,
         wpc[w] = "lookup", wpc' = [wpc EXCEPT ![w] = "count"],
         wout' = [wout EXCEPT ![w] = v],
         stats' = [stats EXCEPT ![v] = @ + 1], tested' = tested \cup {wjob[w]},
         UNCHANGED <<processed, found, results>>
  PROVE  TallyInv'
<1>1. /\ wpc \in [Worker -> WorkPcs] /\ wout \in [Worker -> Counted \cup {"cut"}]
      /\ stats \in [Counted -> Nat] /\ processed \in Nat /\ found \in Nat
  BY DEF TypeOK, WorkType, CountType
<1>2. wjob[w].name \notin TestedNames /\ wjob[w] \notin tested
  BY DEF NamesOnce, Waiting, Fresh, TestedNames
<1>3. TestedNames' = TestedNames \cup {wjob[w].name}
  BY DEF TestedNames
<1>4. /\ Cardinality(tested') = Cardinality(tested) + 1 /\ IsFiniteSet(tested')
      /\ Cardinality(TestedNames') = Cardinality(TestedNames) + 1 /\ IsFiniteSet(TestedNames')
  BY <1>2, <1>3, FS_AddElement DEF TallyInv
<1>5. /\ StatsSum' = StatsSum + 1
      /\ stats'["found"] = stats["found"] + (IF v = "found" THEN 1 ELSE 0)
      /\ StatsSum \in Nat /\ stats["found"] \in Nat
  BY <1>1 DEF StatsSum, Counted
<1>6. \A u \in Worker : /\ wpc'[u] = IF u = w THEN "count" ELSE wpc[u]
                        /\ wout'[u] = IF u = w THEN v ELSE wout[u]
  BY <1>1
<1>7. /\ w \notin Uncounted /\ Uncounted' = Uncounted \cup {w}
      /\ w \notin Unfound /\ Unfound' = (IF v = "found" THEN Unfound \cup {w} ELSE Unfound)
      /\ Sending' = Sending
  BY <1>6 DEF Uncounted, Unfound, Sending
<1>8. /\ Cardinality(Uncounted') = Cardinality(Uncounted) + 1
      /\ Cardinality(Unfound') = Cardinality(Unfound) + (IF v = "found" THEN 1 ELSE 0)
      /\ Cardinality(Uncounted) \in Nat /\ Cardinality(Unfound) \in Nat
  <2>1. Uncounted \in SUBSET Worker /\ Unfound \in SUBSET Worker
    BY DEF Uncounted, Unfound
  <2> QED BY <1>7, <2>1, OneWorkerMore, WorkersFinite
<1> QED BY <1>1, <1>4, <1>5, <1>7, <1>8 DEF TallyInv, Tally

LEMMA TallyStep ==
  TypeOK /\ ShutdownInv /\ NamesOnce /\ ResultsOnce /\ TallyInv /\ [Next]_vars => TallyInv'
<1> SUFFICES ASSUME TypeOK, ShutdownInv, NamesOnce, ResultsOnce, TallyInv, [Next]_vars
             PROVE  TallyInv'
  OBVIOUS
<1> USE DEF argVars, ctlVars, genVars, lossVars, markVars, dispVars, workVars, sumVars,
            stopVars, tickVars, outVars, poolVars, restVars, workEnv
<1>0. /\ wpc \in [Worker -> WorkPcs] /\ wout \in [Worker -> Counted \cup {"cut"}]
      /\ stats \in [Counted -> Nat] /\ processed \in Nat /\ found \in Nat
      /\ Uncounted \in SUBSET Worker /\ Unfound \in SUBSET Worker /\ Sending \in SUBSET Worker
  BY DEF TypeOK, WorkType, CountType, Uncounted, Unfound, Sending
<1>00. Cardinality(Uncounted) \in Nat /\ Cardinality(Unfound) \in Nat /\ Cardinality(Sending) \in Nat
  BY <1>0, WorkersFinite
<1>1. ASSUME UNCHANGED <<tested, results, processed, found, stats, wpc, wout>> PROVE TallyInv'
  BY <1>1, TallyFrame DEF Uncounted, Unfound, Sending
<1>2. CASE \/ Cancel \/ CheckScope \/ CheckCeiling \/ Preflight \/ DetectWildcard
           \/ JoinWorkers \/ SendDone \/ Close \/ Ticker \/ Dispatcher
  BY <1>1, <1>2 DEF Cancel, CheckScope, CheckCeiling, Preflight, DetectWildcard, JoinWorkers,
     SendDone, Close, Ticker, Tick, LoadTick, SendProgress, StopTicker, Dispatcher,
     PopExpansion, HitCap, SkipDuplicate, SkipExcluded, Admit, NoneLeft, BeginClose, CloseJobs
<1>3. CASE Spawn
  <2>1. UNCHANGED <<tested, results, processed, found, stats>>
        /\ \A w \in Worker : wpc[w] = "off" /\ wpc'[w] = "recv"
    BY <1>3 DEF Spawn, ShutdownInv, NobodyBeforeSpawn, NotSpawned
  <2> QED BY <2>1, TallyFrame DEF Uncounted, Unfound, Sending
<1>4. ASSUME NEW w \in Worker,
             \/ Dispatch(w) \/ Enqueue(w) \/ Complete(w) \/ Exit(w) \/ GiveUp(w)
             \/ ProbeParent(w)
      PROVE TallyInv'
  <2> DEFINE Out == {"recv", "begin", "enqueue", "report", "probe", "exited"}
  <2>1. /\ UNCHANGED <<tested, results, processed, found, stats, wout>>
        /\ wpc[w] \in Out /\ \E pc \in Out : wpc' = [wpc EXCEPT ![w] = pc]
    BY <1>4 DEF Dispatch, Enqueue, Complete, Exit, GiveUp, ProbeParent, Goto
  <2>2. Uncounted' = Uncounted /\ Unfound' = Unfound /\ Sending' = Sending
    BY <1>0, <2>1 DEF Uncounted, Unfound, Sending
  <2> QED BY <2>1, <2>2, TallyFrame
<1>5. ASSUME NEW w \in Worker, Begin(w) PROVE TallyInv'
  <2>1. /\ UNCHANGED <<tested, results, processed, found, stats>>
        /\ wpc[w] = "begin" /\ \E pc \in {"report", "lookup"} : wpc' = [wpc EXCEPT ![w] = pc]
        /\ UNCHANGED wout \/ wout' = [wout EXCEPT ![w] = "cut"]
    BY <1>5 DEF Begin, Goto
  <2>2. Uncounted' = Uncounted /\ Unfound' = Unfound /\ Sending' = Sending
    BY <1>0, <2>1 DEF Uncounted, Unfound, Sending
  <2> QED BY <2>1, <2>2, TallyFrame
<1>6. ASSUME NEW w \in Worker, Lookup(w) PROVE TallyInv'
  <2>1. PICK v \in Counted \cup {"cut"} :
          /\ wpc[w] = "lookup" /\ wout' = [wout EXCEPT ![w] = v]
          /\ UNCHANGED <<processed, found, results>>
          /\ IF v = "cut"
             THEN wpc' = [wpc EXCEPT ![w] = "report"] /\ UNCHANGED <<stats, tested>>
             ELSE /\ stats' = [stats EXCEPT ![v] = @ + 1] /\ tested' = tested \cup {wjob[w]}
                  /\ wpc' = [wpc EXCEPT ![w] = "count"]
    BY <1>6, VerdictType DEF Lookup, Goto
  <2>2. CASE v = "cut"
    <3>1. Uncounted' = Uncounted /\ Unfound' = Unfound /\ Sending' = Sending
      BY <1>0, <2>1, <2>2 DEF Uncounted, Unfound, Sending
    <3> QED BY <2>1, <2>2, <3>1, TallyFrame
  <2>3. CASE v # "cut"
    BY <2>1, <2>3, TallyLookup
  <2> QED BY <2>2, <2>3
<1>7. ASSUME NEW w \in Worker, Count(w) PROVE TallyInv'
  <2>1. /\ UNCHANGED <<tested, results, found, stats, wout>> /\ processed' = processed + 1
        /\ wpc[w] = "count" /\ wpc' = [wpc EXCEPT ![w] = "guard"]
    BY <1>7 DEF Count, Goto
  <2>2. \A u \in Worker : wpc'[u] = IF u = w THEN "guard" ELSE wpc[u]
    BY <1>0, <2>1
  <2>3. /\ w \in Uncounted /\ Uncounted' = Uncounted \ {w}
        /\ Unfound' = Unfound /\ Sending' = Sending
    BY <2>1, <2>2 DEF Uncounted, Unfound, Sending
  <2>4. Cardinality(Uncounted') = Cardinality(Uncounted) - 1
    BY <1>0, <2>3, OneWorkerLess
  <2>5. TestedNames' = TestedNames /\ StatsSum' = StatsSum
    BY <2>1 DEF TestedNames, StatsSum
  <2> QED BY <1>0, <1>00, <2>1, <2>3, <2>4, <2>5 DEF TallyInv, Tally
<1>8. ASSUME NEW w \in Worker, CheckReliability(w) \/ Trip(w) PROVE TallyInv'
  <2>1. /\ UNCHANGED <<tested, results, processed, found, stats, wout>>
        /\ wpc[w] \in {"guard", "trip"}
        /\ \E pc \in {"trip", "found", "report"} :
             /\ wpc' = [wpc EXCEPT ![w] = pc]
             /\ pc = "report" => wout[w] # "found"
    BY <1>8 DEF CheckReliability, Trip, Goto, AfterGuard
  <2>2. Uncounted' = Uncounted /\ Unfound' = Unfound /\ Sending' = Sending
    BY <1>0, <2>1 DEF Uncounted, Unfound, Sending
  <2> QED BY <2>1, <2>2, TallyFrame
<1>9. ASSUME NEW w \in Worker, CountFound(w) PROVE TallyInv'
  <2>1. /\ UNCHANGED <<tested, results, processed, stats, wout>> /\ found' = found + 1
        /\ wpc[w] = "found" /\ wpc' = [wpc EXCEPT ![w] = "result"] /\ wout[w] = "found"
    BY <1>9 DEF CountFound, Goto, ResultsOnce
  <2>2. \A u \in Worker : wpc'[u] = IF u = w THEN "result" ELSE wpc[u]
    BY <1>0, <2>1
  <2>3. /\ w \in Unfound /\ Unfound' = Unfound \ {w}
        /\ w \notin Sending /\ Sending' = Sending \cup {w}
        /\ Uncounted' = Uncounted
    BY <2>1, <2>2 DEF Uncounted, Unfound, Sending
  <2>4. /\ Cardinality(Unfound') = Cardinality(Unfound) - 1
        /\ Cardinality(Sending') = Cardinality(Sending) + 1
    BY <1>0, <2>3, OneWorkerLess, OneWorkerMore
  <2>5. TestedNames' = TestedNames /\ StatsSum' = StatsSum
    BY <2>1 DEF TestedNames, StatsSum
  <2>6. Cardinality(results) \in Nat
    BY FS_CardinalityType DEF TallyInv
  <2> QED BY <1>0, <1>00, <2>1, <2>3, <2>4, <2>5, <2>6 DEF TallyInv, Tally
<1>10. ASSUME NEW w \in Worker, SendResult(w) PROVE TallyInv'
  <2>1. /\ UNCHANGED <<tested, processed, found, stats, wout>> /\ wpc[w] = "result"
        /\ results' = results \cup {wjob[w].name}
        /\ \E pc \in {"report", "enqueue", "probe"} : wpc' = [wpc EXCEPT ![w] = pc]
    BY <1>10 DEF SendResult, Goto, AfterResult
  <2>2. wjob[w].name \notin results
    BY <2>1 DEF ResultsOnce, Unsent, HitPcs
  <2>3. Cardinality(results') = Cardinality(results) + 1 /\ IsFiniteSet(results')
        /\ Cardinality(results) \in Nat
    BY <2>1, <2>2, FS_AddElement, FS_CardinalityType DEF TallyInv
  <2>4. /\ w \in Sending /\ Sending' = Sending \ {w}
        /\ Uncounted' = Uncounted /\ Unfound' = Unfound
    BY <1>0, <2>1 DEF Uncounted, Unfound, Sending
  <2>5. Cardinality(Sending') = Cardinality(Sending) - 1
    BY <1>0, <2>4, OneWorkerLess
  <2>6. TestedNames' = TestedNames /\ StatsSum' = StatsSum
    BY <2>1 DEF TestedNames, StatsSum
  <2> QED BY <1>0, <1>00, <2>1, <2>3, <2>4, <2>5, <2>6 DEF TallyInv, Tally
<1>11. CASE UNCHANGED vars
  BY <1>1, <1>11 DEF vars
<1> QED
  BY <1>2, <1>3, <1>4, <1>5, <1>6, <1>7, <1>8, <1>9, <1>10, <1>11
  DEF Next, Main, Work, Meet, Returned

(* The guard.  Once no outcome is waiting to be counted, the worker whose      *)
(* increment came last sees every failure, so a bad total cannot slip between  *)
(* the workers' snapshots.                                                     *)
LastSeesAll ==
  Unreliable(processed) /\ Uncounted = {} =>
    guard # "idle" \/ \E w \in Worker : wpc[w] = "guard" /\ wn[w] = processed
BusyTripping == guard = "busy" => \E w \in Worker : wpc[w] = "trip"
DoneTold == guard = "done" => "guard" \in errors

GuardInv == LastSeesAll /\ BusyTripping /\ DoneTold

LEMMA GuardInit == Init => GuardInv
<1> SUFFICES ASSUME Init PROVE GuardInv
  OBVIOUS
<1>1. processed = 0 /\ stats["failed"] = 0 /\ guard = "idle"
  BY DEF Init, Counted
<1>2. ~Unreliable(processed)
  BY <1>1, ScanAssumption DEF ScanAssumption, Unreliable
<1> QED BY <1>1, <1>2 DEF GuardInv, LastSeesAll, BusyTripping, DoneTold

LEMMA GuardStep == TypeOK /\ ShutdownInv /\ GuardInv /\ [Next]_vars => GuardInv'
<1> SUFFICES ASSUME TypeOK, ShutdownInv, GuardInv, [Next]_vars PROVE GuardInv'
  OBVIOUS
<1> USE DEF argVars, ctlVars, genVars, lossVars, markVars, dispVars, workVars, sumVars,
            stopVars, tickVars, outVars, poolVars, restVars, workEnv
<1> USE DEF GuardInv, LastSeesAll, BusyTripping, DoneTold
<1>0. /\ wpc \in [Worker -> WorkPcs] /\ wn \in [Worker -> Nat]
      /\ guard \in {"idle", "busy", "done"}
  BY DEF TypeOK, WorkType, CountType
<1>1. ASSUME UNCHANGED <<stats, processed, wpc, wn, guard>>, errors \subseteq errors'
      PROVE  GuardInv'
  BY <1>1 DEF Uncounted, Unreliable
<1>2. CASE \/ Cancel \/ CheckScope \/ CheckCeiling \/ Preflight \/ DetectWildcard
           \/ JoinWorkers \/ SendDone \/ Close \/ Ticker \/ Dispatcher
  <2>1. UNCHANGED <<stats, processed, wpc, wn, guard>>
    BY <1>2 DEF Cancel, CheckScope, CheckCeiling, Preflight, DetectWildcard, JoinWorkers,
       SendDone, Close, Ticker, Tick, LoadTick, SendProgress, StopTicker, Dispatcher,
       PopExpansion, HitCap, SkipDuplicate, SkipExcluded, Admit, NoneLeft, BeginClose, CloseJobs
  <2>2. errors \subseteq errors'
    BY <1>2 DEF Cancel, CheckScope, CheckCeiling, Preflight, DetectWildcard, JoinWorkers,
       SendDone, Close, Ticker, Tick, LoadTick, SendProgress, StopTicker, Dispatcher, GoOn, Refuse,
       PopExpansion, HitCap, SkipDuplicate, SkipExcluded, Admit, NoneLeft, BeginClose, CloseJobs
  <2> QED BY <1>1, <2>1, <2>2
<1>3. CASE Spawn
  <2>1. UNCHANGED <<stats, processed, wn, guard, errors>>
        /\ \A w \in Worker : wpc[w] = "off" /\ wpc'[w] = "recv"
    BY <1>3 DEF Spawn, ShutdownInv, NobodyBeforeSpawn, NotSpawned
  <2> QED BY <2>1 DEF Uncounted, Unreliable
<1>4. ASSUME NEW w \in Worker, NEW from \in WorkPcs \ {"count", "guard", "trip"},
             NEW pc \in WorkPcs \ {"count"}, wpc[w] = from, wpc' = [wpc EXCEPT ![w] = pc],
             UNCHANGED <<stats, processed, wn, guard, errors>>
      PROVE GuardInv'
  <2>1. \A u \in Worker : wpc'[u] = IF u = w THEN pc ELSE wpc[u]
    BY <1>0, <1>4
  <2> QED BY <1>4, <2>1 DEF Uncounted, Unreliable
<1>5. ASSUME NEW w \in Worker,
             \/ Dispatch(w) \/ Enqueue(w) \/ Complete(w) \/ Exit(w) \/ GiveUp(w)
             \/ ProbeParent(w) \/ Begin(w) \/ CountFound(w) \/ SendResult(w)
      PROVE GuardInv'
  <2>1. UNCHANGED <<stats, processed, wn, guard, errors>>
    BY <1>5 DEF Dispatch, Enqueue, Complete, Exit, GiveUp, ProbeParent, Begin, CountFound,
       SendResult
  <2>2. /\ wpc[w] \in WorkPcs \ {"count", "guard", "trip"}
        /\ \E pc \in WorkPcs \ {"count"} : wpc' = [wpc EXCEPT ![w] = pc]
    <3>1. CASE Dispatch(w) \/ Enqueue(w) \/ Complete(w) \/ Exit(w) \/ GiveUp(w)
      BY <3>1 DEF Dispatch, Enqueue, Complete, Exit, GiveUp, Goto, WorkPcs
    <3>2. CASE ProbeParent(w) \/ Begin(w) \/ CountFound(w) \/ SendResult(w)
      BY <3>2 DEF ProbeParent, Begin, CountFound, SendResult, Goto, AfterResult, WorkPcs
    <3> QED BY <1>5, <3>1, <3>2
  <2> QED BY <1>4, <2>1, <2>2
<1>6. ASSUME NEW w \in Worker, Lookup(w) PROVE GuardInv'
  <2>1. /\ UNCHANGED <<processed, wn, guard, errors>> /\ wpc[w] = "lookup"
        /\ \/ wpc' = [wpc EXCEPT ![w] = "report"] /\ UNCHANGED stats
           \/ wpc' = [wpc EXCEPT ![w] = "count"]
    BY <1>6 DEF Lookup, Goto
  <2>2. CASE wpc' = [wpc EXCEPT ![w] = "report"] /\ UNCHANGED stats
    BY <1>4, <2>1, <2>2 DEF WorkPcs
  <2>3. CASE wpc' = [wpc EXCEPT ![w] = "count"]
    <3>1. w \in Uncounted'
      BY <1>0, <2>3 DEF Uncounted
    <3>2. BusyTripping'
      BY <1>0, <2>1, <2>3
    <3> QED BY <2>1, <3>1, <3>2
  <2> QED BY <2>1, <2>2, <2>3
<1>7. ASSUME NEW w \in Worker, Count(w) PROVE GuardInv'
  <2>1. /\ UNCHANGED <<stats, guard, errors>> /\ wpc[w] = "count"
        /\ wpc' = [wpc EXCEPT ![w] = "guard"] /\ wn' = [wn EXCEPT ![w] = processed']
    BY <1>7 DEF Count, Goto
  <2>2. wpc'[w] = "guard" /\ wn'[w] = processed' /\ \A u \in Worker : u # w => wpc'[u] = wpc[u]
    BY <1>0, <2>1
  <2> QED BY <2>1, <2>2
<1>8. ASSUME NEW w \in Worker, CheckReliability(w) PROVE GuardInv'
  <2>1. UNCHANGED <<stats, processed, wn, errors>> /\ wpc[w] = "guard"
    BY <1>8 DEF CheckReliability
  <2>2. CASE /\ ~Unreliable(wn[w]) \/ guard = "done"
             /\ Goto(w, AfterGuard(w)) /\ UNCHANGED guard
    <3>1. \A u \in Worker : wpc'[u] = IF u = w THEN AfterGuard(w) ELSE wpc[u]
      BY <1>0, <2>2 DEF Goto
    <3>2. AfterGuard(w) \notin {"count", "trip"}
      BY DEF AfterGuard
    <3>3. Uncounted' = Uncounted /\ (Unreliable(processed)' <=> Unreliable(processed))
      BY <2>1, <3>1, <3>2 DEF Uncounted, Unreliable
    <3>4. LastSeesAll'
      <4> SUFFICES ASSUME Unreliable(processed), Uncounted = {}, guard = "idle"
                   PROVE  \E u \in Worker : wpc'[u] = "guard" /\ wn'[u] = processed'
        BY <2>2, <3>3
      <4>1. PICK u \in Worker : wpc[u] = "guard" /\ wn[u] = processed
        OBVIOUS
      <4>2. u # w
        BY <2>2, <4>1
      <4> QED BY <2>1, <3>1, <4>1, <4>2
    <3>5. BusyTripping' /\ DoneTold'
      BY <2>1, <2>2, <3>1
    <3> QED BY <3>4, <3>5
  <2>3. CASE guard' = "busy" /\ Goto(w, "trip")
    <3>1. wpc'[w] = "trip"
      BY <1>0, <2>3 DEF Goto
    <3> QED BY <2>3, <3>1
  <2> QED BY <1>8, <2>2, <2>3 DEF CheckReliability
<1>9. ASSUME NEW w \in Worker, Trip(w) PROVE GuardInv'
  <2>1. guard' = "done" /\ "guard" \in errors'
    BY <1>9 DEF Trip
  <2> QED BY <2>1
<1>10. CASE UNCHANGED vars
  BY <1>1, <1>10 DEF vars
<1> QED
  BY <1>2, <1>3, <1>5, <1>6, <1>7, <1>8, <1>9, <1>10 DEF Next, Main, Work, Meet, Returned

(* The final event is the state Run left behind, or that of a scan that never  *)
(* began.                                                                      *)
FinalTotals ==
  main \in Over =>
    \/ done = <<DoneEvent>> /\ disp = "closed"
    \/ done = <<StoppedEvent>> /\ disp = "off"

LEMMA FinalStep == TypeOK /\ ShutdownInv /\ FinalTotals /\ [Next]_vars => FinalTotals'
<1> SUFFICES ASSUME TypeOK, ShutdownInv, FinalTotals, [Next]_vars, main' \in Over
             PROVE  FinalTotals'
  BY DEF FinalTotals
<1> USE DEF argVars, ctlVars, genVars, lossVars, markVars, dispVars, workVars, sumVars,
            stopVars, tickVars, outVars, poolVars, restVars, workEnv
<1>1. CASE main \in Over
  <2>1. Close \/ Cancel \/ Returned \/ UNCHANGED vars
    BY <1>1, NothingAfterOver
  <2>2. UNCHANGED <<done, disp, processed, total, found, stats, skipped, excluded, watermark,
                    aborted>>
    BY <2>1 DEF Close, Cancel, Returned, vars
  <2> QED BY <1>1, <2>2 DEF FinalTotals, DoneEvent
<1>2. CASE main \notin Over
  <2>1. SendDone
    <3>1. ~UNCHANGED main
      BY <1>2
    <3>2. Main
      BY <3>1 DEF Next, Dispatcher, PopExpansion, HitCap, SkipDuplicate, SkipExcluded, Admit,
         NoneLeft, BeginClose, CloseJobs, Ticker, Tick, LoadTick, SendProgress, StopTicker,
         Cancel, Returned, Work, Meet, Exit, Begin, Lookup, Count, CheckReliability, Trip,
         CountFound, SendResult, ProbeParent, GiveUp, Dispatch, Enqueue, Complete, vars
    <3> QED BY <1>2, <3>2 DEF Main, CheckScope, CheckCeiling, Preflight, DetectWildcard,
       Spawn, JoinWorkers, Close, Refuse, GoOn, Over
  <2>2. done = <<>>
    BY <1>2 DEF ShutdownInv, DoneAtEnd
  <2>3. CASE main = "joinTicker" /\ done' = Append(done, DoneEvent)
    <3>1. PICK w \in Worker : wpc[w] = "exited"
      BY <2>3, ScanAssumption DEF ScanAssumption, ShutdownInv, AllJoined, AllExited
    <3>2. disp = "closed"
      BY <3>1 DEF ShutdownInv, ExitAfterClose
    <3>3. DoneEvent' = DoneEvent /\ disp' = disp
      BY <2>1 DEF SendDone, DoneEvent
    <3>4. done' = <<DoneEvent>>
      BY <2>2, <2>3
    <3> QED BY <3>2, <3>3, <3>4 DEF FinalTotals
  <2>4. CASE main = "stopped" /\ done' = Append(done, StoppedEvent)
    <3>1. disp = "off" /\ disp' = disp
      BY <2>1, <2>4 DEF SendDone, ShutdownInv, NobodyBeforeSpawn, NotSpawned
    <3>2. done' = <<StoppedEvent>> /\ StoppedEvent' = StoppedEvent
      BY <2>2, <2>4 DEF StoppedEvent
    <3> QED BY <3>1, <3>2 DEF FinalTotals
  <2> QED BY <2>1, <2>3, <2>4 DEF SendDone
<1> QED BY <1>1, <1>2

(* The inductive invariant of the totals. *)
TotalsInv ==
  NamesOnce /\ ResultsOnce /\ NothingYet /\ TallyInv /\ GuardInv /\ FinalTotals

LEMMA TotalsAgree == TypeOK /\ ShutdownInv /\ TotalsInv => CountsAgree
<1> SUFFICES ASSUME TypeOK, ShutdownInv, TotalsInv PROVE CountsAgree
  OBVIOUS
<1>1. /\ stats \in [Counted -> Nat] /\ processed \in Nat /\ found \in Nat
      /\ Cardinality(Uncounted) \in Nat /\ Cardinality(Unfound) \in Nat
  <2>1. Uncounted \in SUBSET Worker /\ Unfound \in SUBSET Worker
    BY DEF Uncounted, Unfound
  <2> QED BY <2>1, WorkersFinite DEF TypeOK, CountType
<1>2. Tally
  BY DEF TotalsInv, TallyInv
<1>3. processed <= StatsSum /\ found <= stats["found"]
  BY <1>1, <1>2 DEF Tally, StatsSum, Counted
<1>4. ASSUME done # <<>>
      PROVE  /\ GuardMissesNothing
             /\ done[1].processed = Cardinality(tested)
             /\ done[1].found = done[1].stats["found"]
             /\ done[1].found = Cardinality(results)
  <2>1. main \in Over
    BY <1>4 DEF ShutdownInv, DoneAtEnd
  <2>2. CASE done = <<DoneEvent>> /\ disp = "closed"
    <3>1. \A w \in Worker : wpc[w] \in {"off", "exited"}
      BY <2>1 DEF ShutdownInv, NobodyOutlivesRun, Over
    <3>2. Uncounted = {} /\ Unfound = {} /\ Sending = {}
      BY <3>1 DEF Uncounted, Unfound, Sending
    <3>3. /\ processed = Cardinality(tested) /\ found = stats["found"]
          /\ Cardinality(results) = found
      <4>1. Cardinality(Uncounted) = 0 /\ Cardinality(Unfound) = 0 /\ Cardinality(Sending) = 0
        BY <3>2, FS_EmptySet
      <4>2. IsFiniteSet(results) /\ Cardinality(results) \in Nat
        BY FS_CardinalityType DEF TotalsInv, TallyInv
      <4> QED BY <1>1, <1>2, <4>1, <4>2 DEF Tally, StatsSum, Counted
    <3>4. done[1] = DoneEvent /\ DoneEvent.processed = processed /\ DoneEvent.found = found
          /\ DoneEvent.stats = stats
      BY <2>2 DEF DoneEvent
    <3>5. GuardMissesNothing
      <4> SUFFICES ASSUME Unreliable(processed) PROVE "guard" \in errors
        BY <3>4 DEF GuardMissesNothing, Unreliable
      <4>1. guard # "idle"
        BY <3>1, <3>2 DEF TotalsInv, GuardInv, LastSeesAll
      <4>2. guard # "busy"
        BY <3>1 DEF TotalsInv, GuardInv, BusyTripping
      <4> QED BY <4>1, <4>2 DEF TotalsInv, GuardInv, DoneTold, TypeOK, CountType
    <3> QED BY <3>3, <3>4, <3>5
  <2>3. CASE done = <<StoppedEvent>> /\ disp = "off"
    <3>1. tested = {} /\ results = {}
      BY <2>3 DEF TotalsInv, NothingYet
    <3>2. /\ done[1].processed = 0 /\ done[1].found = 0
          /\ done[1].stats["found"] = 0 /\ done[1].stats["failed"] = 0
      BY <2>3 DEF StoppedEvent, Counted
    <3>3. GuardMissesNothing
      BY <3>2, ScanAssumption DEF ScanAssumption, GuardMissesNothing
    <3> QED BY <3>1, <3>2, <3>3, FS_EmptySet
  <2> QED BY <2>1, <2>2, <2>3 DEF TotalsInv, FinalTotals
<1>5. done = <<>> => GuardMissesNothing
  BY DEF GuardMissesNothing
<1> QED BY <1>2, <1>3, <1>4, <1>5 DEF CountsAgree, Tally

(* Whatever the number of workers and their order, each name looked up is      *)
(* counted as one outcome and once in every total of the final event, each hit *)
(* is reported once, and a scan whose failures end above the guard's limit has *)
(* fired it.                                                                   *)
THEOREM CountsAlwaysAgree == Spec => []CountsAgree
<1>1. Init => ShutdownInv /\ TotalsInv
  <2>1. Init => FinalTotals
    BY DEF Init, FinalTotals, Over
  <2> QED BY <2>1, ShutdownInit, NamesInit, TallyInit, GuardInit DEF TotalsInv
<1>2. TypeOK /\ (ShutdownInv /\ TotalsInv) /\ [Next]_vars => (ShutdownInv /\ TotalsInv)'
  BY ShutdownStep, NamesStep, TallyStep, GuardStep, FinalStep DEF TotalsInv
<1>3. TypeOK /\ ShutdownInv /\ TotalsInv => CountsAgree
  BY TotalsAgree
<1> QED BY <1>1, <1>2, <1>3, TypeCorrect, PTL DEF Spec
=============================================================================
