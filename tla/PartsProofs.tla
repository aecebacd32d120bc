----------------------------- MODULE PartsProofs -----------------------------
(***************************************************************************)
(* Proofs about four parts that keep to themselves: the results file, the  *)
(* lab server, the cache of takeover hints and the pool of DNS-over-TLS    *)
(* connections, for any number of results, goroutines, workers and         *)
(* queries.                                                                *)
(***************************************************************************)
EXTENDS OutputProps, LabServerProps, TakeoverProps, DotProps,
        FiniteSetTheorems, SequenceTheorems, TLAPS

-----------------------------------------------------------------------------
(* The results file is never a truncated one, whatever fails and wherever the  *)
(* run dies.                                                                   *)
Results == Seq(Nat)

FileTypeOK ==
  /\ given \in Results /\ queued \in Results
  /\ buffer \in Results /\ written \in Results
  /\ inJSON \in BOOLEAN /\ sticky \in BOOLEAN /\ direct \in BOOLEAN

(* Until the writer has failed, the file and its buffer hold what was streamed, *)
(* or the results are all held back.                                            *)
Filling ==
  opc \in {"open", "scan", "finish"} =>
    /\ inJSON => queued = given /\ written = <<>> /\ buffer = <<>>
    /\ ~inJSON => queued = <<>> /\ (~sticky => written \o buffer = given)

Finished ==
  opc = "close" => (anyDone /\ ~sticky => written \o buffer = given)

(* The file about to be renamed is whole. *)
Committed == opc = "rename" => anyDone /\ written = given

Untouched ==
  opc \in {"open", "scan", "finish", "close", "rename", "remove"} => target = Earlier

FileInv == FileTypeOK /\ Filling /\ Finished /\ Committed /\ Untouched /\ TargetWhole

-----------------------------------------------------------------------------
(* A flush that does not fail moves all it was given to the file. *)
LEMMA SpillMoves ==
  ASSUME FileTypeOK, NEW all \in Results, NEW rest \in Results, Spill(all, rest)
  PROVE  /\ written' \in Results /\ buffer' \in Results /\ sticky' \in BOOLEAN
         /\ ~sticky' => written' = written \o all /\ buffer' = rest
<1>1. CASE written' = written \o all /\ buffer' = rest /\ UNCHANGED sticky
  <2>1. written \o all \in Results
    BY ConcatProperties DEF FileTypeOK, Results
  <2>2. QED BY <1>1, <2>1 DEF FileTypeOK
<1>2. ASSUME sticky' = TRUE, UNCHANGED buffer,
             NEW n \in 0..Len(all), written' = written \o SubSeq(all, 1, n)
      PROVE  written' \in Results /\ buffer' \in Results
  <2>1. SubSeq(all, 1, n) \in Results
    BY SubSeqProperties DEF Results
  <2>2. QED BY <1>2, <2>1, ConcatProperties DEF FileTypeOK, Results
<1>3. QED BY <1>1, <1>2 DEF Spill

(* What was written, buffered and still to come keeps its order and is all     *)
(* there after a flush.                                                        *)
LEMMA FlushMoves ==
  ASSUME FileTypeOK, NEW rest \in Results, FlushWith(rest)
  PROVE  /\ written' \in Results /\ buffer' \in Results /\ sticky' \in BOOLEAN
         /\ ~sticky' => /\ ~sticky /\ buffer' = <<>>
                        /\ written' = (written \o buffer) \o rest
<1>1. CASE sticky
  BY <1>1 DEF FlushWith, fileVars, FileTypeOK
<1>2. CASE ~sticky
  <2>1. buffer \o rest \in Results /\ <<>> \in Results
    BY ConcatProperties, EmptySeq DEF FileTypeOK, Results
  <2>2. Spill(buffer \o rest, <<>>)
    BY <1>2 DEF FlushWith
  <2>3. /\ written' \in Results /\ buffer' \in Results /\ sticky' \in BOOLEAN
        /\ ~sticky' => written' = written \o (buffer \o rest) /\ buffer' = <<>>
    BY <2>1, <2>2, SpillMoves
  <2>4. written \o (buffer \o rest) = (written \o buffer) \o rest
    <3>1. written \in Seq(Nat) /\ buffer \in Seq(Nat) /\ rest \in Seq(Nat)
      BY DEF FileTypeOK, Results
    <3>2. (written \o buffer) \o rest = written \o (buffer \o rest)
      BY <3>1, ConcatAssociative, Z3
    <3>3. QED BY <3>2
  <2>5. QED BY <1>2, <2>3, <2>4
<1>3. QED BY <1>1, <1>2 DEF FileTypeOK

(* A result put into a writer that has not failed comes last. *)
LEMMA PutAppends ==
  ASSUME FileTypeOK, NEW r \in Nat, Put(r)
  PROVE  /\ written' \in Results /\ buffer' \in Results /\ sticky' \in BOOLEAN
         /\ ~sticky' => ~sticky /\ written' \o buffer' = Append(written \o buffer, r)
<1>1. CASE sticky
  BY <1>1 DEF Put, fileVars, FileTypeOK
<1>2. CASE ~sticky
  <2>1. /\ written \o buffer \in Results /\ <<r>> \in Results
        /\ Append(written \o buffer, r) = (written \o buffer) \o <<r>>
        /\ Append(buffer, r) = buffer \o <<r>>
        /\ buffer \o <<r>> \in Results
        /\ (written \o buffer) \o <<r>> = written \o (buffer \o <<r>>)
    <3>1. written \in Seq(Nat) /\ buffer \in Seq(Nat) /\ <<r>> \in Seq(Nat)
      BY DEF FileTypeOK, Results
    <3>2. written \o buffer \in Seq(Nat) /\ buffer \o <<r>> \in Seq(Nat)
      BY <3>1, ConcatProperties
    <3>3. (written \o buffer) \o <<r>> = written \o (buffer \o <<r>>)
      BY <3>1, ConcatAssociative
    <3>4. /\ Append(written \o buffer, r) = (written \o buffer) \o <<r>>
          /\ Append(buffer, r) = buffer \o <<r>>
      BY <3>1, <3>2, AppendIsConcat
    <3>5. QED BY <3>1, <3>2, <3>3, <3>4 DEF Results
  <2>2. CASE Len(buffer) < Capacity
    BY <1>2, <2>1, <2>2 DEF Put, FileTypeOK
  <2>3. CASE ~(Len(buffer) < Capacity)
    <3>1. Spill(buffer, <<r>>)
      BY <1>2, <2>3 DEF Put
    <3>2. /\ written' \in Results /\ buffer' \in Results /\ sticky' \in BOOLEAN
          /\ ~sticky' => written' = written \o buffer /\ buffer' = <<r>>
      BY <2>1, <3>1, SpillMoves DEF FileTypeOK
    <3>3. QED BY <1>2, <2>1, <3>2
  <2>4. QED BY <2>2, <2>3
<1>3. QED BY <1>1, <1>2 DEF FileTypeOK

-----------------------------------------------------------------------------
LEMMA FileInvHolds == OutInit => FileInv
  BY EmptySeq, ConcatEmptySeq
  DEF OutInit, FileInv, FileTypeOK, Filling, Finished, Committed, Untouched,
      TargetWhole, Results

LEMMA EmitKeeps ==
  ASSUME FileInv, EmitResult
  PROVE  FileInv'
<1> DEFINE r == Len(given) + 1
<1>1. /\ opc = "scan" /\ opc' = opc /\ r \in Nat /\ given' = Append(given, r)
      /\ inJSON' = inJSON /\ direct' = direct /\ target' = target /\ anyDone' = anyDone
      /\ FileTypeOK /\ given' \in Results
  <2>1. given \in Seq(Nat)
    BY DEF FileInv, FileTypeOK, Results
  <2>2. QED BY <2>1, LenProperties, AppendProperties DEF EmitResult, FileInv, Results
<1>2. CASE inJSON
  <2>1. queued' = Append(queued, r) /\ UNCHANGED fileVars
    BY <1>2 DEF EmitResult
  <2>2. QED
    BY <1>1, <1>2, <2>1 DEF FileInv, FileTypeOK, Filling, Finished, Committed,
       Untouched, TargetWhole, fileVars
<1>3. CASE ~inJSON
  <2>1. Put(r) /\ UNCHANGED queued
    BY <1>3 DEF EmitResult
  <2>2. /\ written' \in Results /\ buffer' \in Results /\ sticky' \in BOOLEAN
        /\ ~sticky' => ~sticky /\ written' \o buffer' = Append(written \o buffer, r)
    BY <1>1, <2>1, PutAppends
  <2>3. QED
    BY <1>1, <1>3, <2>1, <2>2 DEF FileInv, FileTypeOK, Filling, Finished,
       Committed, Untouched, TargetWhole
<1>4. QED BY <1>2, <1>3 DEF FileInv, FileTypeOK

LEMMA FinishKeeps ==
  ASSUME FileInv, FinishWriter
  PROVE  FileInv'
<1>1. /\ opc = "finish" /\ opc' = "close" /\ FileTypeOK
      /\ UNCHANGED <<inJSON, direct, given, queued, target, anyDone>>
      /\ queued \in Seq(Nat) /\ given \in Seq(Nat)
  BY DEF FinishWriter, FileInv, FileTypeOK, Results
<1>2. CASE anyDone
  <2>1. FlushWith(queued)
    BY <1>2 DEF FinishWriter
  <2>2. /\ written' \in Results /\ buffer' \in Results /\ sticky' \in BOOLEAN
        /\ ~sticky' => /\ ~sticky /\ buffer' = <<>>
                       /\ written' = (written \o buffer) \o queued
    BY <1>1, <2>1, FlushMoves DEF Results
  <2>3. ~sticky' => (written \o buffer) \o queued = given
    <3>1. CASE inJSON
      <4>1. written \o buffer = <<>> /\ queued = given
        BY <1>1, <3>1, EmptySeq, ConcatEmptySeq DEF FileInv, Filling
      <4>2. QED BY <1>1, <4>1, ConcatEmptySeq
    <3>2. CASE ~inJSON
      <4>1. queued = <<>> /\ (~sticky => written \o buffer = given)
        BY <1>1, <3>2 DEF FileInv, Filling
      <4>2. QED BY <1>1, <2>2, <4>1, ConcatEmptySeq
    <3>3. QED BY <1>1, <3>1, <3>2 DEF FileTypeOK
  <2>4. ~sticky' => written' \o buffer' = given
    BY <1>1, <2>2, <2>3, ConcatEmptySeq
  <2>5. QED
    BY <1>1, <2>2, <2>4 DEF FileInv, FileTypeOK, Filling, Finished, Committed,
       Untouched, TargetWhole
<1>3. CASE ~anyDone
  <2>1. UNCHANGED fileVars
    BY <1>3 DEF FinishWriter
  <2>2. QED
    BY <1>1, <1>3, <2>1 DEF FileInv, FileTypeOK, Filling, Finished, Committed,
       Untouched, TargetWhole, fileVars
<1>4. QED BY <1>2, <1>3

LEMMA CloseKeeps ==
  ASSUME FileInv, CloseFile
  PROVE  FileInv'
<1>1. /\ opc = "close" /\ opc' \in {"exit", "rename", "remove"} /\ FileTypeOK
      /\ UNCHANGED <<inJSON, direct, given, queued, target, anyDone>>
      /\ FlushWith(<<>>) /\ <<>> \in Results /\ given \in Seq(Nat)
  BY EmptySeq DEF CloseFile, FileInv, FileTypeOK, Results
<1>2. /\ written' \in Results /\ buffer' \in Results /\ sticky' \in BOOLEAN
      /\ ~sticky' => /\ ~sticky /\ buffer' = <<>>
                     /\ written' = (written \o buffer) \o <<>>
  BY <1>1, FlushMoves
<1>3. opc' = "rename" => anyDone /\ ~sticky'
  BY <1>2 DEF CloseFile, Commit
<1>4. opc' = "rename" => anyDone /\ written' = given
  BY <1>1, <1>2, <1>3, ConcatEmptySeq DEF FileInv, Finished
<1>5. QED
  BY <1>1, <1>2, <1>4 DEF FileInv, FileTypeOK, Filling, Finished, Committed,
     Untouched, TargetWhole

LEMMA FileInvStep ==
  ASSUME FileInv, [OutNext]_outVars
  PROVE  FileInv'
<1> USE DEF FileInv, FileTypeOK, Filling, Finished, Committed, Untouched,
            TargetWhole, fileVars
<1>1. CASE OpenFile
  BY <1>1 DEF OpenFile
<1>2. CASE EmitResult
  BY <1>2, EmitKeeps
<1>3. CASE Signal
  BY <1>3 DEF Signal
<1>4. CASE ScansEnd
  BY <1>4 DEF ScansEnd
<1>5. CASE FinishWriter
  BY <1>5, FinishKeeps
<1>6. CASE CloseFile
  BY <1>6, CloseKeeps
<1>7. CASE RenameFile
  BY <1>7 DEF RenameFile
<1>8. CASE RemoveFile
  BY <1>8 DEF RemoveFile
<1>9. CASE Exit
  BY <1>9 DEF Exit
<1>10. CASE Crash
  BY <1>10 DEF Crash
<1>11. CASE UNCHANGED outVars
  BY <1>11 DEF outVars
<1>12. QED
  BY <1>1, <1>2, <1>3, <1>4, <1>5, <1>6, <1>7, <1>8, <1>9, <1>10, <1>11 DEF OutNext

THEOREM FileSound == OutSpec => []FileInv
  BY FileInvHolds, FileInvStep, PTL DEF OutSpec

(* Wherever the run fails, is stopped or dies, the named file holds what it    *)
(* held before or every result of the run.                                     *)
THEOREM TargetNeverTruncated == OutSpec => []TargetWhole
<1>1. FileInv => TargetWhole
  BY DEF FileInv
<1>2. QED BY <1>1, FileSound, PTL

-----------------------------------------------------------------------------
(* Success.  Code 0 is chosen before the file is closed, so what it promises   *)
(* is carried through the steps of Close, any of which may still fail.         *)

Delivered == ~temporary /\ (IF direct THEN written ELSE target) = given

SuccessInv ==
  /\ opc = "open" \/ direct => ~temporary
  /\ opc \in {"open", "scan", "finish"} => code = NoCode
  /\ opc = "finish" /\ ~anyDone => anyBad \/ stopped
  /\ opc = "close" /\ code = 0 => anyDone /\ ~sticky
  /\ opc \in {"rename", "remove"} => ~direct
  /\ opc = "remove" /\ code = 0 => closeErr
  /\ opc = "exit" /\ code = 0 /\ ~closeErr => Delivered
  /\ SuccessMeansWritten

LEMMA SuccessStep ==
  ASSUME FileInv, SuccessInv, [OutNext]_outVars
  PROVE  SuccessInv'
<1> USE DEF SuccessInv, SuccessMeansWritten, Delivered, NoCode, fileVars, endVars
<1>1. CASE OpenFile
  <2>1. opc' \in {"scan", "over"} /\ (direct => ~temporary')
    <3>1. CASE temporary' = ~direct
      BY <1>1, <3>1 DEF OpenFile
    <3>2. CASE UNCHANGED temporary
      BY <1>1, <3>2 DEF OpenFile
    <3>3. QED BY <1>1, <3>1, <3>2 DEF OpenFile
  <2>2. UNCHANGED <<direct, anyDone, anyBad, stopped, closeErr>>
    BY <1>1 DEF OpenFile
  <2>3. opc' = "scan" => code' = NoCode
    BY <1>1 DEF OpenFile
  <2>4. opc' = "over" => code' = 1
    BY <1>1 DEF OpenFile
  <2>5. QED BY <2>1, <2>2, <2>3, <2>4
<1>2. CASE EmitResult
  BY <1>2 DEF EmitResult
<1>3. CASE Signal
  BY <1>3 DEF Signal
<1>4. CASE ScansEnd
  BY <1>4 DEF ScansEnd
<1>5. CASE FinishWriter
  <2>1. code' = 0 => ~stopped /\ ~reported' /\ ~anyBad
    BY <1>5 DEF FinishWriter
  <2>2. code' = 0 => anyDone /\ ~sticky'
    BY <1>5, <2>1 DEF FinishWriter
  <2>3. QED BY <1>5, <2>2 DEF FinishWriter
<1>6. CASE CloseFile
  <2>1. /\ opc = "close" /\ FlushWith(<<>>) /\ <<>> \in Results /\ FileTypeOK
        /\ UNCHANGED <<direct, given, target, temporary, anyDone, code>>
    BY <1>6, EmptySeq DEF CloseFile, FileInv, Results
  <2>2. ~sticky' => ~sticky /\ written' = (written \o buffer) \o <<>>
    BY <2>1, FlushMoves
  <2>3. ~closeErr' => ~sticky'
    BY <1>6 DEF CloseFile
  <2>4. code = 0 /\ ~closeErr' => written' = given
    <3>1. given \in Seq(Nat)
      BY <2>1 DEF FileTypeOK, Results
    <3>2. QED BY <2>1, <2>2, <2>3, <3>1, ConcatEmptySeq DEF FileInv, Finished
  <2>5. /\ opc' = "exit" => direct
        /\ opc' = "remove" => ~direct /\ ~(anyDone /\ ~closeErr')
        /\ opc' = "rename" => ~direct
        /\ opc' \in {"exit", "rename", "remove"}
    BY <1>6 DEF CloseFile, Commit
  <2>6. QED BY <2>1, <2>4, <2>5
<1>7. CASE RenameFile
  BY <1>7 DEF RenameFile, FileInv, Committed
<1>8. CASE RemoveFile
  BY <1>8 DEF RemoveFile
<1>9. CASE Exit
  BY <1>9 DEF Exit, CodeAfter
<1>10. CASE Crash
  BY <1>10 DEF Crash
<1>11. CASE UNCHANGED outVars
  BY <1>11 DEF outVars
<1>12. QED BY <1>1, <1>2, <1>3, <1>4, <1>5, <1>6, <1>7, <1>8, <1>9, <1>10, <1>11 DEF OutNext

(* An exit code of success vouches for the results, wherever they were asked   *)
(* for: no failure of a write, of a flush, of Close or of the rename is        *)
(* followed by it.                                                             *)
THEOREM SuccessHonest == OutSpec => []SuccessMeansWritten
<1>1. OutInit => SuccessInv
  BY DEF OutInit, SuccessInv, SuccessMeansWritten, NoCode
<1>2. SuccessInv => SuccessMeansWritten
  BY DEF SuccessInv
<1>3. QED BY FileSound, SuccessStep, <1>1, <1>2, PTL DEF OutSpec

-----------------------------------------------------------------------------
(* Close returns only once no handler can still run.                           *)
Place == {"none", "read", "busy", "accept", "track", "spawn", "handle", "reply", "parked",
          "leave", "done", "ended"}
Listener == {udpLoop} \cup Accepting
Live(g) == spc[g] \notin {"none", "ended"}
Serving == {"read", "handle", "reply", "parked", "leave"}

LabTypes ==
  /\ serial \in BOOLEAN
  /\ spc \in [Goroutine -> Place]
  /\ accepted \in [Accepting -> Conn \cup {Nobody}]
  /\ dialed \subseteq Conn /\ arrived \subseteq Datagram /\ tracked \subseteq Conn

(* Every goroutine that runs is waited for; a serial server's datagram runs in *)
(* the loop, alone.                                                            *)
AllWaited ==
  /\ \A g \in Listener : spc[g] # "none"
  /\ \A g \in Listener \cup Conn : Live(g) => g \in waited
  /\ \A q \in Datagram : Live(q) => IF serial THEN spc[udpLoop] = "busy" ELSE q \in waited
  /\ serial => \A q, r \in Datagram : Live(q) /\ Live(r) => q = r

(* A connection is handed from the backlog to one loop, and from it to its     *)
(* own goroutine.                                                              *)
HandedOver ==
  /\ \A l \in Accepting : accepted[l] # Nobody <=> spc[l] \in {"track", "spawn"}
  /\ \A l \in Accepting : accepted[l] # Nobody =>
       spc[accepted[l]] = "none" /\ accepted[l] \notin dialed
  /\ \A l, m \in Accepting : accepted[l] # Nobody /\ accepted[l] = accepted[m] => l = m
  /\ \A c \in dialed : spc[c] = "none"

Tracked ==
  \A c \in tracked : spc[c] \in Serving \/ \E l \in Accepting : accepted[l] = c /\ spc[l] = "spawn"

NobodyLeft == closePc = "returned" => waited = {}

LabIInv == LabTypes /\ AllWaited /\ HandedOver /\ Tracked /\ NobodyLeft

-----------------------------------------------------------------------------
LEMMA LabStart == LabInit => LabIInv
  BY ServerAssumption DEF LabInit, LabIInv, LabTypes, AllWaited, HandedOver, Tracked,
     NobodyLeft, Live, Listener, Goroutine, Place, Nobody

LEMMA LabStepKeeps ==
  ASSUME LabIInv, [LabNext]_labVars
  PROVE  LabIInv'
<1> USE ServerAssumption DEF LabIInv, LabTypes, AllWaited, HandedOver, Tracked, NobodyLeft,
        Live, Serving, Listener, Goroutine, Place, Nobody, SAt, STo,
        setVars, netVars, closeVars
<1>1. CASE UNCHANGED labVars
  BY <1>1 DEF labVars
<1>2. ASSUME NEW q \in Datagram, SendDatagram(q) PROVE LabIInv'
  BY <1>2 DEF SendDatagram
<1>3. ASSUME NEW c \in Conn, Connect(c) PROVE LabIInv'
  BY <1>3 DEF Connect
<1>4. ASSUME NEW c \in Conn, HangUp(c) PROVE LabIInv'
  BY <1>4 DEF HangUp
<1>5. ASSUME NEW c \in Conn, DeadlinePasses(c) PROVE LabIInv'
  BY <1>5 DEF DeadlinePasses
<1>6. ASSUME NEW q \in Datagram, ReadDatagram(q) PROVE LabIInv'
  BY <1>6 DEF ReadDatagram, Added
<1>7. ASSUME NEW q \in Datagram, DatagramHandled(q) PROVE LabIInv'
  BY <1>7 DEF DatagramHandled
<1>8. ASSUME NEW q \in Datagram, Replied(q) PROVE LabIInv'
  BY <1>8 DEF Replied, LoopEnds
<1>9. ASSUME NEW l \in Accepting, AcceptFails(l) PROVE LabIInv'
  BY <1>9 DEF AcceptFails, LoopEnds
<1>10. ASSUME NEW l \in Accepting, Track(l) PROVE LabIInv'
  BY <1>10 DEF Track, LoopEnds, MayTrack
<1>11. ASSUME NEW l \in Accepting, SpawnStream(l) PROVE LabIInv'
  BY <1>11 DEF SpawnStream
<1>12. ASSUME NEW c \in Conn, StreamEnds(c) PROVE LabIInv'
  BY <1>12 DEF StreamEnds, Cut
<1>13. ASSUME NEW c \in Conn, StreamHandled(c) PROVE LabIInv'
  BY <1>13 DEF StreamHandled
<1>14. ASSUME NEW c \in Conn, WriteAnswer(c) PROVE LabIInv'
  BY <1>14 DEF WriteAnswer, Cut
<1>15. ASSUME NEW c \in Conn, Untrack(c) PROVE LabIInv'
  BY <1>15 DEF Untrack
<1>16. ASSUME NEW c \in Conn, StreamDone(c) PROVE LabIInv'
  BY <1>16 DEF StreamDone, LoopEnds
<1>17. ASSUME NEW c \in Conn, ReadQuery(c) PROVE LabIInv'
  BY <1>17 DEF ReadQuery
<1>18. ASSUME NEW g \in Listener, CloseListener(g) PROVE LabIInv'
  BY <1>18 DEF CloseListener
<1>19. CASE UdpFails
  BY <1>19 DEF UdpFails, LoopEnds
<1>20. CASE CloseStreams
  BY <1>20 DEF CloseStreams
<1>21. CASE CloseReturned
  BY <1>21 DEF CloseReturned
<1>22. ASSUME NEW l \in Accepting, NEW c \in Conn, Accept(l, c) PROVE LabIInv'
  BY <1>22 DEF Accept
<1>23. QED BY <1>1, <1>2, <1>3, <1>4, <1>5, <1>6, <1>7, <1>8, <1>9, <1>10, <1>11, <1>12,
     <1>13, <1>14, <1>15, <1>16, <1>17, <1>18, <1>19, <1>20, <1>21, <1>22
  DEF LabNext, Clients, Deadlines, ServerStep, Closer, DatagramStep, ListenerStep, StreamStep, Listener

LEMMA LabIInvQuiet == LabIInv => NoHandlerAfterClose
  BY ServerAssumption DEF NoHandlerAfterClose, LabIInv, LabTypes, AllWaited, HandedOver, Tracked,
     NobodyLeft, Live, Serving, Listener, Goroutine, Place, Nobody

(* When Close has returned, no goroutine of the server runs or can start.      *)
THEOREM CloseWaits == LabSpec => []NoHandlerAfterClose
<1>1. LabSpec => []LabIInv
  BY LabStart, LabStepKeeps, PTL DEF LabSpec
<1>2. QED BY <1>1, LabIInvQuiet, PTL

-----------------------------------------------------------------------------
(***************************************************************************)
(* Takeover hints.  Behind LookupShared stands who owns an entry: the      *)
(* worker that made it, until it closes it.  The map holds it as long as   *)
(* its lookup may end conclusively, and forever once it has.               *)
(***************************************************************************)
HintPlaces == {"idle", "ask", "wait", "lookup", "drop", "close", "over"}
FirstWant == CHOOSE t \in Target : TRUE
Entry == [of : Target, outcome : Conclusive \cup {"failed", "canceled"}, closed : BOOLEAN]

HintTypes ==
  /\ hpc \in [Asker -> HintPlaces] /\ wants \in [Asker -> Target \cup {FirstWant}]
  /\ entries \in [Target -> Nat] /\ made \in Seq(Entry) /\ mine \in [Asker -> Nat]
  /\ \A a \in Asker : hpc[a] # "idle" => wants[a] \in Target

Owns(a) == hpc[a] \in {"lookup", "drop", "close"}

(* The map's entries are entries of their keys. *)
MapTrue == \A t \in Target : entries[t] # None => entries[t] \in DOMAIN made /\ made[entries[t]].of = t

OwnersTrue ==
  \A a \in Asker :
    Owns(a) =>
      /\ mine[a] \in DOMAIN made /\ made[mine[a]].of = wants[a] /\ ~made[mine[a]].closed
      /\ \A b \in Asker : Owns(b) /\ b # a => mine[b] # mine[a]
      /\ hpc[a] = "drop" => made[mine[a]].outcome \notin Conclusive
      /\ hpc[a] \in {"lookup", "drop"} \/ made[mine[a]].outcome \in Conclusive =>
           entries[wants[a]] = mine[a]

(* A conclusive answer stays in the map. *)
AnswersStay ==
  \A k \in DOMAIN made :
    made[k].closed /\ made[k].outcome \in Conclusive => entries[made[k].of] = k

HintInv == HintTypes /\ MapTrue /\ OwnersTrue /\ AnswersStay

LEMMA AtMostOne ==
  ASSUME NEW S, \A x, y \in S : x = y
  PROVE  Cardinality(S) <= 1
<1>1. CASE S = {}
  BY <1>1, FS_EmptySet
<1>2. CASE S # {}
  <2>1. PICK x \in S : S = {x}
    BY <1>2
  <2>2. QED BY <2>1, FS_Singleton
<1>3. QED BY <1>1, <1>2

LEMMA HintInvStart ==
  ASSUME HintInit
  PROVE  HintInv
<1>1. HintTypes
  <2>1. \A a \in Asker : hpc[a] = "idle"
    BY DEF HintInit
  <2>2. <<>> \in Seq(Entry)
    OBVIOUS
  <2>3. QED BY <2>1, <2>2 DEF HintInit, HintTypes, HintPlaces, FirstWant, None
<1>2. MapTrue /\ AnswersStay
  BY DEF HintInit, MapTrue, AnswersStay
<1>3. OwnersTrue
  BY DEF HintInit, OwnersTrue, Owns
<1>4. QED BY <1>1, <1>2, <1>3 DEF HintInv

(* A new entry is nobody's yet. *)
LEMMA AskKeeps ==
  ASSUME HintInv, NEW a \in Asker, Ask(a)
  PROVE  HintInv'
<1> USE DEF HintInv
<1>1. /\ hpc \in [Asker -> HintPlaces] /\ wants \in [Asker -> Target \cup {FirstWant}]
      /\ entries \in [Target -> Nat] /\ made \in Seq(Entry) /\ mine \in [Asker -> Nat]
      /\ hpc[a] = "ask" /\ wants[a] \in Target /\ wants' = wants
  BY DEF HintTypes, Ask
<1>2. CASE entries[wants[a]] # None
  <2>1. /\ mine' = [mine EXCEPT ![a] = entries[wants[a]]] /\ hpc' = [hpc EXCEPT ![a] = "wait"]
        /\ UNCHANGED <<entries, made>>
    BY <1>2 DEF Ask, HintTo
  <2>2. HintTypes'
    BY <1>1, <2>1 DEF HintTypes, HintPlaces
  <2>3. \A b \in Asker : Owns(b)' => Owns(b) /\ b # a /\ mine'[b] = mine[b] /\ hpc'[b] = hpc[b]
    BY <1>1, <2>1 DEF Owns
  <2>4. OwnersTrue'
    BY <1>1, <2>1, <2>3 DEF OwnersTrue
  <2>5. QED BY <2>1, <2>2, <2>4 DEF MapTrue, AnswersStay
<1>3. CASE entries[wants[a]] = None
  <2> DEFINE n == Len(made) + 1
             t == wants[a]
  <2>1. /\ made' = Append(made, NewEntry(t)) /\ entries' = [entries EXCEPT ![t] = n]
        /\ mine' = [mine EXCEPT ![a] = n] /\ hpc' = [hpc EXCEPT ![a] = "lookup"]
    BY <1>3 DEF Ask, HintTo, Register, None
  <2>2. NewEntry(t) \in Entry /\ NewEntry(t).of = t /\ ~NewEntry(t).closed
    BY <1>1 DEF NewEntry, Entry, Conclusive
  <2>3. /\ DOMAIN made = 1..Len(made) /\ DOMAIN made' = 1..n /\ n \in Nat /\ n \notin DOMAIN made
        /\ \A k \in DOMAIN made : k \in DOMAIN made' /\ made'[k] = made[k]
        /\ made'[n] = NewEntry(t) /\ n \in DOMAIN made' /\ n # None
        /\ \A k \in DOMAIN made' : k = n \/ k \in DOMAIN made
    BY <1>1, <2>1, <2>2 DEF None
  <2>4. HintTypes'
    <3>1. made' \in Seq(Entry)
      BY <1>1, <2>1, <2>2
    <3>2. QED BY <1>1, <2>1, <2>3, <3>1 DEF HintTypes, HintPlaces
  <2> HIDE DEF n, t
  <2>5. MapTrue'
    BY <1>1, <2>1, <2>2, <2>3 DEF MapTrue
  <2>6. \A b \in Asker : b # a /\ Owns(b)' => Owns(b) /\ mine'[b] = mine[b] /\ hpc'[b] = hpc[b]
    BY <1>1, <2>1 DEF Owns
  <2>7. mine'[a] = n /\ hpc'[a] = "lookup" /\ t = wants[a]
    BY <1>1, <2>1 DEF t
  <2>8. \A b \in Asker : Owns(b) /\ entries[wants[b]] = mine[b] => wants[b] # t
    BY <1>3, <2>3 DEF OwnersTrue, t, None
  <2>9. OwnersTrue'
    <3>1. SUFFICES ASSUME NEW b \in Asker, Owns(b)'
                   PROVE  /\ mine'[b] \in DOMAIN made' /\ made'[mine'[b]].of = wants[b]
                          /\ ~made'[mine'[b]].closed
                          /\ \A c \in Asker : Owns(c)' /\ c # b => mine'[c] # mine'[b]
                          /\ hpc'[b] = "drop" => made'[mine'[b]].outcome \notin Conclusive
                          /\ hpc'[b] \in {"lookup", "drop"} \/ made'[mine'[b]].outcome \in Conclusive =>
                               entries'[wants[b]] = mine'[b]
      BY <1>1 DEF OwnersTrue
    <3>2. CASE b = a
      BY <1>1, <2>1, <2>2, <2>3, <2>6, <2>7, <3>2 DEF OwnersTrue
    <3>3. CASE b # a
      <4>1. Owns(b) /\ mine'[b] = mine[b] /\ hpc'[b] = hpc[b] /\ mine[b] \in DOMAIN made
            /\ wants[b] \in Target
        BY <2>6, <3>1, <3>3 DEF OwnersTrue, HintTypes, Owns
      <4>2. \A c \in Asker : Owns(c)' /\ c # b => mine'[c] # mine'[b]
        BY <2>3, <2>6, <2>7, <3>1, <3>3, <4>1 DEF OwnersTrue
      <4>3. entries[wants[b]] = mine[b] => entries'[wants[b]] = mine'[b]
        BY <1>1, <2>1, <2>8, <4>1
      <4>4. QED BY <2>3, <4>1, <4>2, <4>3 DEF OwnersTrue
    <3>4. QED BY <3>2, <3>3
  <2>10. AnswersStay'
    <3>1. SUFFICES ASSUME NEW k \in DOMAIN made', made'[k].closed, made'[k].outcome \in Conclusive
                   PROVE  entries'[made'[k].of] = k
      BY DEF AnswersStay
    <3>2. k \in DOMAIN made /\ made'[k] = made[k]
      BY <2>2, <2>3, <3>1
    <3>3. entries[made[k].of] = k /\ made[k].of \in Target
      <4>1. made[k] \in Entry
        BY <1>1, <3>2
      <4>2. QED BY <3>1, <3>2, <4>1 DEF AnswersStay, Entry
    <3>4. made[k].of # t
      BY <1>3, <2>3, <3>2, <3>3 DEF t, None
    <3>5. QED BY <1>1, <2>1, <3>2, <3>3, <3>4
  <2>11. QED BY <2>4, <2>5, <2>9, <2>10
<1>4. QED BY <1>2, <1>3

(* Its maker alone changes an entry, and only while it is open. *)
LEMMA LookUpKeeps ==
  ASSUME HintInv, NEW a \in Asker, LookUpTarget(a)
  PROVE  HintInv'
<1> USE DEF HintInv
<1>1. /\ hpc \in [Asker -> HintPlaces] /\ made \in Seq(Entry) /\ mine \in [Asker -> Nat]
      /\ hpc[a] = "lookup" /\ Owns(a) /\ wants[a] \in Target
      /\ UNCHANGED <<wants, entries, mine>>
  BY DEF HintTypes, LookUpTarget, Owns
<1> DEFINE n == mine[a]
<1>2. n \in DOMAIN made /\ made[n].of = wants[a] /\ ~made[n].closed /\ made[n] \in Entry
      /\ entries[wants[a]] = n
  BY <1>1 DEF OwnersTrue
<1>3. PICK o \in Conclusive \cup {"failed", "canceled"} :
        /\ made' = [made EXCEPT ![n].outcome = o]
        /\ hpc' = [hpc EXCEPT ![a] = IF o \in Conclusive THEN "close" ELSE "drop"]
  BY DEF LookUpTarget, HintTo
<1>4. /\ DOMAIN made' = DOMAIN made /\ \A k \in DOMAIN made : k # n => made'[k] = made[k]
      /\ made'[n] = [made[n] EXCEPT !.outcome = o]
      /\ made'[n].of = wants[a] /\ made'[n].outcome = o /\ ~made'[n].closed
      /\ made'[n] \in Entry
  BY <1>1, <1>2, <1>3 DEF Entry
<1>5. hpc'[a] \in {"close", "drop"} /\ (hpc'[a] = "drop" => o \notin Conclusive)
      /\ \A b \in Asker : b # a => hpc'[b] = hpc[b]
  BY <1>1, <1>3
<1>6. HintTypes'
  <2>1. made' \in Seq(Entry)
    BY <1>1, <1>2, <1>3, <1>4
  <2>2. hpc' \in [Asker -> HintPlaces]
    BY <1>1, <1>3 DEF HintPlaces
  <2>3. QED BY <1>1, <1>5, <2>1, <2>2 DEF HintTypes
<1> HIDE DEF n
<1>7. MapTrue'
  BY <1>1, <1>2, <1>4 DEF MapTrue
<1>8. OwnersTrue'
  <2>1. \A b \in Asker : Owns(b)' <=> Owns(b)
    BY <1>1, <1>5 DEF Owns
  <2>2. \A b \in Asker : Owns(b) /\ b # a => mine[b] # n
    BY <1>1 DEF OwnersTrue, n
  <2>3. SUFFICES ASSUME NEW b \in Asker, Owns(b)
                 PROVE  /\ mine[b] \in DOMAIN made' /\ made'[mine[b]].of = wants[b]
                        /\ ~made'[mine[b]].closed
                        /\ \A c \in Asker : Owns(c) /\ c # b => mine[c] # mine[b]
                        /\ hpc'[b] = "drop" => made'[mine[b]].outcome \notin Conclusive
                        /\ hpc'[b] \in {"lookup", "drop"} \/ made'[mine[b]].outcome \in Conclusive =>
                             entries[wants[b]] = mine[b]
    BY <1>1, <2>1 DEF OwnersTrue
  <2>4. CASE b = a
    BY <1>1, <1>2, <1>4, <1>5, <2>2, <2>4 DEF n
  <2>5. CASE b # a
    BY <1>4, <1>5, <2>2, <2>3, <2>5 DEF OwnersTrue
  <2>6. QED BY <2>4, <2>5
<1>9. AnswersStay'
  BY <1>1, <1>4 DEF AnswersStay
<1>10. QED BY <1>6, <1>7, <1>8, <1>9

(* What is dropped was inconclusive, and its own. *)
LEMMA DropKeeps ==
  ASSUME HintInv, NEW a \in Asker, DropEntry(a)
  PROVE  HintInv'
<1> USE DEF HintInv
<1>1. /\ hpc \in [Asker -> HintPlaces] /\ made \in Seq(Entry) /\ entries \in [Target -> Nat]
      /\ hpc[a] = "drop" /\ Owns(a) /\ wants[a] \in Target
      /\ UNCHANGED <<wants, made, mine>> /\ hpc' = [hpc EXCEPT ![a] = "close"]
      /\ entries' = [entries EXCEPT ![wants[a]] = None]
  BY DEF HintTypes, DropEntry, Owns, HintTo, Drop
<1>2. /\ mine[a] \in DOMAIN made /\ ~made[mine[a]].closed /\ made[mine[a]].outcome \notin Conclusive
      /\ entries[wants[a]] = mine[a]
  BY <1>1 DEF OwnersTrue
<1>3. HintTypes'
  BY <1>1 DEF HintTypes, HintPlaces, None
<1>4. MapTrue'
  BY <1>1 DEF MapTrue
<1>5. OwnersTrue'
  <2>1. \A b \in Asker : Owns(b)' <=> Owns(b)
    BY <1>1 DEF Owns
  <2>2. SUFFICES ASSUME NEW b \in Asker, Owns(b),
                        hpc'[b] \in {"lookup", "drop"} \/ made[mine[b]].outcome \in Conclusive
                 PROVE  entries'[wants[b]] = mine[b]
    BY <1>1, <1>2, <2>1 DEF OwnersTrue
  <2>3. b # a
    BY <1>1, <1>2, <2>2
  <2>4. entries[wants[b]] = mine[b] /\ mine[b] # mine[a] /\ wants[b] \in Target
    BY <1>1, <2>2, <2>3 DEF OwnersTrue, HintTypes, Owns
  <2>5. QED BY <1>1, <1>2, <2>4
<1>6. AnswersStay'
  <2>1. SUFFICES ASSUME NEW k \in DOMAIN made, made[k].closed, made[k].outcome \in Conclusive
                 PROVE  entries'[made[k].of] = k
    BY <1>1 DEF AnswersStay
  <2>2. made[k] \in Entry /\ entries[made[k].of] = k
    BY <1>1, <2>1 DEF AnswersStay
  <2>3. k # mine[a]
    BY <1>2, <2>1
  <2>4. QED BY <1>1, <1>2, <2>2, <2>3 DEF Entry
<1>7. QED BY <1>3, <1>4, <1>5, <1>6

LEMMA CloseEntryKeeps ==
  ASSUME HintInv, NEW a \in Asker, CloseEntry(a)
  PROVE  HintInv'
<1> USE DEF HintInv
<1>1. /\ hpc \in [Asker -> HintPlaces] /\ made \in Seq(Entry) /\ entries \in [Target -> Nat]
      /\ hpc[a] = "close" /\ Owns(a)
      /\ UNCHANGED <<wants, entries, mine>> /\ hpc' = [hpc EXCEPT ![a] = "over"]
      /\ made' = [made EXCEPT ![mine[a]].closed = TRUE]
  BY DEF HintTypes, CloseEntry, Owns, Give, HintTo
<1> DEFINE n == mine[a]
<1>2. /\ n \in DOMAIN made /\ made[n] \in Entry /\ made[n].of = wants[a]
      /\ made[n].outcome \in Conclusive => entries[wants[a]] = n
  BY <1>1 DEF OwnersTrue
<1>3. /\ DOMAIN made' = DOMAIN made /\ \A k \in DOMAIN made : k # n => made'[k] = made[k]
      /\ made'[n].of = made[n].of /\ made'[n].outcome = made[n].outcome /\ made'[n] \in Entry
  BY <1>1, <1>2 DEF Entry
<1>4. HintTypes'
  <2>1. made' \in Seq(Entry)
    BY <1>1, <1>2, <1>3
  <2>2. QED BY <1>1, <2>1 DEF HintTypes, HintPlaces
<1> HIDE DEF n
<1>5. MapTrue'
  BY <1>1, <1>3 DEF MapTrue
<1>6. OwnersTrue'
  <2>1. \A b \in Asker : Owns(b)' => Owns(b) /\ b # a /\ hpc'[b] = hpc[b]
    BY <1>1 DEF Owns
  <2>2. \A b \in Asker : Owns(b) /\ b # a => mine[b] # n
    BY <1>1 DEF OwnersTrue, n
  <2>3. QED BY <1>1, <1>3, <2>1, <2>2 DEF OwnersTrue
<1>7. AnswersStay'
  BY <1>1, <1>2, <1>3 DEF AnswersStay
<1>8. QED BY <1>4, <1>5, <1>6, <1>7

LEMMA HintInvStep ==
  ASSUME HintInv, [HintNext]_hintVars
  PROVE  HintInv'
<1>1. CASE UNCHANGED hintVars \/ CancelHints
  <2>1. UNCHANGED <<hpc, wants, entries, made, mine>>
    BY <1>1 DEF hintVars, CancelHints
  <2>2. QED BY <2>1 DEF HintInv, HintTypes, MapTrue, OwnersTrue, AnswersStay, Owns
<1>2. ASSUME NEW a \in Asker, FoundAlias(a) \/ Adopt(a) \/ GiveUpHint(a) PROVE HintInv'
  <2>1. /\ UNCHANGED <<entries, made, mine>> /\ hpc \in [Asker -> HintPlaces]
        /\ wants \in [Asker -> Target \cup {FirstWant}]
    BY <1>2 DEF FoundAlias, Adopt, GiveUpHint, HintInv, HintTypes
  <2>2. /\ hpc[a] \in {"idle", "wait"}
        /\ hpc' = [hpc EXCEPT ![a] = "ask"] \/ hpc' = [hpc EXCEPT ![a] = "over"]
    BY <1>2 DEF FoundAlias, Adopt, GiveUpHint, Give, HintTo
  <2>3. (\E t \in Target : wants' = [wants EXCEPT ![a] = t]) \/ (wants' = wants /\ hpc[a] = "wait")
    BY <1>2 DEF FoundAlias, Adopt, GiveUpHint
  <2>4. HintTypes'
    BY <2>1, <2>2, <2>3 DEF HintInv, HintTypes, HintPlaces
  <2>5. \A b \in Asker : Owns(b)' => Owns(b) /\ hpc'[b] = hpc[b] /\ wants'[b] = wants[b]
    BY <2>1, <2>2, <2>3 DEF Owns
  <2>6. OwnersTrue'
    BY <2>1, <2>5 DEF HintInv, OwnersTrue
  <2>7. QED BY <2>1, <2>4, <2>6 DEF HintInv, MapTrue, AnswersStay
<1>3. QED BY <1>1, <1>2, AskKeeps, LookUpKeeps, DropKeeps, CloseEntryKeeps DEF HintNext, HintStep

(* Workers share one lookup per target, for any number of them and of targets: *)
(* nobody looks up what somebody else does, nor what is answered already.      *)
THEOREM LookupsShared == HintSpec => []LookupShared
<1>1. HintInit => HintInv
  BY HintInvStart
<1>2. HintInv /\ [HintNext]_hintVars => HintInv'
  BY HintInvStep
<1>3. HintInv => LookupShared
  <2>1. SUFFICES ASSUME HintInv, NEW t \in Target
                 PROVE  /\ Cardinality(Looking(t)) <= 1
                        /\ Cardinality({k \in EntriesOf(t) :
                                          made[k].closed /\ made[k].outcome \in Conclusive}) <= 1
                        /\ Looking(t) # {} =>
                             \A k \in EntriesOf(t) : made[k].closed => made[k].outcome \notin Conclusive
    BY DEF LookupShared
  <2>2. \A a \in Looking(t) : Owns(a) /\ entries[t] = mine[a] /\ ~made[mine[a]].closed
    BY <2>1 DEF HintInv, OwnersTrue, Looking, Owns
  <2>3. \A a, b \in Looking(t) : a = b
    BY <2>1, <2>2 DEF HintInv, OwnersTrue, Looking
  <2> DEFINE Answered(S) == {k \in S : made[k].closed /\ made[k].outcome \in Conclusive}
  <2>4. \A k \in Answered(EntriesOf(t)) : k = entries[t]
    BY <2>1 DEF HintInv, AnswersStay, EntriesOf
  <2>5. Cardinality(Looking(t)) <= 1
    BY <2>3, AtMostOne
  <2>6. Cardinality(Answered(EntriesOf(t))) <= 1
    BY <2>4, AtMostOne
  <2>7. QED BY <2>2, <2>4, <2>5, <2>6
<1>4. QED BY <1>1, <1>2, <1>3, PTL DEF HintSpec

-----------------------------------------------------------------------------
(***************************************************************************)
(* The pool of DNS-over-TLS connections.  A connection in the pool owes    *)
(* nobody an answer, and one in use owes one to its query alone: that is   *)
(* what marking a connection bad after a failed read keeps up.             *)
(***************************************************************************)
Busy == {"write", "read", "close"}
Connection == [due : Seq(Query), ready : Seq(Query), open : BOOLEAN]
Clean(k) == conns[k].due = <<>> /\ conns[k].ready = <<>>
Owes(k, q) ==
  \/ conns[k].due = <<q>> /\ conns[k].ready = <<>>
  \/ conns[k].due = <<>> /\ conns[k].ready = <<q>>

DotTypes ==
  /\ qpc \in [Query -> {"dial", "over"} \cup Busy] /\ on \in [Query -> Nat]
  /\ bad \in [Query -> BOOLEAN] /\ DOMAIN heard = Query /\ heard = [q \in Query |-> heard[q]]
  /\ idle \in Seq(Nat) /\ conns \in Seq(Connection)

PoolClean == \A k \in ToSet(idle) : k \in DOMAIN conns /\ Clean(k)

HeldRight ==
  \A q \in Query :
    /\ qpc[q] \in {"dial", "write", "read"} => ~bad[q]
    /\ qpc[q] \in Busy => on[q] \in DOMAIN conns
    /\ qpc[q] = "write" => Clean(on[q])
    /\ qpc[q] = "read" => Owes(on[q], q)
    /\ qpc[q] = "close" => bad[q] \/ Clean(on[q])

DotInv == DotTypes /\ PoolClean /\ HeldRight /\ AnswersMatch

LEMMA ConnectionChanged ==
  ASSUME NEW r \in Connection, NEW d \in Seq(Query), NEW y \in Seq(Query)
  PROVE  /\ [r EXCEPT !.due = d] \in Connection
         /\ [r EXCEPT !.due = d, !.ready = y] \in Connection
         /\ [r EXCEPT !.due = d, !.ready = y].due = d
         /\ [r EXCEPT !.due = d, !.ready = y].ready = y
  BY DEF Connection

(* Taking a connection off the front of the pool. *)
LEMMA PoolShrinks ==
  ASSUME NEW s \in Seq(Nat), s # <<>>, IsInjective(s)
  PROVE  /\ Head(s) \in ToSet(s) /\ ToSet(Tail(s)) \subseteq ToSet(s) /\ Head(s) \notin ToSet(Tail(s))
         /\ IsInjective(Tail(s)) /\ Tail(s) \in Seq(Nat)
<1>1. /\ Len(s) \in Nat /\ Len(s) # 0 /\ DOMAIN s = 1..Len(s) /\ Head(s) = s[1]
      /\ Tail(s) \in Seq(Nat) /\ DOMAIN Tail(s) = 1..(Len(s) - 1)
      /\ \A i \in DOMAIN Tail(s) : Tail(s)[i] = s[i + 1]
  OBVIOUS
<1>2. \A i \in DOMAIN Tail(s) : i + 1 \in DOMAIN s /\ i + 1 # 1 /\ i \in Int
  BY <1>1
<1>3. 1 \in DOMAIN s
  BY <1>1
<1>4. \A i, j \in DOMAIN s : s[i] = s[j] => i = j
  BY DEF IsInjective
<1>5. Head(s) \in ToSet(s) /\ ToSet(Tail(s)) \subseteq ToSet(s)
  BY <1>1, <1>2, <1>3 DEF ToSet
<1>6. Head(s) \notin ToSet(Tail(s))
  BY <1>1, <1>2, <1>3, <1>4 DEF ToSet
<1>7. IsInjective(Tail(s))
  <2>1. SUFFICES ASSUME NEW i \in DOMAIN Tail(s), NEW j \in DOMAIN Tail(s), Tail(s)[i] = Tail(s)[j]
                 PROVE  i = j
    BY DEF IsInjective
  <2>2. i + 1 = j + 1
    BY <1>1, <1>2, <1>4, <2>1
  <2>3. QED BY <1>2, <2>2
<1>8. QED BY <1>1, <1>5, <1>6, <1>7

(* Putting one back. *)
LEMMA PoolGrows ==
  ASSUME NEW s \in Seq(Nat), IsInjective(s), NEW k \in Nat, k \notin ToSet(s)
  PROVE  /\ ToSet(Append(s, k)) = ToSet(s) \cup {k} /\ IsInjective(Append(s, k))
         /\ Append(s, k) \in Seq(Nat)
<1>1. /\ Len(s) \in Nat /\ DOMAIN s = 1..Len(s) /\ DOMAIN Append(s, k) = 1..(Len(s) + 1)
      /\ \A i \in DOMAIN s : Append(s, k)[i] = s[i]
      /\ Append(s, k)[Len(s) + 1] = k /\ Append(s, k) \in Seq(Nat)
  OBVIOUS
<1>2. DOMAIN Append(s, k) = DOMAIN s \cup {Len(s) + 1}
  BY <1>1
<1>3. QED BY <1>1, <1>2 DEF IsInjective, ToSet

(* Shutting a connection changes nothing that is due on it. *)
LEMMA ShutKeeps ==
  ASSUME DotTypes, NEW k \in DOMAIN conns, Shut(k)
  PROVE  /\ conns' \in Seq(Connection) /\ DOMAIN conns' = DOMAIN conns
         /\ \A j \in DOMAIN conns : conns'[j].due = conns[j].due /\ conns'[j].ready = conns[j].ready
<1>1. conns \in Seq(Connection) /\ conns[k] \in Connection
  BY DEF DotTypes
<1>2. conns' = [conns EXCEPT ![k] = [@ EXCEPT !.open = FALSE]]
  BY DEF Shut
<1>3. [conns[k] EXCEPT !.open = FALSE] \in Connection
  BY <1>1 DEF Connection
<1>4. conns' \in Seq(Connection) /\ DOMAIN conns' = DOMAIN conns
  BY <1>1, <1>2, <1>3
<1>5. \A j \in DOMAIN conns : conns'[j].due = conns[j].due /\ conns'[j].ready = conns[j].ready
  <2>1. /\ conns'[k] = [conns[k] EXCEPT !.open = FALSE]
        /\ \A j \in DOMAIN conns : j # k => conns'[j] = conns[j]
    BY <1>1, <1>2
  <2>2. conns'[k].due = conns[k].due /\ conns'[k].ready = conns[k].ready
    BY <1>1, <2>1 DEF Connection
  <2>3. QED BY <2>1, <2>2
<1>6. QED BY <1>4, <1>5

(* Steps that only drop connections from the pool, or shut some. *)
LEMMA DropsKeep ==
  ASSUME DotInv, UNCHANGED <<qpc, on, bad, heard>>,
         idle' = idle \/ (idle # <<>> /\ idle' = Tail(idle)),
         NEW k \in DOMAIN conns, Shut(k)
  PROVE  DotInv'
<1>1. DotTypes /\ PoolClean /\ HeldRight /\ AnswersMatch
  BY DEF DotInv
<1>2. idle' \in Seq(Nat) /\ ToSet(idle') \subseteq ToSet(idle) /\ IsInjective(idle')
  BY <1>1, PoolShrinks DEF DotTypes, AnswersMatch
<1>3. /\ conns' \in Seq(Connection) /\ DOMAIN conns' = DOMAIN conns
      /\ \A j \in DOMAIN conns : conns'[j].due = conns[j].due /\ conns'[j].ready = conns[j].ready
  BY <1>1, ShutKeeps
<1>4. DotTypes'
  BY <1>1, <1>2, <1>3 DEF DotTypes
<1>5. PoolClean'
  BY <1>1, <1>2, <1>3 DEF PoolClean, Clean
<1>6. HeldRight'
  <2>1. SUFFICES ASSUME NEW q \in Query
                 PROVE  /\ qpc[q] \in {"dial", "write", "read"} => ~bad[q]
                        /\ qpc[q] \in Busy => on[q] \in DOMAIN conns
                        /\ qpc[q] = "write" => Clean(on[q])'
                        /\ qpc[q] = "read" => Owes(on[q], q)'
                        /\ qpc[q] = "close" => bad[q] \/ Clean(on[q])'
    BY <1>3 DEF HeldRight
  <2>2. CASE qpc[q] \in Busy
    <3>1. on[q] \in DOMAIN conns
      BY <1>1, <2>2 DEF HeldRight
    <3>2. (Clean(on[q])' <=> Clean(on[q])) /\ (Owes(on[q], q)' <=> Owes(on[q], q))
      BY <1>3, <3>1 DEF Clean, Owes
    <3>3. QED BY <1>1, <3>1, <3>2 DEF HeldRight
  <2>3. CASE qpc[q] \notin Busy
    BY <1>1, <2>3 DEF HeldRight, Busy
  <2>4. QED BY <2>2, <2>3
<1>7. AnswersMatch'
  BY <1>1, <1>2 DEF AnswersMatch, InUse
<1>8. QED BY <1>4, <1>5, <1>6, <1>7 DEF DotInv

(* A query takes a connection nobody else has, from the pool or a new one.     *)
LEMMA TakesKeep ==
  ASSUME DotInv, NEW q \in Query, qpc[q] = "dial", NEW k \in Nat,
         on' = [on EXCEPT ![q] = k], qpc' = [qpc EXCEPT ![q] = "write"], UNCHANGED <<bad, heard>>,
         idle' \in Seq(Nat), ToSet(idle') \subseteq ToSet(idle), IsInjective(idle'), k \notin ToSet(idle'),
         conns' \in Seq(Connection), k \in DOMAIN conns', Clean(k)',
         DOMAIN conns \subseteq DOMAIN conns', \A j \in DOMAIN conns : conns'[j] = conns[j],
         \A p \in InUse : on[p] # k
  PROVE  DotInv'
<1>1. DotTypes /\ PoolClean /\ HeldRight /\ AnswersMatch
  BY DEF DotInv
<1>2. qpc \in [Query -> {"dial", "over"} \cup Busy] /\ on \in [Query -> Nat] /\ bad \in [Query -> BOOLEAN]
  BY <1>1 DEF DotTypes
<1>3. DotTypes'
  BY <1>1, <1>2 DEF DotTypes, Busy
<1>4. PoolClean'
  BY <1>1 DEF PoolClean, Clean
<1>5. \A p \in Query : p # q => qpc'[p] = qpc[p] /\ on'[p] = on[p]
  BY <1>2
<1>6. qpc'[q] = "write" /\ on'[q] = k /\ ~bad[q]
  BY <1>1, <1>2 DEF HeldRight
<1>7. HeldRight'
  <2>1. SUFFICES ASSUME NEW p \in Query
                 PROVE  /\ qpc'[p] \in {"dial", "write", "read"} => ~bad'[p]
                        /\ qpc'[p] \in Busy => on'[p] \in DOMAIN conns'
                        /\ qpc'[p] = "write" => Clean(on[p])'
                        /\ qpc'[p] = "read" => Owes(on[p], p)'
                        /\ qpc'[p] = "close" => bad'[p] \/ Clean(on[p])'
    BY DEF HeldRight
  <2>2. CASE p = q
    BY <1>6, <2>2 DEF Clean
  <2>3. CASE p # q
    BY <1>1, <1>5, <2>3 DEF HeldRight, Clean, Owes, Busy
  <2>4. QED BY <2>2, <2>3
<1>8. AnswersMatch'
  <2>1. InUse' = InUse \cup {q} /\ q \notin InUse
    BY <1>2, <1>5, <1>6 DEF InUse
  <2>2. \A p \in InUse : p # q /\ on'[p] = on[p] /\ on'[p] # k
    BY <1>5, <2>1 DEF InUse
  <2>3. \A p, r \in InUse' : p # r => on'[p] # on'[r]
    BY <1>1, <1>6, <2>1, <2>2 DEF AnswersMatch
  <2>4. \A p \in InUse' : on'[p] \notin ToSet(idle')
    BY <1>1, <1>6, <2>1, <2>2 DEF AnswersMatch
  <2>5. QED BY <1>1, <2>3, <2>4 DEF AnswersMatch
<1>9. QED BY <1>3, <1>4, <1>7, <1>8 DEF DotInv

LEMMA DialPooledKeeps ==
  ASSUME DotInv, NEW q \in Query, DialPooled(q)
  PROVE  DotInv'
<1>1. DotTypes /\ PoolClean /\ HeldRight /\ AnswersMatch
  BY DEF DotInv
<1>2. idle \in Seq(Nat) /\ idle # <<>> /\ idle' = Tail(idle) /\ qpc[q] = "dial" /\ UNCHANGED <<bad, heard>>
  BY <1>1 DEF DialPooled, DotTypes
<1>3. PICK k \in Nat : k = Head(idle)
  BY <1>2
<1>4. /\ k \in ToSet(idle) /\ ToSet(idle') \subseteq ToSet(idle) /\ k \notin ToSet(idle')
      /\ IsInjective(idle') /\ idle' \in Seq(Nat)
  BY <1>1, <1>2, <1>3, PoolShrinks DEF AnswersMatch
<1>5. k \in DOMAIN conns /\ Clean(k) /\ k \in Nat /\ \A p \in InUse : on[p] # k
  BY <1>1, <1>2, <1>4 DEF PoolClean, AnswersMatch
<1>6. CASE on' = [on EXCEPT ![q] = k] /\ DotTo(q, "write") /\ UNCHANGED conns
  <2>1. conns' \in Seq(Connection)
    BY <1>1, <1>6 DEF DotTypes
  <2>2. Clean(k)'
    BY <1>2, <1>5, <1>6 DEF Clean
  <2>3. QED BY <1>2, <1>4, <1>5, <1>6, <2>1, <2>2, TakesKeep DEF DotTo
<1>7. CASE Shut(k) /\ UNCHANGED <<qpc, on>>
  BY <1>2, <1>5, <1>7, DropsKeep
<1>8. QED BY <1>3, <1>6, <1>7 DEF DialPooled

LEMMA DialNewKeeps ==
  ASSUME DotInv, NEW q \in Query, DialNew(q)
  PROVE  DotInv'
<1>1. DotTypes /\ PoolClean /\ HeldRight /\ AnswersMatch
  BY DEF DotInv
<1>2. /\ qpc[q] = "dial" /\ UNCHANGED <<bad, heard, idle>> /\ idle = <<>>
      /\ conns \in Seq(Connection) /\ Len(conns) \in Nat /\ DOMAIN conns = 1..Len(conns)
      /\ qpc \in [Query -> {"dial", "over"} \cup Busy]
  BY <1>1 DEF DialNew, DotTypes
<1>3. CASE /\ conns' = Append(conns, Fresh) /\ on' = [on EXCEPT ![q] = Len(conns) + 1]
           /\ DotTo(q, "write")
  <2>1. PICK k \in Nat : k = Len(conns) + 1
    BY <1>2
  <2>2. Fresh \in Connection
    BY DEF Fresh, Connection
  <2>3. /\ conns' \in Seq(Connection) /\ DOMAIN conns' = 1..k /\ conns'[k] = Fresh
        /\ \A j \in DOMAIN conns : conns'[j] = conns[j]
    BY <1>2, <1>3, <2>1, <2>2
  <2>4. Clean(k)'
    BY <2>3 DEF Clean, Fresh
  <2>5. k \in DOMAIN conns' /\ DOMAIN conns \subseteq DOMAIN conns' /\ k \notin DOMAIN conns
    BY <1>2, <2>1, <2>3
  <2>6. \A p \in InUse : on[p] # k
    BY <1>1, <2>5 DEF InUse, HeldRight, Busy
  <2>7. ToSet(idle') \subseteq ToSet(idle) /\ idle' \in Seq(Nat) /\ IsInjective(idle') /\ k \notin ToSet(idle')
    BY <1>1, <1>2, <2>5 DEF DotTypes, AnswersMatch, PoolClean
  <2>8. QED BY <1>2, <1>3, <2>1, <2>3, <2>4, <2>5, <2>6, <2>7, TakesKeep DEF DotTo
<1>4. CASE DotTo(q, "over") /\ UNCHANGED <<on, conns>>
  <2>1. qpc' = [qpc EXCEPT ![q] = "over"]
    BY <1>4 DEF DotTo
  <2>2. \A p \in Query : p # q => qpc'[p] = qpc[p]
    BY <1>2, <2>1
  <2>3. DotTypes'
    BY <1>1, <1>2, <1>4, <2>1 DEF DotTypes
  <2>4. HeldRight'
    BY <1>1, <1>2, <1>4, <2>1, <2>2 DEF HeldRight, Busy, Clean, Owes
  <2>5. InUse' = InUse
    BY <1>2, <2>1, <2>2 DEF InUse
  <2>6. QED BY <1>1, <1>2, <1>4, <2>3, <2>4, <2>5 DEF DotInv, PoolClean, Clean, AnswersMatch
<1>5. QED BY <1>3, <1>4 DEF DialNew

(* A query writes on its connection, reads from it or gives up.  Nobody else   *)
(* holds it, so nobody else's answer is on it.                                 *)
LEMMA UsesKeep ==
  ASSUME DotInv, NEW q \in Query, qpc[q] \in Busy, NEW place \in Busy,
         qpc' = [qpc EXCEPT ![q] = place], UNCHANGED <<on, idle>>,
         bad' \in [Query -> BOOLEAN], \A p \in Query : p # q => bad'[p] = bad[p],
         heard' = heard \/ heard' = [heard EXCEPT ![q] = q],
         conns' \in Seq(Connection), DOMAIN conns' = DOMAIN conns,
         \A j \in DOMAIN conns : j # on[q] => conns'[j] = conns[j],
         /\ place \in {"write", "read"} => ~bad'[q]
         /\ place = "write" => Clean(on[q])'
         /\ place = "read" => Owes(on[q], q)'
         /\ place = "close" => bad'[q] \/ Clean(on[q])'
  PROVE  DotInv'
<1>1. DotTypes /\ PoolClean /\ HeldRight /\ AnswersMatch
  BY DEF DotInv
<1>2. /\ qpc \in [Query -> {"dial", "over"} \cup Busy] /\ on \in [Query -> Nat]
      /\ qpc'[q] = place /\ \A p \in Query : p # q => qpc'[p] = qpc[p]
  BY <1>1 DEF DotTypes
<1>3. InUse' = InUse /\ q \in InUse
  BY <1>2 DEF InUse, Busy
<1>4. DotTypes'
  BY <1>1, <1>2 DEF DotTypes
<1>5. PoolClean'
  <2>1. \A k \in ToSet(idle) : k # on[q]
    BY <1>1, <1>3 DEF AnswersMatch
  <2>2. QED BY <1>1, <2>1 DEF PoolClean, Clean
<1>6. HeldRight'
  <2>1. SUFFICES ASSUME NEW p \in Query
                 PROVE  /\ qpc'[p] \in {"dial", "write", "read"} => ~bad'[p]
                        /\ qpc'[p] \in Busy => on[p] \in DOMAIN conns
                        /\ qpc'[p] = "write" => Clean(on[p])'
                        /\ qpc'[p] = "read" => Owes(on[p], p)'
                        /\ qpc'[p] = "close" => bad'[p] \/ Clean(on[p])'
    BY DEF HeldRight
  <2>2. CASE p = q
    BY <1>1, <1>2, <2>2 DEF HeldRight, Busy
  <2>3. CASE p # q /\ qpc[p] \in Busy
    <3>1. on[p] # on[q] /\ on[p] \in DOMAIN conns
      BY <1>1, <1>3, <2>3 DEF AnswersMatch, InUse, Busy, HeldRight
    <3>2. conns'[on[p]] = conns[on[p]]
      BY <3>1
    <3>3. (Clean(on[p])' <=> Clean(on[p])) /\ (Owes(on[p], p)' <=> Owes(on[p], p))
      BY <3>2 DEF Clean, Owes
    <3>4. QED BY <1>1, <1>2, <2>3, <3>1, <3>3 DEF HeldRight
  <2>4. CASE p # q /\ qpc[p] \notin Busy
    BY <1>1, <1>2, <2>4 DEF HeldRight, Busy
  <2>5. QED BY <2>2, <2>3, <2>4
<1>7. AnswersMatch'
  <2>1. \A p \in Query : heard'[p] \in {p, "none"}
    BY <1>1 DEF AnswersMatch, DotTypes
  <2>2. QED BY <1>1, <1>3, <2>1 DEF AnswersMatch
<1>8. QED BY <1>4, <1>5, <1>6, <1>7 DEF DotInv

LEMMA WritesKeep ==
  ASSUME DotInv, NEW q \in Query, WriteQuery(q)
  PROVE  DotInv'
<1>1. DotTypes /\ HeldRight
  BY DEF DotInv
<1>2. /\ qpc[q] = "write" /\ UNCHANGED <<on, heard, idle>> /\ on[q] \in DOMAIN conns /\ Clean(on[q]) /\ ~bad[q]
      /\ conns \in Seq(Connection) /\ conns[on[q]] \in Connection /\ bad \in [Query -> BOOLEAN]
  BY <1>1 DEF WriteQuery, HeldRight, Busy, DotTypes
<1>3. CASE /\ conns' = [conns EXCEPT ![on[q]].due = Append(@, q)] /\ DotTo(q, "read") /\ UNCHANGED bad
  <2>1. conns' = [conns EXCEPT ![on[q]] = [conns[on[q]] EXCEPT !.due = Append(conns[on[q]].due, q)]]
    BY <1>3
  <2>2. [conns[on[q]] EXCEPT !.due = Append(conns[on[q]].due, q)] \in Connection
    <3>1. Append(conns[on[q]].due, q) \in Seq(Query)
      BY <1>2 DEF Connection
    <3>2. QED BY <1>2, <3>1, ConnectionChanged
  <2>3. /\ conns' \in Seq(Connection) /\ DOMAIN conns' = DOMAIN conns
        /\ \A j \in DOMAIN conns : j # on[q] => conns'[j] = conns[j]
        /\ conns'[on[q]] = [conns[on[q]] EXCEPT !.due = Append(conns[on[q]].due, q)]
    BY <1>2, <2>1, <2>2
  <2>4. conns'[on[q]].due = <<q>> /\ conns'[on[q]].ready = <<>>
    <3>1. conns[on[q]].due = <<>> /\ conns[on[q]].ready = <<>>
      BY <1>2 DEF Clean
    <3>2. conns'[on[q]].due = Append(conns[on[q]].due, q) /\ conns'[on[q]].ready = conns[on[q]].ready
      BY <1>2, <2>3 DEF Connection
    <3>3. Append(<<>>, q) = <<q>>
      OBVIOUS
    <3>4. QED BY <3>1, <3>2, <3>3
  <2>5. Owes(on[q], q)'
    BY <1>2, <2>4 DEF Owes
  <2>6. qpc[q] \in Busy /\ "read" \in Busy
    BY <1>2 DEF Busy
  <2>7. QED BY <1>2, <1>3, <2>3, <2>5, <2>6, UsesKeep DEF DotTo
<1>4. CASE bad' = [bad EXCEPT ![q] = TRUE] /\ DotTo(q, "close") /\ UNCHANGED conns
  <2>1. bad' \in [Query -> BOOLEAN] /\ bad'[q] /\ \A p \in Query : p # q => bad'[p] = bad[p]
    BY <1>2, <1>4
  <2>2. qpc[q] \in Busy /\ "close" \in Busy
    BY <1>2 DEF Busy
  <2>3. QED BY <1>2, <1>4, <2>1, <2>2, UsesKeep DEF DotTo
<1>5. QED BY <1>3, <1>4 DEF WriteQuery

LEMMA ReadsKeep ==
  ASSUME DotInv, NEW q \in Query, ReadAnswer(q)
  PROVE  DotInv'
<1>1. DotTypes /\ HeldRight
  BY DEF DotInv
<1>2. /\ qpc[q] = "read" /\ UNCHANGED <<on, bad, idle>> /\ on[q] \in DOMAIN conns /\ Owes(on[q], q)
      /\ conns[on[q]].ready # <<>>
      /\ heard' = [heard EXCEPT ![q] = Head(conns[on[q]].ready)]
      /\ conns' = [conns EXCEPT ![on[q]].ready = Tail(@)]
      /\ conns \in Seq(Connection) /\ conns[on[q]] \in Connection /\ bad \in [Query -> BOOLEAN]
  BY <1>1 DEF ReadAnswer, HeldRight, Busy, DotTypes
<1>3. conns[on[q]].due = <<>> /\ conns[on[q]].ready = <<q>>
  BY <1>2 DEF Owes
<1>4. Head(<<q>>) = q /\ Tail(<<q>>) = <<>>
  OBVIOUS
<1>5. [conns[on[q]] EXCEPT !.ready = Tail(conns[on[q]].ready)] \in Connection
  BY <1>2, <1>3, <1>4 DEF Connection
<1>6. /\ conns' \in Seq(Connection) /\ DOMAIN conns' = DOMAIN conns
      /\ \A j \in DOMAIN conns : j # on[q] => conns'[j] = conns[j]
      /\ conns'[on[q]] = [conns[on[q]] EXCEPT !.ready = Tail(conns[on[q]].ready)]
  BY <1>2, <1>5
<1>7. Clean(on[q])'
  <2>1. conns'[on[q]].due = conns[on[q]].due /\ conns'[on[q]].ready = Tail(conns[on[q]].ready)
    BY <1>2, <1>6 DEF Connection
  <2>2. QED BY <1>2, <1>3, <1>4, <2>1 DEF Clean
<1>8. heard' = [heard EXCEPT ![q] = q] /\ qpc[q] \in Busy /\ "close" \in Busy
  BY <1>2, <1>3, <1>4 DEF Busy
<1>9. qpc' = [qpc EXCEPT ![q] = "close"]
  BY DEF ReadAnswer, DotTo
<1>10. QED BY <1>2, <1>6, <1>7, <1>8, <1>9, UsesKeep

(* What failed is marked, and so never reused. *)
LEMMA FailsKeep ==
  ASSUME DotInv, NEW q \in Query, ReadFails(q)
  PROVE  DotInv'
<1>1. /\ qpc[q] = "read" /\ UNCHANGED <<on, heard, idle, conns>> /\ bad' = [bad EXCEPT ![q] = TRUE]
      /\ qpc' = [qpc EXCEPT ![q] = "close"] /\ conns \in Seq(Connection) /\ bad \in [Query -> BOOLEAN]
  BY DEF ReadFails, MarkBad, DotTo, DotInv, DotTypes
<1>2. bad' \in [Query -> BOOLEAN] /\ bad'[q] /\ \A p \in Query : p # q => bad'[p] = bad[p]
  BY <1>1
<1>3. qpc[q] \in Busy /\ "close" \in Busy
  BY <1>1 DEF Busy
<1>4. QED BY <1>1, <1>2, <1>3, UsesKeep

LEMMA CloseConnKeeps ==
  ASSUME DotInv, NEW q \in Query, CloseConn(q)
  PROVE  DotInv'
<1>1. DotTypes /\ PoolClean /\ HeldRight /\ AnswersMatch
  BY DEF DotInv
<1>2. /\ qpc[q] = "close" /\ qpc' = [qpc EXCEPT ![q] = "over"] /\ UNCHANGED <<on, bad, heard>>
      /\ qpc \in [Query -> {"dial", "over"} \cup Busy] /\ on[q] \in Nat /\ on[q] \in DOMAIN conns
      /\ bad[q] \/ Clean(on[q])
  BY <1>1 DEF CloseConn, DotTo, DotTypes, HeldRight, Busy
<1>3. /\ qpc'[q] = "over" /\ \A p \in Query : p # q => qpc'[p] = qpc[p]
      /\ qpc' \in [Query -> {"dial", "over"} \cup Busy]
  BY <1>2
<1>4. InUse' = InUse \ {q} /\ q \in InUse
  BY <1>2, <1>3 DEF InUse
<1>5. /\ idle' \in Seq(Nat) /\ IsInjective(idle') /\ ToSet(idle') \subseteq ToSet(idle) \cup {on[q]}
      /\ ~bad[q] \/ on[q] \notin ToSet(idle')
  <2>1. CASE idle' = Append(idle, on[q]) /\ ~bad[q]
    <3>1. idle \in Seq(Nat) /\ IsInjective(idle) /\ on[q] \notin ToSet(idle)
      BY <1>1, <1>4 DEF AnswersMatch, DotTypes
    <3>2. QED BY <1>2, <2>1, <3>1, PoolGrows
  <2>2. CASE idle' = idle
    BY <1>1, <1>4, <2>2 DEF AnswersMatch, DotTypes
  <2>3. QED BY <2>1, <2>2 DEF CloseConn
<1>6. /\ conns' \in Seq(Connection) /\ DOMAIN conns' = DOMAIN conns
      /\ \A j \in DOMAIN conns : conns'[j].due = conns[j].due /\ conns'[j].ready = conns[j].ready
  <2>1. CASE UNCHANGED conns
    BY <1>1, <2>1 DEF DotTypes
  <2>2. CASE Shut(on[q])
    BY <1>1, <1>2, <2>2, ShutKeeps
  <2>3. QED BY <2>1, <2>2 DEF CloseConn
<1>7. DotTypes'
  BY <1>1, <1>2, <1>3, <1>5, <1>6 DEF DotTypes
<1>8. PoolClean'
  <2>1. SUFFICES ASSUME NEW k \in ToSet(idle') PROVE k \in DOMAIN conns /\ Clean(k)
    BY <1>6 DEF PoolClean, Clean
  <2>2. CASE k = on[q]
    BY <1>2, <1>5, <2>1, <2>2
  <2>3. CASE k \in ToSet(idle)
    BY <1>1, <2>3 DEF PoolClean
  <2>4. QED BY <1>5, <2>1, <2>2, <2>3
<1>9. HeldRight'
  <2>1. SUFFICES ASSUME NEW p \in Query, p # q
                 PROVE  /\ qpc[p] \in {"dial", "write", "read"} => ~bad[p]
                        /\ qpc[p] \in Busy => on[p] \in DOMAIN conns
                        /\ qpc[p] = "write" => Clean(on[p])'
                        /\ qpc[p] = "read" => Owes(on[p], p)'
                        /\ qpc[p] = "close" => bad[p] \/ Clean(on[p])'
    BY <1>2, <1>3, <1>6 DEF HeldRight, Busy
  <2>2. CASE qpc[p] \in Busy
    <3>1. on[p] \in DOMAIN conns
      BY <1>1, <2>2 DEF HeldRight
    <3>2. (Clean(on[p])' <=> Clean(on[p])) /\ (Owes(on[p], p)' <=> Owes(on[p], p))
      BY <1>2, <1>6, <3>1 DEF Clean, Owes
    <3>3. QED BY <1>1, <3>1, <3>2 DEF HeldRight
  <2>3. CASE qpc[p] \notin Busy
    BY <1>1, <2>3 DEF HeldRight, Busy
  <2>4. QED BY <2>2, <2>3
<1>10. AnswersMatch'
  <2>1. \A p, r \in InUse' : p # r => on'[p] # on'[r]
    BY <1>1, <1>2, <1>4 DEF AnswersMatch
  <2>2. \A p \in InUse' : on'[p] \notin ToSet(idle')
    BY <1>1, <1>2, <1>4, <1>5 DEF AnswersMatch
  <2>3. QED BY <1>1, <1>2, <1>5, <2>1, <2>2 DEF AnswersMatch
<1>11. QED BY <1>7, <1>8, <1>9, <1>10 DEF DotInv

(* The server answers on a connection that owes an answer: it is in use.       *)
LEMMA ServerKeeps ==
  ASSUME DotInv, NEW k \in DOMAIN conns, ServerAnswers(k)
  PROVE  DotInv'
<1>1. DotTypes /\ PoolClean /\ HeldRight /\ AnswersMatch
  BY DEF DotInv
<1>2. /\ UNCHANGED <<qpc, on, bad, heard, idle>> /\ conns[k].due # <<>>
      /\ conns \in Seq(Connection) /\ conns[k] \in Connection
      /\ conns' = [conns EXCEPT ![k].due = Tail(@), ![k].ready = Append(@, Head(conns[k].due))]
  BY <1>1 DEF ServerAnswers, DotTypes
<1>3. conns[k].due \in Seq(Query) /\ conns[k].ready \in Seq(Query)
  BY <1>2 DEF Connection
<1>4. PICK d \in Seq(Query) : d = Tail(conns[k].due)
  <2>1. Tail(conns[k].due) \in Seq(Query)
    BY <1>2, <1>3
  <2>2. QED BY <2>1
<1>5. PICK y \in Seq(Query) : y = Append(conns[k].ready, Head(conns[k].due))
  <2>1. Head(conns[k].due) \in Query
    BY <1>2, <1>3
  <2>2. Append(conns[k].ready, Head(conns[k].due)) \in Seq(Query)
    BY <1>3, <2>1
  <2>3. QED BY <2>2
<1>6. /\ conns' \in Seq(Connection) /\ DOMAIN conns' = DOMAIN conns
      /\ conns'[k].due = d /\ conns'[k].ready = y
      /\ \A j \in DOMAIN conns : j # k => conns'[j] = conns[j]
  <2>1. PICK once : once = [conns EXCEPT ![k] = [conns[k] EXCEPT !.due = d]]
    OBVIOUS
  <2>2. /\ once \in Seq(Connection) /\ DOMAIN once = DOMAIN conns /\ once[k] = [conns[k] EXCEPT !.due = d]
        /\ \A j \in DOMAIN conns : j # k => once[j] = conns[j]
    <3>1. [conns[k] EXCEPT !.due = d] \in Connection
      BY <1>2, ConnectionChanged
    <3>2. QED BY <1>2, <2>1, <3>1
  <2>3. conns' = [once EXCEPT ![k] = [once[k] EXCEPT !.ready = y]]
    BY <1>2, <1>4, <1>5, <2>1, <2>2 DEF Connection
  <2>4. PICK c \in Connection : c = [once[k] EXCEPT !.ready = y] /\ c.due = d /\ c.ready = y
    <3>1. once[k] \in Connection /\ once[k].due = d
      BY <1>2, <2>2 DEF Connection
    <3>2. /\ [once[k] EXCEPT !.ready = y] \in Connection /\ [once[k] EXCEPT !.ready = y].due = d
          /\ [once[k] EXCEPT !.ready = y].ready = y
      BY <3>1 DEF Connection
    <3>3. QED BY <3>2
  <2>5. QED BY <2>2, <2>3, <2>4
<1>7. DotTypes'
  BY <1>1, <1>2, <1>6 DEF DotTypes
<1>8. PoolClean'
  <2>1. \A j \in ToSet(idle) : j # k
    BY <1>1, <1>2 DEF PoolClean, Clean
  <2>2. QED BY <1>1, <1>2, <1>6, <2>1 DEF PoolClean, Clean
<1>9. HeldRight'
  <2>1. SUFFICES ASSUME NEW p \in Query
                 PROVE  /\ qpc[p] \in {"dial", "write", "read"} => ~bad[p]
                        /\ qpc[p] \in Busy => on[p] \in DOMAIN conns
                        /\ qpc[p] = "write" => Clean(on[p])'
                        /\ qpc[p] = "read" => Owes(on[p], p)'
                        /\ qpc[p] = "close" => bad[p] \/ Clean(on[p])'
    BY <1>2, <1>6 DEF HeldRight
  <2>2. CASE qpc[p] \in Busy /\ on[p] # k
    <3>1. on[p] \in DOMAIN conns /\ conns'[on[p]] = conns[on[p]]
      BY <1>1, <1>6, <2>2 DEF HeldRight
    <3>2. (Clean(on[p])' <=> Clean(on[p])) /\ (Owes(on[p], p)' <=> Owes(on[p], p))
      BY <1>2, <3>1 DEF Clean, Owes
    <3>3. QED BY <1>1, <3>1, <3>2 DEF HeldRight
  <2>3. CASE qpc[p] \in Busy /\ on[p] = k
    <3>1. qpc[p] # "write" /\ (qpc[p] = "close" => bad[p])
      BY <1>1, <1>2, <2>3 DEF HeldRight, Clean
    <3>2. CASE qpc[p] = "read"
      <4>1. conns[k].due = <<p>> /\ conns[k].ready = <<>>
        BY <1>1, <1>2, <2>3, <3>2 DEF HeldRight, Owes
      <4>2. Tail(<<p>>) = <<>> /\ Append(<<>>, Head(<<p>>)) = <<p>>
        OBVIOUS
      <4>3. conns'[k].due = <<>> /\ conns'[k].ready = <<p>>
        BY <1>4, <1>5, <1>6, <4>1, <4>2
      <4>4. Owes(on[p], p)'
        BY <1>2, <2>3, <4>3 DEF Owes
      <4>5. QED BY <1>1, <3>2, <4>4 DEF HeldRight, Busy
    <3>3. CASE qpc[p] = "close"
      BY <1>1, <3>1, <3>3 DEF HeldRight, Busy
    <3>4. QED BY <2>3, <3>1, <3>2, <3>3 DEF Busy
  <2>4. CASE qpc[p] \notin Busy
    BY <1>1, <2>4 DEF HeldRight, Busy
  <2>5. QED BY <2>2, <2>3, <2>4
<1>10. AnswersMatch'
  BY <1>1, <1>2 DEF AnswersMatch, InUse
<1>11. QED BY <1>7, <1>8, <1>9, <1>10 DEF DotInv

LEMMA DotInvStep ==
  ASSUME DotInv, [DotNext]_dotVars
  PROVE  DotInv'
<1>1. CASE UNCHANGED dotVars
  BY <1>1 DEF dotVars, DotInv, DotTypes, PoolClean, HeldRight, AnswersMatch, Clean, Owes, InUse
<1>2. CASE CloseIdleOne
  <2>1. PICK k \in Nat : k = Head(idle)
    BY <1>2 DEF CloseIdleOne, DotInv, DotTypes
  <2>2. k \in ToSet(idle)
    BY <1>2, <2>1, PoolShrinks DEF CloseIdleOne, DotInv, DotTypes, AnswersMatch
  <2>3. k \in DOMAIN conns
    BY <2>2 DEF DotInv, PoolClean
  <2>4. QED BY <1>2, <2>1, <2>3, DropsKeep DEF CloseIdleOne
<1>3. ASSUME NEW q \in Query,
             \/ DialPooled(q) \/ DialNew(q) \/ WriteQuery(q) \/ ReadAnswer(q)
             \/ ReadFails(q) \/ CloseConn(q)
      PROVE  DotInv'
  BY <1>3, DialPooledKeeps, DialNewKeeps, WritesKeep, ReadsKeep, FailsKeep, CloseConnKeeps
<1>4. ASSUME NEW k \in DOMAIN conns, ServerCloses(k) PROVE DotInv'
  BY <1>4, DropsKeep DEF ServerCloses
<1>5. QED BY <1>1, <1>2, <1>3, <1>4, ServerKeeps DEF DotNext

(* For any number of queries and any size of the pool, a query reads its own   *)
(* answer or none, and no connection is in two hands.                          *)
THEOREM AnswersAreOwn == DotSpec => []AnswersMatch
<1>1. DotInit => DotInv
  <2>1. SUFFICES ASSUME DotInit PROVE DotInv
    OBVIOUS
  <2>2. <<>> \in Seq(Nat) /\ <<>> \in Seq(Connection) /\ ToSet(<<>>) = {} /\ IsInjective(<<>>)
    BY DEF ToSet, IsInjective
  <2>3. DotTypes
    BY <2>1, <2>2 DEF DotInit, DotTypes, NoConn
  <2>4. \A q \in Query : qpc[q] = "dial" /\ ~bad[q]
    BY <2>1 DEF DotInit
  <2>5. PoolClean /\ HeldRight /\ AnswersMatch
    BY <2>1, <2>2, <2>4 DEF DotInit, PoolClean, HeldRight, AnswersMatch, InUse, Busy
  <2>6. QED BY <2>3, <2>5 DEF DotInv
<1>2. DotInv /\ [DotNext]_dotVars => DotInv'
  BY DotInvStep
<1>3. DotInv => AnswersMatch
  BY DEF DotInv
<1>4. QED BY <1>1, <1>2, <1>3, PTL DEF DotSpec
=============================================================================
