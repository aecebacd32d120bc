------------------------------ MODULE OutputRun ------------------------------
(***************************************************************************)
(* The results file of a CLI run (internal/output/file.go, writer.go and   *)
(* the end of run in main.go): results go through a buffered writer to a   *)
(* temporary file that replaces the named one when a scan has finished and *)
(* nothing failed.  A target that is not a regular file is written to      *)
(* directly.  The format decides whether results are streamed or held back *)
(* until Finish; how one is rendered is left out.                          *)
(***************************************************************************)
EXTENDS Integers, Sequences

CONSTANTS
  MaxEmitted,  \* bound: results of the run
  Capacity     \* the results that fit the writer's buffer

VARIABLES
  opc,       \* where the run is
  inJSON,      \* is the format JSON: results held until Finish
  direct,    \* the target is not a regular file
  given,   \* the results given to Emit
  queued,    \* Writer.buffered
  buffer,    \* the bufio.Writer's buffer
  sticky,    \* and its error
  written,   \* what reached the open file
  temporary, \* the temporary file exists
  target,    \* the content of the named file
  anyDone,   \* a scan has finished
  anyBad,    \* anyFailed: a target failed
  stopped,   \* a signal arrived
  reported,  \* fileErrReported
  closeErr,  \* the error of Close
  code       \* the exit code

fileVars == <<buffer, sticky, written>>
endVars == <<reported, closeErr, code>>
outVars == <<opc, inJSON, direct, given, queued, fileVars, temporary, target,
             anyDone, anyBad, stopped, endVars>>

Earlier == <<0>>   \* what the named file held before the run
NoCode == -1

OutInit ==
  /\ opc = "open" /\ inJSON \in BOOLEAN /\ direct \in BOOLEAN
  /\ given = <<>> /\ queued = <<>>
  /\ buffer = <<>> /\ sticky = FALSE /\ written = <<>>
  /\ temporary = FALSE /\ target = Earlier
  /\ anyDone = FALSE /\ anyBad = FALSE /\ stopped = FALSE
  /\ reported = FALSE /\ closeErr = FALSE /\ code = NoCode

-----------------------------------------------------------------------------
(* bufio.Writer: a flush that fails leaves a part in the file, and every later *)
(* write and flush fails with it.                                              *)
Spill(all, rest) ==
  \/ written' = written \o all /\ buffer' = rest /\ UNCHANGED sticky
  \/ /\ sticky' = TRUE /\ UNCHANGED buffer
     /\ \E n \in 0..Len(all) : written' = written \o SubSeq(all, 1, n)

Put(result) ==
  IF sticky THEN UNCHANGED fileVars
  ELSE IF Len(buffer) < Capacity
  THEN buffer' = Append(buffer, result) /\ UNCHANGED <<sticky, written>>
  ELSE Spill(buffer, <<result>>)

FlushWith(rest) ==
  IF sticky THEN UNCHANGED fileVars ELSE Spill(buffer \o rest, <<>>)

-----------------------------------------------------------------------------
OpenFile ==
  /\ opc = "open"
  /\ \/ opc' = "scan" /\ temporary' = ~direct /\ UNCHANGED code
     \/ opc' = "over" /\ code' = 1 /\ UNCHANGED temporary
  /\ UNCHANGED <<inJSON, direct, given, queued, fileVars, target, anyDone,
                 anyBad, stopped, reported, closeErr>>

(* Emit; a resumed run also emits what its state restored. *)
EmitResult ==
  /\ opc = "scan" /\ Len(given) < MaxEmitted
  /\ LET result == Len(given) + 1
     IN /\ given' = Append(given, result)
        /\ IF inJSON THEN queued' = Append(queued, result) /\ UNCHANGED fileVars
           ELSE Put(result) /\ UNCHANGED queued
  /\ UNCHANGED <<opc, inJSON, direct, temporary, target, anyDone, anyBad, stopped,
                 endVars>>

Signal ==
  /\ opc = "scan" /\ ~stopped /\ stopped' = TRUE
  /\ UNCHANGED <<opc, inJSON, direct, given, queued, fileVars, temporary, target,
                 anyDone, anyBad, endVars>>

(* The loop over the targets ends: a run of which no scan finished has failed  *)
(* or was stopped.                                                             *)
ScansEnd ==
  /\ opc = "scan" /\ opc' = "finish"
  /\ anyDone' \in BOOLEAN /\ anyBad' \in BOOLEAN
  /\ ~anyDone' => anyBad' \/ stopped
  /\ UNCHANGED <<inJSON, direct, given, queued, fileVars, temporary, target,
                 stopped, endVars>>

(* Writer.Finish, only if a scan finished.  Then run chooses its exit code:    *)
(* stopped, failed, some targets failed, changes under -diff, or success.      *)
FinishWriter ==
  /\ opc = "finish" /\ opc' = "close"
  /\ IF anyDone THEN FlushWith(queued) /\ reported' = sticky'
     ELSE UNCHANGED <<fileVars, reported>>
  /\ code' \in IF stopped THEN {130, 143} ELSE IF reported' THEN {1}
               ELSE IF anyBad THEN {1, 3} ELSE {0, 4}
  /\ UNCHANGED <<inJSON, direct, given, queued, temporary, target, anyDone,
                 anyBad, stopped, closeErr>>

-----------------------------------------------------------------------------
(* The deferred File.Close(anyDone): flush, close, then rename or remove.      *)
CommitAnyway(err) == anyDone
Commit(err) == anyDone /\ ~err

CodeKept(err) == code
CodeAfter(err) == IF err /\ code = 0 THEN 1 ELSE code

CloseFile ==
  /\ opc = "close" /\ FlushWith(<<>>)
  /\ \E fails \in BOOLEAN : closeErr' = (sticky' \/ fails)
  /\ opc' = IF direct THEN "exit" ELSE IF Commit(closeErr') THEN "rename" ELSE "remove"
  /\ UNCHANGED <<inJSON, direct, given, queued, temporary, target, anyDone,
                 anyBad, stopped, reported, code>>

RenameFile ==
  /\ opc = "rename"
  /\ \/ target' = written /\ temporary' = FALSE /\ opc' = "exit" /\ UNCHANGED closeErr
     \/ closeErr' = TRUE /\ opc' = "remove" /\ UNCHANGED <<target, temporary>>
  /\ UNCHANGED <<inJSON, direct, given, queued, fileVars, anyDone, anyBad,
                 stopped, reported, code>>

(* Removing the temporary file is best effort.                                 *)
RemoveFile ==
  /\ opc = "remove" /\ opc' = "exit" /\ temporary' \in BOOLEAN
  /\ UNCHANGED <<inJSON, direct, given, queued, fileVars, target, anyDone,
                 anyBad, stopped, endVars>>

Exit ==
  /\ opc = "exit" /\ opc' = "over" /\ code' = CodeAfter(closeErr)
  /\ UNCHANGED <<inJSON, direct, given, queued, fileVars, temporary, target,
                 anyDone, anyBad, stopped, reported, closeErr>>

(* The process dies: a second signal, a power cut. *)
Crash ==
  /\ opc \notin {"over", "crashed"} /\ opc' = "crashed"
  /\ UNCHANGED <<inJSON, direct, given, queued, fileVars, temporary, target,
                 anyDone, anyBad, stopped, endVars>>

OutNext ==
  \/ OpenFile \/ EmitResult \/ Signal \/ ScansEnd \/ FinishWriter
  \/ CloseFile \/ RenameFile \/ RemoveFile \/ Exit \/ Crash
OutSpec == OutInit /\ [][OutNext]_outVars
=============================================================================
