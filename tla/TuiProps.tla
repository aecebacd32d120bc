------------------------------ MODULE TuiProps ------------------------------
(* What the interactive screens must get right: the properties of TuiModel.  *)
EXTENDS TuiModel

Unread(s) == Len(events[s]) + Cardinality({m \in inbox : m[1] = s})

(* Events reach the screen in the order the engine sent them: one listener or  *)
(* one message of the running scan at a time, so that a result is never drawn  *)
(* after the totals, and nothing of an earlier scan, whose channel is read to  *)
(* its end (#43, #55).                                                         *)
OneListenerAtATime ==
  \A s \in Scans :
    armed[s] + Cardinality({m \in inbox : m[1] = s})
      = IF screen = "scan" /\ s = scanNo /\ ~view.done THEN 1 ELSE 0

(* The user is told how the scan ended: exit code 1 exactly when its last scan *)
(* failed, that is sent an error and did not go on under -no-abort to its      *)
(* totals (#55).  An existing results file is replaced only by the results of  *)
(* a scan that tested its candidates and is over, and of the latest such scan  *)
(* (#52, #99); none is left open at the end.                                   *)
EndTellsTheScan ==
  /\ screen = "quit" =>
       /\ outFile = 0
       /\ ExitCode = 1 <=>
            scanNo > 0 /\ Sent(scanNo, "error") /\ (Sent(scanNo, "stopped") \/ ~noAbort)
  /\ results # 0 => Sent(results, "done") /\ events[results] = <<>>
  /\ outFile # 0 => outFile = scanNo /\ screen = "scan" /\ ~view.done /\ results < outFile

(* A scan that runs, aborted or not, comes to its end on the screen.           *)
ScanShownOver == (screen = "scan") ~> (view.done \/ screen # "scan")
=============================================================================
