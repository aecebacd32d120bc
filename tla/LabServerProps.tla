--------------------------- MODULE LabServerProps ---------------------------
(* What Close promises: properties of module LabServer.                       *)
EXTENDS LabServer

(* Close "returns only once no handler can still run" (#122): when it has      *)
(* returned, every loop, connection and datagram goroutine has ended, none is  *)
(* about to start, and every connection taken was closed.                      *)
NoHandlerAfterClose ==
  closePc = "returned" =>
    /\ \A g \in Goroutine : spc[g] \in {"none", "ended"}
    /\ \A g \in {udpLoop} \cup Accepting : spc[g] = "ended"
    /\ tracked = {}

(* Close comes back without the help of any client and before any deadline:    *)
(* a connection parked on a dropped query, one accepted as Close began, and a  *)
(* delayed answer do not hold it up.                                           *)
CloseReturns == (closePc = "closers") ~> (closePc = "returned")
=============================================================================
