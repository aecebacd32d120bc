---------------------------- MODULE LibraryProps ----------------------------
(* What a library caller is promised: the properties of module Library.      *)
EXTENDS Library

Held == IF held = Nothing THEN <<>> ELSE <<held>>

(* While the context is live nothing is dropped or reordered, however slow the *)
(* caller reads and however full the channels are: what was read and what is   *)
(* on its way make up what the engine sent, and the loop over the channel      *)
(* sees the final event last.                                                  *)
NothingLostWhileLive ==
  ~libCtx =>
    /\ sent = got \o out \o Held \o in
    /\ ScanReturns => got # <<>> /\ IsDone(got[Len(got)])

(* Every goroutine exits after a cancel, whether or not the channel is read    *)
(* (#112).                                                                     *)
ExitsAfterCancel == libCtx ~> (fwd = "closed" /\ engine = "closed")

=============================================================================
