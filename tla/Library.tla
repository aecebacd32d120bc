------------------------------- MODULE Library -------------------------------
(***************************************************************************)
(* The Go library (pkg/subenum): Run forwards the engine's events to a     *)
(* caller who may be slow, stop reading or cancel, and Scan collects them. *)
(*                                                                         *)
(* The engine is seen here as its event stream: hits, at most one error,   *)
(* one final event, then a closed channel (module ScanRun models it).      *)
(***************************************************************************)
EXTENDS Integers, Sequences, FiniteSets

CONSTANTS
  Hits,        \* how many names the scan finds if it is not stopped
  LibBuffer,   \* the capacity of both event channels
  GuardKinds   \* the error a scan may meet: none, a refusal before its candidates,
               \* an abort by the reliability guard or, with NoAbort, its warning

ASSUME LibraryAssumption ==
  /\ Hits \in Nat /\ LibBuffer \in Nat \ {0}
  /\ GuardKinds \subseteq {"none", "refuse", "abort", "warn"}

VARIABLES
  guardKind,  \* the error this scan meets, if any
  told,       \* the engine has reported it
  found,      \* hits the engine has reported
  in,         \* the engine's channel
  engine,     \* "scanning", "sent" once the final event is in, "closed"
  libCtx,     \* the caller's context is cancelled
  fwd,        \* where the forwarder is: "recv", "check", "send", "offer", "grace", "closed"
  held,       \* the event the forwarder holds
  out,        \* the channel the caller reads
  reading,    \* the caller still ranges over it
  got,        \* the events the caller has read
  sent        \* history: the events the engine has put on its channel

engineVars == <<guardKind, told, found, engine>>
callerVars == <<reading, got>>
libVars == <<engineVars, in, libCtx, fwd, held, out, callerVars, sent>>

Result(k) == <<"result", k>>
Error == <<"error", 0>>
Done(complete) == <<"done", IF complete THEN 1 ELSE 0>>
Nothing == <<"nothing", 0>>
IsDone(ev) == ev[1] = "done"

LibInit ==
  /\ guardKind \in GuardKinds /\ told = FALSE /\ found = 0 /\ engine = "scanning"
  /\ in = <<>> /\ libCtx = FALSE /\ fwd = "recv" /\ held = Nothing /\ out = <<>>
  /\ reading = TRUE /\ got = <<>> /\ sent = <<>>

-----------------------------------------------------------------------------
(* The engine: it blocks while its channel is full.  Hits already looked up    *)
(* still come after an abort or a cancel.                                      *)
Push(ev) ==
  /\ Len(in) < LibBuffer
  /\ in' = Append(in, ev) /\ sent' = Append(sent, ev)

Aborted == told /\ guardKind \in {"abort", "refuse"}
Complete == found = Hits /\ (guardKind = "none" \/ (guardKind = "warn" /\ told))

EmitHit ==
  /\ engine = "scanning" /\ found < Hits /\ guardKind # "refuse"
  /\ Push(Result(found + 1)) /\ found' = found + 1
  /\ UNCHANGED <<guardKind, told, engine, libCtx, fwd, held, out, callerVars>>

EmitError ==
  /\ engine = "scanning" /\ guardKind # "none" /\ ~told
  /\ Push(Error) /\ told' = TRUE
  /\ UNCHANGED <<guardKind, found, engine, libCtx, fwd, held, out, callerVars>>

EmitDone ==
  /\ engine = "scanning" /\ (Complete \/ Aborted \/ libCtx)
  /\ Push(Done(Complete)) /\ engine' = "sent"
  /\ UNCHANGED <<guardKind, told, found, libCtx, fwd, held, out, callerVars>>

CloseEvents ==
  /\ engine = "sent" /\ engine' = "closed"
  /\ UNCHANGED <<guardKind, told, found, in, libCtx, fwd, held, out, callerVars, sent>>

-----------------------------------------------------------------------------
(* The forwarder goroutine of Run. *)
Move(place, event) == fwd' = place /\ held' = event
Deliver == out' = Append(out, held) /\ Move("recv", Nothing)
RoomLeft == Len(out) < LibBuffer

Receive ==
  /\ fwd = "recv"
  /\ \/ in # <<>> /\ in' = Tail(in) /\ Move("check", Head(in))
     \/ in = <<>> /\ engine = "closed" /\ Move("closed", Nothing) /\ UNCHANGED in
  /\ UNCHANGED <<engineVars, libCtx, out, callerVars, sent>>

NeverLive == FALSE
Live == ~libCtx

AfterCancel(ev) == IF IsDone(ev) THEN "grace" ELSE "offer"

CheckCtx ==
  /\ fwd = "check"
  /\ Move(IF Live THEN "send" ELSE AfterCancel(held), held)
  /\ UNCHANGED <<engineVars, in, libCtx, out, callerVars, sent>>

(* While the context is live it waits for the caller. *)
Send ==
  /\ fwd = "send"
  /\ \/ RoomLeft /\ Deliver
     \/ libCtx /\ Move(AfterCancel(held), held) /\ UNCHANGED out
  /\ UNCHANGED <<engineVars, in, libCtx, callerVars, sent>>

(* After it, an event the caller has no room for is dropped. *)
Offer ==
  /\ fwd = "offer"
  /\ IF RoomLeft THEN Deliver ELSE Move("recv", Nothing) /\ UNCHANGED out
  /\ UNCHANGED <<engineVars, in, libCtx, callerVars, sent>>

(* The final event waits doneGrace for room. *)
NoGrace == FALSE
GraceOver == ~RoomLeft

Grace ==
  /\ fwd = "grace"
  /\ \/ RoomLeft /\ Deliver
     \/ GraceOver /\ Move("recv", Nothing) /\ UNCHANGED out
  /\ UNCHANGED <<engineVars, in, libCtx, callerVars, sent>>

-----------------------------------------------------------------------------
(* The caller. *)
Read ==
  /\ reading /\ out # <<>>
  /\ out' = Tail(out) /\ got' = Append(got, Head(out))
  /\ UNCHANGED <<engineVars, in, libCtx, fwd, held, reading, sent>>

(* It breaks out of its loop, with a deferred cancel. *)
StopReading ==
  /\ reading /\ reading' = FALSE /\ libCtx' = TRUE
  /\ UNCHANGED <<engineVars, in, fwd, held, out, got, sent>>

CancelLib ==
  /\ ~libCtx /\ libCtx' = TRUE
  /\ UNCHANGED <<engineVars, in, fwd, held, out, callerVars, sent>>

-----------------------------------------------------------------------------
(* Scan returns once its loop has ended. *)
ScanReturns == reading /\ fwd = "closed" /\ out = <<>>

Emit == EmitHit \/ EmitError \/ EmitDone \/ CloseEvents
Forward == Receive \/ CheckCtx \/ Send \/ Offer \/ Grace

LibNext == Emit \/ Forward \/ Read \/ StopReading \/ CancelLib

(* The engine and the forwarder run on; the caller need not read.              *)
LibFairness == WF_libVars(Emit) /\ WF_libVars(Forward)

LibSpec == LibInit /\ [][LibNext]_libVars /\ LibFairness
=============================================================================
