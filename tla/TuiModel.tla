------------------------------ MODULE TuiModel ------------------------------
(***************************************************************************)
(* The interactive screens (internal/tui/model.go).  Bubble Tea calls      *)
(* Update with one message at a time; a command runs beside it and its     *)
(* result comes back as a message.  One command per screen matters: the    *)
(* wordlist loader of the form, and the listener that waits for the next   *)
(* event of the running scan.                                              *)
(*                                                                         *)
(* The engine is seen as its event stream (module ScanRun models it).      *)
(***************************************************************************)
EXTENDS Integers, Sequences, FiniteSets

CONSTANTS
  MaxScans,    \* bound: scans started in one session
  MaxHits,     \* bound: results and notices of one scan
  TuiBuffer    \* the capacity of a scan's event channel

ASSUME TuiAssumption ==
  MaxScans \in Nat \ {0} /\ MaxHits \in Nat /\ TuiBuffer \in Nat \ {0}

VARIABLES
  screen,     \* Model.state: "form", "scan", or "quit" once tea.Quit is out
  loading,    \* form.loading; the loader's message is then still to come
  scanNo,     \* the scan m.events and m.cancel belong to, 0 before the first
  noAbort,    \* its settings: vals.noAbort
  outFile,    \* the scan m.outFile is open for, 0 for none
  view,       \* scanView: done, stopped, aborted, and whether errText is set
  status,     \* the status in the summary of the last finished scan
  events,     \* events[s]: the channel of scan s
  emitted,    \* emitted[s]: all that scan s has sent on it
  tuiCtx,     \* tuiCtx[s]: its context is cancelled
  armed,      \* armed[s]: listeners waiting on its channel
  inbox,      \* messages that listeners have returned, as <<scan, event>>
  results     \* the scan whose results are in the output file, 0: those of before

keptVars == <<scanNo, noAbort, outFile, results>>
engineSide == <<events, emitted>>
listenVars == <<armed, inbox>>
tuiVars == <<screen, loading, view, status, keptVars, engineSide, tuiCtx, listenVars>>

Scans == 1 .. MaxScans
Ending == {"done", "stopped"}
Events == {"result", "notice", "error"} \cup Ending

NewView == [done |-> FALSE, stopped |-> FALSE, aborted |-> FALSE, err |-> FALSE]

TuiInit ==
  /\ screen = "form" /\ loading = FALSE /\ scanNo = 0 /\ noAbort = FALSE
  /\ outFile = 0 /\ view = NewView /\ status = "" /\ results = 0
  /\ events = [s \in Scans |-> <<>>] /\ emitted = [s \in Scans |-> <<>>]
  /\ tuiCtx = [s \in Scans |-> FALSE]
  /\ armed = [s \in Scans |-> 0] /\ inbox = {}

-----------------------------------------------------------------------------
(* The form. *)
CtrlR ==
  /\ screen = "form" /\ ~loading
  /\ loading' = TRUE
  /\ UNCHANGED <<screen, view, status, keptVars, engineSide, tuiCtx, listenVars>>

(* The wordlist cannot be read or is empty, or the output file cannot be       *)
(* created.                                                                    *)
LoadRefused ==
  /\ screen = "form" /\ loading
  /\ loading' = FALSE
  /\ UNCHANGED <<screen, view, status, keptVars, engineSide, tuiCtx, listenVars>>

(* beginScan, without an output file or with one it has created. *)
BeginScan ==
  /\ screen = "form" /\ loading /\ scanNo < MaxScans
  /\ loading' = FALSE /\ screen' = "scan"
  /\ scanNo' = scanNo + 1 /\ noAbort' \in BOOLEAN
  /\ outFile' \in {0, scanNo + 1}
  /\ view' = NewView
  /\ armed' = [armed EXCEPT ![scanNo + 1] = @ + 1]
  /\ UNCHANGED <<status, results, engineSide, tuiCtx, inbox>>

QuitForm ==
  /\ screen = "form" /\ screen' = "quit"
  /\ UNCHANGED <<loading, view, status, keptVars, engineSide, tuiCtx, listenVars>>

-----------------------------------------------------------------------------
(* The engine of scan s, until its final event.                                *)
Sent(s, e) == \E k \in DOMAIN emitted[s] : emitted[s][k] = e
Over(s) == \E e \in Ending : Sent(s, e)
Shown(s) == Len(SelectSeq(emitted[s], LAMBDA e : e # "error"))

(* At most one error.  A scan stops before its candidates, so with no result,  *)
(* after an error or when its context is cancelled; one the guard gives up on  *)
(* or warns about still ends with its totals.                                  *)
MaySend(s, e) ==
  CASE e \in {"result", "notice"} -> Shown(s) < MaxHits
    [] e = "error"                -> ~Sent(s, e)
    [] e = "stopped"              -> ~Sent(s, "result") /\ (Sent(s, "error") \/ tuiCtx[s])
    [] OTHER                      -> TRUE

EngineSends(s) ==
  /\ s <= scanNo /\ ~Over(s) /\ Len(events[s]) < TuiBuffer
  /\ \E e \in Events :
       /\ MaySend(s, e)
       /\ events' = [events EXCEPT ![s] = Append(@, e)]
       /\ emitted' = [emitted EXCEPT ![s] = Append(@, e)]
  /\ UNCHANGED <<screen, loading, view, status, keptVars, tuiCtx, listenVars>>

(* listenForEvents: a command returns the next event of its channel.           *)
ListenerReturns(s) ==
  /\ armed[s] > 0 /\ events[s] # <<>>
  /\ events' = [events EXCEPT ![s] = Tail(@)]
  /\ armed' = [armed EXCEPT ![s] = @ - 1]
  /\ inbox' = inbox \cup {<<s, Head(events[s])>>}
  /\ UNCHANGED <<screen, loading, view, status, keptVars, emitted, tuiCtx>>

-----------------------------------------------------------------------------
(* updateScan.                                                                 *)
FailedOnError(v) == v.done /\ v.err
Failed(v) == v.done /\ v.err /\ (v.stopped \/ ~noAbort)

StatusOf(v) ==
  IF Failed(v) THEN "failed" ELSE IF v.aborted THEN "interrupted" ELSE "ok"

NoRearm == UNCHANGED armed
Rearm == armed' = [armed EXCEPT ![scanNo] = @ + 1]
AlwaysKeep(finish) ==
  outFile' = 0 /\ results' = IF outFile # 0 THEN outFile ELSE results
Finalize(finish) ==
  /\ outFile' = 0
  /\ results' = IF finish /\ outFile # 0 THEN outFile ELSE results

Take(m) == screen = "scan" /\ m \in inbox /\ inbox' = inbox \ {m}

(* resultMsg, progressMsg, wildcardMsg: the view takes it in and the listener  *)
(* is armed again.                                                             *)
OnEvent(m) ==
  /\ Take(m) /\ m[2] \in {"result", "notice"}
  /\ Rearm
  /\ UNCHANGED <<screen, loading, view, status, keptVars, engineSide, tuiCtx>>

OnError(m) ==
  /\ Take(m) /\ m[2] = "error"
  /\ view' = [view EXCEPT !.err = TRUE]
  /\ Rearm
  /\ UNCHANGED <<screen, loading, status, keptVars, engineSide, tuiCtx>>

OnDone(m) ==
  /\ Take(m) /\ m[2] = "done"
  /\ view' = [view EXCEPT !.done = TRUE]
  /\ status' = StatusOf(view')
  /\ Finalize(TRUE)
  /\ UNCHANGED <<screen, loading, scanNo, noAbort, engineSide, tuiCtx, armed>>

OnStopped(m) ==
  /\ Take(m) /\ m[2] = "stopped"
  /\ view' = [view EXCEPT !.done = TRUE, !.stopped = TRUE]
  /\ Finalize(FALSE)
  /\ UNCHANGED <<screen, loading, scanNo, noAbort, status, engineSide, tuiCtx, armed>>

(* ctrl+c while the scan goes on. *)
Abort ==
  /\ screen = "scan" /\ ~view.done
  /\ tuiCtx' = [tuiCtx EXCEPT ![scanNo] = TRUE]
  /\ view' = [view EXCEPT !.aborted = TRUE]
  /\ UNCHANGED <<screen, loading, status, keptVars, engineSide, listenVars>>

(* q, or ctrl+c after the end. *)
QuitScan ==
  /\ screen = "scan" /\ view.done /\ screen' = "quit"
  /\ UNCHANGED <<loading, view, status, keptVars, engineSide, tuiCtx, listenVars>>

(* r *)
BackToForm ==
  /\ screen = "scan" /\ screen' = "form"
  /\ tuiCtx' = [tuiCtx EXCEPT ![scanNo] = TRUE]
  /\ loading' = FALSE
  /\ Finalize(FALSE)
  /\ UNCHANGED <<view, status, scanNo, noAbort, engineSide, listenVars>>

NewScan == view.done /\ BackToForm

-----------------------------------------------------------------------------
ExitCode == IF Failed(view) THEN 1 ELSE 0

Keys == CtrlR \/ QuitForm \/ Abort \/ QuitScan \/ NewScan
Loaded == LoadRefused \/ BeginScan
Handled == \E m \in inbox : OnEvent(m) \/ OnError(m) \/ OnDone(m) \/ OnStopped(m)
Engines == \E s \in Scans : EngineSends(s)
Listeners == \E s \in Scans : ListenerReturns(s)

TuiNext == Keys \/ Loaded \/ Handled \/ Engines \/ Listeners

(* The engine ends its stream and Bubble Tea runs the commands and delivers    *)
(* their messages; the user need not press anything.                           *)
TuiFairness ==
  WF_tuiVars(Engines) /\ WF_tuiVars(Listeners) /\ WF_tuiVars(Handled)

TuiSpec == TuiInit /\ [][TuiNext]_tuiVars /\ TuiFairness
=============================================================================
