---------------------------- MODULE ClientProofs ----------------------------
(***************************************************************************)
(* What the engine's three clients promise, for every size of the model:   *)
(* the Go library (module Library), the interactive screens (TuiModel) and *)
(* the diff report (DiffRun).                                              *)
(***************************************************************************)
EXTENDS LibraryProps, TuiProps, DiffProps, FiniteSetTheorems, SequenceTheorems, TLAPS

-----------------------------------------------------------------------------
(***************************************************************************)
(* The library.  An event is in one of four places, in the order it was    *)
(* sent: read, in the caller's channel, in the forwarder's hands, in the   *)
(* engine's channel.  A cancel is what allows the forwarder to drop one.   *)
(***************************************************************************)
Event == {"result", "error", "done"} \X Nat

LibTypes ==
  /\ in \in Seq(Event) /\ out \in Seq(Event) /\ got \in Seq(Event) /\ sent \in Seq(Event)
  /\ libCtx \in BOOLEAN /\ found \in Nat /\ engine \in {"scanning", "sent", "closed"}
  /\ fwd \in {"recv", "check", "send", "offer", "grace", "closed"}
  /\ held \in IF fwd \in {"recv", "closed"} THEN {Nothing} ELSE Event

(* The final event is the last one sent. *)
DoneSent == engine # "scanning" => sent # <<>> /\ IsDone(sent[Len(sent)])

Forwarding ==
  ~libCtx =>
    /\ fwd \in {"recv", "check", "send", "closed"}
    /\ fwd = "closed" => in = <<>> /\ engine = "closed"
    /\ sent = got \o out \o Held \o in

LibInv == LibTypes /\ DoneSent /\ Forwarding

LEMMA Picked ==
  ASSUME NEW a \in Seq(Event), NEW b \in Seq(Event), NEW d \in Seq(Event), d # <<>>
  PROVE  /\ a \o b \o <<>> \o d = a \o b \o <<Head(d)>> \o Tail(d)
         /\ Head(d) \in Event /\ Tail(d) \in Seq(Event)
<1>1. /\ Len(d) \in Nat /\ Len(d) # 0 /\ Head(d) = d[1] /\ Head(d) \in Event /\ Tail(d) \in Seq(Event)
      /\ Len(Tail(d)) = Len(d) - 1 /\ \A i \in 1..Len(Tail(d)) : Tail(d)[i] = d[i + 1]
  OBVIOUS
<1>2. PICK h \in Event, t \in Seq(Event) : h = Head(d) /\ t = Tail(d)
  BY <1>1
<1>3. a \o b \o <<>> \o d = a \o b \o <<h>> \o t
  BY <1>1, <1>2
<1>4. QED BY <1>1, <1>2, <1>3

LEMMA Delivered ==
  ASSUME NEW a \in Seq(Event), NEW b \in Seq(Event), NEW d \in Seq(Event), NEW h \in Event
  PROVE  a \o b \o <<h>> \o d = a \o Append(b, h) \o <<>> \o d
  OBVIOUS

LEMMA HeldSeq ==
  ASSUME LibTypes
  PROVE  /\ Held \in Seq(Event)
         /\ fwd \in {"recv", "closed"} => Held = <<>>
         /\ fwd \notin {"recv", "closed"} => Held = <<held>> /\ held \in Event
<1>1. Nothing \notin Event
  BY DEF Nothing, Event
<1>2. QED BY <1>1 DEF Held, LibTypes

(* The engine sends. *)
LEMMA EmitKeepsAll ==
  ASSUME LibInv, Emit
  PROVE  LibInv'
<1>1. /\ in \in Seq(Event) /\ out \in Seq(Event) /\ got \in Seq(Event) /\ sent \in Seq(Event)
      /\ found \in Nat /\ Held \in Seq(Event)
      /\ UNCHANGED <<libCtx, fwd, held, out, got>>
  BY HeldSeq DEF LibInv, LibTypes, Emit, EmitHit, EmitError, EmitDone, CloseEvents, callerVars
<1>2. Held' = Held
  BY <1>1 DEF Held
<1>3. ASSUME NEW ev \in Event, Push(ev), engine = "scanning", found' \in Nat,
             engine' = "scanning" \/ (engine' = "sent" /\ IsDone(ev))
      PROVE  LibInv'
  <2>1. in' = Append(in, ev) /\ sent' = Append(sent, ev)
    BY <1>3 DEF Push
  <2>2. /\ in' \in Seq(Event) /\ sent' \in Seq(Event) /\ sent' # <<>> /\ sent'[Len(sent')] = ev
    <3>1. \A s \in Seq(Event) : /\ Append(s, ev) \in Seq(Event) /\ Append(s, ev) # <<>>
                               /\ Append(s, ev)[Len(Append(s, ev))] = ev
      BY <1>3
    <3>2. QED BY <1>1, <2>1, <3>1
  <2>3. LibTypes'
    BY <1>1, <1>3, <2>2 DEF LibInv, LibTypes
  <2>4. DoneSent'
    BY <1>3, <2>2 DEF DoneSent
  <2>5. ASSUME ~libCtx, sent = got \o out \o Held \o in
        PROVE  sent' = got \o out \o Held \o in'
    <3>1. got \o out \o Held \o Append(in, ev) = Append(got \o out \o Held \o in, ev)
      <4>1. \A a, b, h, d \in Seq(Event) : a \o b \o h \o Append(d, ev) = Append(a \o b \o h \o d, ev)
        BY <1>3
      <4>2. QED BY <1>1, <4>1
    <3>2. QED BY <2>1, <2>5, <3>1
  <2>6. Forwarding'
    BY <1>1, <1>2, <1>3, <2>5 DEF LibInv, Forwarding
  <2>7. QED BY <2>3, <2>4, <2>6 DEF LibInv
<1>4. CASE EmitHit
  <2>1. Result(found + 1) \in Event
    BY <1>1 DEF Result, Event
  <2>2. QED BY <1>1, <1>3, <1>4, <2>1 DEF EmitHit
<1>5. CASE EmitError
  <2>1. Error \in Event
    BY DEF Error, Event
  <2>2. QED BY <1>1, <1>3, <1>5, <2>1 DEF EmitError
<1>6. CASE EmitDone
  <2>1. Done(Complete) \in Event /\ IsDone(Done(Complete))
    BY DEF Done, Event, IsDone
  <2>2. QED BY <1>1, <1>3, <1>6, <2>1 DEF EmitDone
<1>7. CASE CloseEvents
  <2>1. engine = "sent" /\ engine' = "closed" /\ UNCHANGED <<found, in, sent>>
    BY <1>7 DEF CloseEvents
  <2>2. QED BY <1>1, <1>2, <2>1 DEF LibInv, LibTypes, DoneSent, Forwarding
<1>8. QED BY <1>4, <1>5, <1>6, <1>7 DEF Emit

(* The forwarder passes on what it holds; it drops only after a cancel.        *)
LEMMA ForwardKeepsAll ==
  ASSUME LibInv, Forward
  PROVE  LibInv'
<1>1. /\ in \in Seq(Event) /\ out \in Seq(Event) /\ got \in Seq(Event)
      /\ UNCHANGED <<found, engine, libCtx, got, sent>> /\ LibTypes /\ DoneSent /\ DoneSent'
  BY DEF LibInv, LibTypes, DoneSent, Forward, Receive, CheckCtx, Send, Offer, Grace, engineVars, callerVars
<1>2. CASE Receive /\ in # <<>>
  <2>1. /\ fwd = "recv" /\ fwd' = "check" /\ held' = Head(in) /\ in' = Tail(in) /\ out' = out
    BY <1>2 DEF Receive, Move
  <2>2. Head(in) \in Event /\ Tail(in) \in Seq(Event)
    BY <1>1, <1>2, Picked
  <2>3. LibTypes'
    BY <1>1, <2>1, <2>2 DEF LibTypes
  <2>4. Held = <<>> /\ Held' = <<Head(in)>>
    <3>1. Head(in) # Nothing
      BY <2>2 DEF Nothing, Event
    <3>2. QED BY <1>1, <2>1, <3>1, HeldSeq DEF Held
  <2>5. ASSUME sent = got \o out \o Held \o in PROVE sent' = got' \o out' \o Held' \o in'
    BY <1>1, <1>2, <2>1, <2>4, <2>5, Picked
  <2>6. QED BY <1>1, <2>1, <2>3, <2>5 DEF LibInv, Forwarding
<1>3. CASE Receive /\ ~(in # <<>>)
  <2>1. /\ fwd = "recv" /\ fwd' = "closed" /\ engine = "closed" /\ held' = Nothing /\ in' = in /\ out' = out
    BY <1>3 DEF Receive, Move
  <2>2. held' = held
    BY <1>1, <2>1 DEF LibTypes
  <2>3. QED BY <1>1, <1>3, <2>1, <2>2 DEF LibInv, LibTypes, Forwarding, Held
<1>4. CASE CheckCtx
  <2>1. /\ fwd = "check" /\ held' = held /\ in' = in /\ out' = out
        /\ fwd' \in {"send", "offer", "grace"} /\ (~libCtx => fwd' = "send")
    BY <1>4 DEF CheckCtx, Move, AfterCancel, Live
  <2>2. QED BY <1>1, <2>1 DEF LibInv, LibTypes, Forwarding, Held
<1>5. CASE fwd \in {"send", "offer", "grace"} /\ Deliver /\ in' = in
  <2>1. fwd' = "recv" /\ held' = Nothing /\ out' = Append(out, held)
    BY <1>5 DEF Deliver, Move
  <2>2. Held = <<held>> /\ held \in Event /\ Held' = <<>>
    BY <1>1, <1>5, <2>1, HeldSeq DEF Held
  <2>3. LibTypes'
    BY <1>1, <1>5, <2>1, <2>2 DEF LibTypes
  <2>4. ASSUME sent = got \o out \o Held \o in PROVE sent' = got' \o out' \o Held' \o in'
    <3>1. got \o out \o <<held>> \o in = got \o Append(out, held) \o <<>> \o in
      BY <1>1, <2>2, Delivered
    <3>2. QED BY <1>1, <1>5, <2>1, <2>2, <2>4, <3>1
  <2>5. QED BY <1>1, <2>1, <2>3, <2>4 DEF LibInv, Forwarding
<1>6. CASE /\ libCtx /\ fwd \in {"send", "offer", "grace"} /\ UNCHANGED <<in, out>>
           /\ \/ fwd' \in {"offer", "grace"} /\ held' = held
              \/ fwd' = "recv" /\ held' = Nothing
  BY <1>1, <1>6 DEF LibInv, LibTypes, Forwarding
<1>7. CASE Send
  <2>1. CASE Deliver
    BY <1>5, <1>7, <2>1 DEF Send
  <2>2. CASE libCtx /\ Move(AfterCancel(held), held) /\ UNCHANGED out
    BY <1>6, <1>7, <2>2 DEF Send, Move, AfterCancel
  <2>3. QED BY <1>7, <2>1, <2>2 DEF Send
<1>8. CASE Offer \/ Grace
  <2>1. libCtx
    BY <1>8 DEF Offer, Grace, LibInv, Forwarding
  <2>2. CASE Deliver
    BY <1>5, <1>8, <2>2 DEF Offer, Grace
  <2>3. CASE Move("recv", Nothing) /\ UNCHANGED out
    BY <1>6, <1>8, <2>1, <2>3 DEF Offer, Grace, Move
  <2>4. QED BY <1>8, <2>2, <2>3 DEF Offer, Grace
<1>9. QED BY <1>2, <1>3, <1>4, <1>7, <1>8 DEF Forward

LEMMA CallerKeepsAll ==
  ASSUME LibInv, Read \/ StopReading \/ CancelLib
  PROVE  LibInv'
<1>1. CASE Read
  <2>1. /\ in \in Seq(Event) /\ out \in Seq(Event) /\ got \in Seq(Event) /\ Held \in Seq(Event)
        /\ out # <<>> /\ out' = Tail(out) /\ got' = Append(got, Head(out))
        /\ UNCHANGED <<found, engine, in, libCtx, fwd, held, sent>>
    BY <1>1, HeldSeq DEF LibInv, LibTypes, Read, engineVars
  <2>2. out' \in Seq(Event) /\ got' \in Seq(Event)
    BY <2>1
  <2>3. Held' = Held
    BY <2>1 DEF Held
  <2>4. got \o out \o Held \o in = got' \o out' \o Held \o in
    <3>1. got \o out \o Held \o in = Append(got, Head(out)) \o Tail(out) \o Held \o in
      <4>1. got \in Seq(Event) /\ out \in Seq(Event) /\ Held \in Seq(Event) /\ in \in Seq(Event) /\ out # <<>>
        BY <2>1
      <4>2. PICK a, b, h, d \in Seq(Event) : a = got /\ b = out /\ h = Held /\ d = in
        BY <4>1
      <4>3. b # <<>>
        BY <4>1, <4>2
      <4>4. a \o b \o h \o d = Append(a, Head(b)) \o Tail(b) \o h \o d
        BY <4>3
      <4>5. QED BY <4>2, <4>4
    <3>2. QED BY <2>1, <3>1
  <2>5. QED BY <2>1, <2>2, <2>3, <2>4 DEF LibInv, LibTypes, DoneSent, Forwarding
<1>2. CASE StopReading \/ CancelLib
  BY <1>2 DEF StopReading, CancelLib, engineVars, callerVars, LibInv, LibTypes, DoneSent, Forwarding
<1>3. QED BY <1>1, <1>2

(* Until a cancel every event the engine sent reaches the caller, in order,    *)
(* the final one included: for any number of hits and any size of the buffers. *)
THEOREM NothingIsLost == LibSpec => []NothingLostWhileLive
<1>1. LibInit => LibInv
  <2>1. SUFFICES ASSUME LibInit PROVE LibInv
    OBVIOUS
  <2>2. /\ in = <<>> /\ out = <<>> /\ got = <<>> /\ sent = <<>> /\ held = Nothing /\ fwd = "recv"
        /\ engine = "scanning" /\ libCtx = FALSE /\ found = 0
    BY <2>1 DEF LibInit
  <2>3. LibTypes
    <3>1. <<>> \in Seq(Event)
      OBVIOUS
    <3>2. QED BY <2>2, <3>1 DEF LibTypes
  <2>4. Held = <<>> /\ <<>> \o <<>> \o <<>> \o <<>> = <<>>
    BY <2>2 DEF Held
  <2>5. QED BY <2>2, <2>3, <2>4 DEF LibInv, DoneSent, Forwarding
<1>2. LibInv /\ [LibNext]_libVars => LibInv'
  <2>1. CASE UNCHANGED libVars
    BY <2>1 DEF libVars, engineVars, callerVars, LibInv, LibTypes, DoneSent, Forwarding, Held
  <2>2. QED BY <2>1, EmitKeepsAll, ForwardKeepsAll, CallerKeepsAll DEF LibNext
<1>3. LibInv => NothingLostWhileLive
  <2>1. SUFFICES ASSUME LibInv, ~libCtx
                 PROVE  /\ sent = got \o out \o Held \o in
                        /\ ScanReturns => got # <<>> /\ IsDone(got[Len(got)])
    BY DEF NothingLostWhileLive
  <2>2. sent = got \o out \o Held \o in
    BY <2>1 DEF LibInv, Forwarding
  <2>3. ASSUME ScanReturns PROVE got # <<>> /\ IsDone(got[Len(got)])
    <3>1. in = <<>> /\ out = <<>> /\ Held = <<>> /\ engine = "closed" /\ got \in Seq(Event)
      BY <2>1, <2>3, HeldSeq DEF LibInv, LibTypes, Forwarding, ScanReturns
    <3>2. got \o <<>> \o <<>> \o <<>> = got
      BY <3>1
    <3>3. sent = got
      BY <2>2, <3>1, <3>2
    <3>4. QED BY <2>1, <3>1, <3>3 DEF LibInv, DoneSent
  <2>4. QED BY <2>2, <2>3
<1>4. QED BY <1>1, <1>2, <1>3, PTL DEF LibSpec

-----------------------------------------------------------------------------
(***************************************************************************)
(* The interactive screens.  While a scan is on the screen and not over,   *)
(* one listener waits on its channel or one message of it is on its way;   *)
(* otherwise none.  So what the view has seen, the message and the channel *)
(* make up what the scan sent, and its final event is the last of them.    *)
(***************************************************************************)
Holds(q, e) == \E k \in DOMAIN q : q[k] = e

Running == screen = "scan" /\ ~view.done

TuiTypes ==
  /\ screen \in {"form", "scan", "quit"} /\ scanNo \in 0 .. MaxScans /\ noAbort \in BOOLEAN
  /\ view \in [done : BOOLEAN, stopped : BOOLEAN, aborted : BOOLEAN, err : BOOLEAN]
  /\ events \in [Scans -> Seq(Events)] /\ emitted \in [Scans -> Seq(Events)]
  /\ outFile \in 0 .. MaxScans /\ results \in 0 .. scanNo

(* One listener of the running scan, or one message of it.                     *)
Listening ==
  IF Running
  THEN \/ armed = [s \in Scans |-> IF s = scanNo THEN 1 ELSE 0] /\ inbox = {}
       \/ armed = [s \in Scans |-> 0] /\ \E e \in Events : inbox = {<<scanNo, e>>}
  ELSE armed = [s \in Scans |-> 0] /\ inbox = {}

(* The view says of an event that it was taken in.                             *)
Seen(e) ==
  \/ e = "error" /\ view.err
  \/ e = "stopped" /\ view.stopped
  \/ e = "done" /\ view.done /\ ~view.stopped

Told == {"error"} \cup Ending

Ahead(e) == <<scanNo, e>> \in inbox \/ Holds(events[scanNo], e)

SentIsSeenOrAhead ==
  scanNo # 0 => \A e \in Told : Holds(emitted[scanNo], e) <=> Seen(e) \/ Ahead(e)

EndIsLast ==
  scanNo # 0 =>
    /\ view.done => events[scanNo] = <<>>
    /\ \A e \in Ending : <<scanNo, e>> \in inbox => events[scanNo] = <<>>
    /\ \A k \in DOMAIN events[scanNo] :
         events[scanNo][k] \in Ending => k = Len(events[scanNo])

OtherScans ==
  \A s \in Scans :
    /\ s > scanNo => events[s] = <<>> /\ emitted[s] = <<>>
    /\ s < scanNo => events[s] = <<>> /\ \E e \in Ending : Holds(emitted[s], e)

ScreenAndView ==
  /\ view.stopped => view.done
  /\ scanNo = 0 => screen # "scan" /\ view = NewView
  /\ scanNo # 0 /\ screen # "scan" => view.done

Files ==
  /\ results # 0 => Holds(emitted[results], "done") /\ events[results] = <<>>
  /\ outFile # 0 => outFile = scanNo /\ Running /\ results < outFile

TuiInv ==
  /\ TuiTypes /\ Listening /\ SentIsSeenOrAhead /\ EndIsLast /\ OtherScans
  /\ ScreenAndView /\ Files

LEMMA HoldsAppend ==
  ASSUME NEW q \in Seq(Events), NEW x \in Events, NEW e
  PROVE  Holds(Append(q, x), e) <=> Holds(q, e) \/ x = e
<1>1. /\ Len(q) \in Nat /\ Append(q, x) \in Seq(Events) /\ DOMAIN q = 1 .. Len(q)
      /\ DOMAIN Append(q, x) = 1 .. Len(q) + 1 /\ Append(q, x)[Len(q) + 1] = x
      /\ \A k \in 1 .. Len(q) : Append(q, x)[k] = q[k]
  OBVIOUS
<1>2. QED BY <1>1 DEF Holds

LEMMA HoldsTail ==
  ASSUME NEW q \in Seq(Events), q # <<>>, NEW e
  PROVE  Holds(q, e) <=> Head(q) = e \/ Holds(Tail(q), e)
<1>1. /\ Len(q) \in Nat \ {0} /\ DOMAIN q = 1 .. Len(q) /\ DOMAIN Tail(q) = 1 .. Len(q) - 1
      /\ Head(q) = q[1] /\ \A k \in 1 .. Len(q) - 1 : Tail(q)[k] = q[k + 1]
  OBVIOUS
<1>2. ASSUME NEW k \in 1 .. Len(q), k # 1, q[k] = e PROVE Holds(Tail(q), e)
  <2>1. k - 1 \in 1 .. Len(q) - 1 /\ Tail(q)[k - 1] = q[k]
    BY <1>1, <1>2
  <2>2. QED BY <1>1, <1>2, <2>1 DEF Holds
<1>3. ASSUME NEW k \in 1 .. Len(q) - 1, Tail(q)[k] = e PROVE Holds(q, e)
  <2>1. k + 1 \in 1 .. Len(q) /\ q[k + 1] = e
    BY <1>1, <1>3
  <2>2. QED BY <1>1, <2>1 DEF Holds
<1>4. QED BY <1>1, <1>2, <1>3 DEF Holds

LEMMA HoldsNone == \A e : ~Holds(<<>>, e)
  BY DEF Holds

(* No final event has been sent while one may still be.                        *)
LEMMA NotOver ==
  ASSUME TuiInv, scanNo # 0, \A e \in Ending : ~Holds(emitted[scanNo], e)
  PROVE  /\ ~view.done /\ \A e \in Ending : ~Ahead(e)
         /\ screen = "scan"
  BY DEF TuiInv, SentIsSeenOrAhead, ScreenAndView, Seen, Ending, Told, TuiTypes

(* Keys and the loader.                                                        *)
LEMMA KeysKeepTui ==
  ASSUME TuiInv, CtrlR \/ LoadRefused \/ QuitForm \/ Abort \/ QuitScan
  PROVE  TuiInv'
<1>1. /\ UNCHANGED <<scanNo, noAbort, outFile, results, events, emitted, armed, inbox>>
      /\ Running' = Running /\ screen' \in {"form", "scan", "quit"}
      /\ view' \in [done : BOOLEAN, stopped : BOOLEAN, aborted : BOOLEAN, err : BOOLEAN]
      /\ view'.done = view.done /\ view'.stopped = view.stopped /\ view'.err = view.err
      /\ screen' # screen => screen # "scan" \/ view.done
      /\ view' # view => screen = "scan"
      /\ screen # "scan" => screen' # "scan"
  BY DEF TuiInv, TuiTypes, CtrlR, LoadRefused, QuitForm, Abort, QuitScan, keptVars, engineSide,
         listenVars, Running
<1>2. TuiTypes' /\ Listening'
  BY <1>1 DEF TuiInv, TuiTypes, Listening
<1>3. SentIsSeenOrAhead' /\ EndIsLast' /\ OtherScans'
  BY <1>1 DEF TuiInv, SentIsSeenOrAhead, EndIsLast, OtherScans, Seen, Ahead
<1>4. ScreenAndView' /\ Files'
  BY <1>1 DEF TuiInv, ScreenAndView, Files
<1>5. QED BY <1>2, <1>3, <1>4 DEF TuiInv

LEMMA BeginKeepsTui ==
  ASSUME TuiInv, BeginScan
  PROVE  TuiInv'
<1>1. /\ screen = "form" /\ scanNo \in Nat /\ scanNo < MaxScans /\ scanNo' = scanNo + 1 /\ MaxScans \in Nat
      /\ noAbort' \in BOOLEAN /\ outFile' \in {0, scanNo + 1} /\ view' = NewView /\ screen' = "scan"
      /\ UNCHANGED <<results, events, emitted, inbox>>
      /\ results \in Nat /\ results <= scanNo
  BY TuiAssumption DEF BeginScan, engineSide, TuiInv, TuiTypes
<1>2. scanNo + 1 \in Scans /\ Scans \subseteq Nat
  BY <1>1 DEF Scans
<1>3. TuiTypes'
  BY <1>1, <1>2 DEF TuiInv, TuiTypes, NewView, Scans
<1>4. ~Running /\ Running' /\ inbox = {} /\ armed = [s \in Scans |-> 0]
  BY <1>1 DEF Running, NewView, TuiInv, Listening
<1>5. armed' = [s \in Scans |-> IF s = scanNo + 1 THEN 1 ELSE 0]
  <2>1. armed' = [armed EXCEPT ![scanNo + 1] = armed[scanNo + 1] + 1]
    BY DEF BeginScan
  <2>2. armed[scanNo + 1] + 1 = 1
    BY <1>2, <1>4
  <2>3. QED BY <1>2, <1>4, <2>1, <2>2
<1>6. Listening'
  BY <1>1, <1>4, <1>5 DEF Listening
<1>7. events[scanNo + 1] = <<>> /\ emitted[scanNo + 1] = <<>>
  BY <1>1, <1>2 DEF TuiInv, OtherScans
<1>8. SentIsSeenOrAhead' /\ EndIsLast'
  <2>1. ~Holds(events'[scanNo'], "x") /\ \A e \in Told : ~Holds(events'[scanNo'], e) /\ ~Holds(emitted'[scanNo'], e)
    BY <1>1, <1>7, HoldsNone
  <2>2. \A e : ~Seen(e)'
    BY <1>1 DEF Seen, NewView
  <2>3. QED BY <1>1, <1>4, <1>7, <2>1, <2>2 DEF SentIsSeenOrAhead, EndIsLast, Ahead
<1>9. scanNo # 0 => events[scanNo] = <<>> /\ \E e \in Ending : Holds(emitted[scanNo], e)
  BY <1>1, <1>4 DEF TuiInv, ScreenAndView, EndIsLast, SentIsSeenOrAhead, Seen, Told, Ending
<1>10. OtherScans'
  <2>1. SUFFICES ASSUME NEW s \in Scans
                 PROVE  /\ s > scanNo + 1 => events[s] = <<>> /\ emitted[s] = <<>>
                        /\ s < scanNo + 1 => events[s] = <<>> /\ \E e \in Ending : Holds(emitted[s], e)
    BY <1>1 DEF OtherScans
  <2>2. s \in Nat /\ s # 0
    BY DEF Scans
  <2>3. CASE s = scanNo
    BY <1>1, <1>9, <2>2, <2>3
  <2>4. CASE s # scanNo
    BY <1>1, <2>2, <2>4 DEF TuiInv, OtherScans
  <2>5. QED BY <2>3, <2>4
<1>11. ScreenAndView'
  BY <1>1 DEF ScreenAndView, NewView
<1>12. Files'
  BY <1>1, <1>4 DEF TuiInv, Files
<1>13. QED BY <1>3, <1>6, <1>8, <1>10, <1>11, <1>12 DEF TuiInv

(* r: the scan on the screen is over, so its file is closed and no listener    *)
(* waits.                                                                      *)
LEMMA BackKeepsTui ==
  ASSUME TuiInv, NewScan
  PROVE  TuiInv'
<1>1. /\ screen = "scan" /\ screen' = "form" /\ view.done /\ outFile' = 0 /\ results' = results
      /\ UNCHANGED <<view, scanNo, noAbort, events, emitted, armed, inbox>> /\ ~Running /\ ~Running'
  BY DEF NewScan, BackToForm, Finalize, engineSide, listenVars, Running
<1>2. TuiTypes' /\ Listening'
  BY <1>1, TuiAssumption DEF TuiInv, TuiTypes, Listening
<1>3. SentIsSeenOrAhead' /\ EndIsLast' /\ OtherScans'
  BY <1>1 DEF TuiInv, SentIsSeenOrAhead, EndIsLast, OtherScans, Seen, Ahead
<1>4. ScreenAndView' /\ Files'
  BY <1>1 DEF TuiInv, ScreenAndView, Files
<1>5. QED BY <1>2, <1>3, <1>4 DEF TuiInv

(* The engine of a scan sends: only the scan on the screen is not yet over.    *)
LEMMA EngineKeepsTui ==
  ASSUME TuiInv, NEW s \in Scans, EngineSends(s)
  PROVE  TuiInv'
<1>1. /\ s <= scanNo /\ s # 0 /\ scanNo \in Nat /\ s \in Nat
      /\ UNCHANGED <<screen, loading, view, status, scanNo, noAbort, outFile, results, armed, inbox>>
      /\ Running' = Running /\ events \in [Scans -> Seq(Events)] /\ emitted \in [Scans -> Seq(Events)]
      /\ \A e \in Ending : ~Holds(emitted[s], e)
  BY TuiAssumption DEF EngineSends, keptVars, listenVars, Running, TuiInv, TuiTypes, Over, Sent, Holds, Scans
<1>2. PICK ev \in Events : /\ events' = [events EXCEPT ![s] = Append(@, ev)]
                           /\ emitted' = [emitted EXCEPT ![s] = Append(@, ev)]
  BY DEF EngineSends
<1>3. s = scanNo
  BY <1>1 DEF TuiInv, OtherScans
<1>4. ~view.done /\ Running /\ \A e \in Ending : ~Ahead(e)
  BY <1>1, <1>3, NotOver DEF Running
<1>5. PICK q \in Seq(Events), r \in Seq(Events) : q = events[s] /\ r = emitted[s]
  BY <1>1
<1>6. /\ events' = [events EXCEPT ![s] = Append(q, ev)] /\ emitted' = [emitted EXCEPT ![s] = Append(r, ev)]
      /\ events'[s] = Append(q, ev) /\ emitted'[s] = Append(r, ev)
      /\ \A t \in Scans \ {s} : events'[t] = events[t] /\ emitted'[t] = emitted[t]
  BY <1>1, <1>2, <1>5
<1>7. TuiTypes' /\ Listening'
  <2>1. Append(q, ev) \in Seq(Events) /\ Append(r, ev) \in Seq(Events)
    OBVIOUS
  <2>2. events' \in [Scans -> Seq(Events)] /\ emitted' \in [Scans -> Seq(Events)]
    BY <1>1, <1>6, <2>1
  <2>3. QED BY <1>1, <2>2 DEF TuiInv, TuiTypes, Listening
<1>8. SentIsSeenOrAhead'
  <2>1. SUFFICES ASSUME NEW e \in Told
                 PROVE  Holds(emitted'[scanNo], e)
                          <=> Seen(e) \/ (<<scanNo, e>> \in inbox \/ Holds(events'[scanNo], e))
    BY <1>1 DEF SentIsSeenOrAhead, Ahead, Seen
  <2>2. Holds(emitted'[s], e) <=> Holds(r, e) \/ ev = e
    <3>1. Holds(Append(r, ev), e) <=> Holds(r, e) \/ ev = e
      BY HoldsAppend
    <3>2. QED BY <1>6, <3>1
  <2>3. Holds(events'[s], e) <=> Holds(q, e) \/ ev = e
    <3>1. Holds(Append(q, ev), e) <=> Holds(q, e) \/ ev = e
      BY HoldsAppend
    <3>2. QED BY <1>6, <3>1
  <2>4. Holds(r, e) <=> Seen(e) \/ (<<scanNo, e>> \in inbox \/ Holds(q, e))
    BY <1>1, <1>3, <1>5 DEF TuiInv, SentIsSeenOrAhead, Ahead
  <2>5. QED BY <1>3, <2>2, <2>3, <2>4
<1>9. EndIsLast'
  <2>1. \A e \in Ending : <<scanNo, e>> \notin inbox /\ ~Holds(q, e)
    BY <1>3, <1>4, <1>5 DEF Ahead
  <2>2. \A k \in DOMAIN Append(q, ev) : Append(q, ev)[k] \in Ending => k = Len(Append(q, ev))
    <3>1. /\ Len(q) \in Nat /\ DOMAIN q = 1 .. Len(q) /\ DOMAIN Append(q, ev) = 1 .. Len(q) + 1
          /\ Len(Append(q, ev)) = Len(q) + 1 /\ \A k \in 1 .. Len(q) : Append(q, ev)[k] = q[k]
      OBVIOUS
    <3>2. \A k \in 1 .. Len(q) : Append(q, ev)[k] \notin Ending
      BY <2>1, <3>1 DEF Holds
    <3>3. QED BY <3>1, <3>2
  <2>3. QED BY <1>1, <1>3, <1>4, <1>6, <2>1, <2>2 DEF EndIsLast
<1>10. OtherScans'
  BY <1>1, <1>3, <1>6 DEF TuiInv, OtherScans
<1>11. ScreenAndView'
  BY <1>1 DEF TuiInv, ScreenAndView
<1>12. Files'
  <2>1. results # s
    BY <1>1, <1>3 DEF TuiInv, Files, Ending
  <2>2. results # 0 => results \in Scans
    BY <1>1, TuiAssumption DEF TuiInv, TuiTypes, Scans
  <2>3. QED BY <1>1, <1>6, <2>1, <2>2 DEF TuiInv, Files
<1>13. QED BY <1>7, <1>8, <1>9, <1>10, <1>11, <1>12 DEF TuiInv

(* The listener returns the head of its channel: what was ahead still is.      *)
LEMMA ListenerKeepsTui ==
  ASSUME TuiInv, NEW s \in Scans, ListenerReturns(s)
  PROVE  TuiInv'
<1>1. /\ UNCHANGED <<screen, loading, view, status, scanNo, noAbort, outFile, results, emitted>>
      /\ Running' = Running /\ events \in [Scans -> Seq(Events)] /\ armed[s] > 0 /\ events[s] # <<>>
      /\ s \in Nat /\ s # 0 /\ scanNo \in Nat
  BY TuiAssumption DEF ListenerReturns, keptVars, Running, TuiInv, TuiTypes, Scans
<1>2. /\ Running /\ s = scanNo /\ inbox = {}
      /\ armed = [t \in Scans |-> IF t = scanNo THEN 1 ELSE 0]
  BY <1>1 DEF TuiInv, Listening
<1>3. PICK q \in Seq(Events) : q = events[s]
  BY <1>1
<1>4. q # <<>> /\ Head(q) \in Events /\ Tail(q) \in Seq(Events)
  BY <1>1, <1>3
<1>5. PICK h \in Events, r \in Seq(Events) : h = Head(q) /\ r = Tail(q)
  BY <1>4
<1>6. /\ events' = [events EXCEPT ![s] = r] /\ events'[s] = r /\ inbox' = {<<scanNo, h>>}
      /\ \A t \in Scans \ {s} : events'[t] = events[t]
  BY <1>1, <1>2, <1>3, <1>5 DEF ListenerReturns
<1>7. armed' = [t \in Scans |-> 0]
  <2>1. armed' = [armed EXCEPT ![s] = armed[s] - 1] /\ armed[s] - 1 = 0
    BY <1>2 DEF ListenerReturns
  <2>2. QED BY <1>2, <2>1
<1>8. TuiTypes' /\ Listening'
  <2>1. events' \in [Scans -> Seq(Events)]
    BY <1>1, <1>6
  <2>2. QED BY <1>1, <1>2, <1>6, <1>7, <2>1 DEF TuiInv, TuiTypes, Listening
<1>9. SentIsSeenOrAhead'
  <2>1. SUFFICES ASSUME NEW e \in Told
                 PROVE  Holds(emitted[scanNo], e)
                          <=> Seen(e) \/ (<<scanNo, e>> \in inbox' \/ Holds(r, e))
    BY <1>1, <1>2, <1>6 DEF SentIsSeenOrAhead, Ahead, Seen
  <2>2. Holds(q, e) <=> h = e \/ Holds(r, e)
    BY <1>4, <1>5, HoldsTail
  <2>3. Holds(emitted[scanNo], e) <=> Seen(e) \/ Holds(q, e)
    BY <1>1, <1>2, <1>3 DEF TuiInv, SentIsSeenOrAhead, Ahead
  <2>4. <<scanNo, e>> \in inbox' <=> h = e
    BY <1>6
  <2>5. QED BY <2>2, <2>3, <2>4
<1>10. EndIsLast'
  <2>1. /\ Len(q) \in Nat \ {0} /\ DOMAIN q = 1 .. Len(q) /\ DOMAIN r = 1 .. Len(q) - 1 /\ Len(r) = Len(q) - 1
        /\ h = q[1] /\ \A k \in 1 .. Len(q) - 1 : r[k] = q[k + 1]
    BY <1>4, <1>5
  <2>2. \A k \in 1 .. Len(q) : q[k] \in Ending => k = Len(q)
    BY <1>1, <1>2, <1>3, <2>1 DEF TuiInv, EndIsLast
  <2>3. ASSUME NEW k \in 1 .. Len(q) - 1, r[k] \in Ending PROVE k = Len(q) - 1
    <3>1. k + 1 \in 1 .. Len(q) /\ q[k + 1] = r[k]
      BY <2>1
    <3>2. k + 1 = Len(q)
      BY <2>2, <2>3, <3>1
    <3>3. k \in Nat /\ Len(q) \in Nat
      BY <2>1
    <3>4. QED BY <3>2, <3>3
  <2>4. ASSUME h \in Ending PROVE Len(r) = 0
    <3>1. 1 \in 1 .. Len(q) /\ q[1] \in Ending
      BY <2>1, <2>4
    <3>2. 1 = Len(q)
      BY <2>2, <3>1
    <3>3. QED BY <2>1, <3>2
  <2>5. h \in Ending => r = <<>>
    BY <2>4
  <2>6. QED BY <1>1, <1>2, <1>6, <2>1, <2>3, <2>5 DEF EndIsLast, Running
<1>11. OtherScans'
  BY <1>1, <1>2, <1>6 DEF TuiInv, OtherScans
<1>12. ScreenAndView'
  BY <1>1 DEF TuiInv, ScreenAndView
<1>13. Files'
  <2>1. results # 0 => results \in Scans /\ results # s
    BY <1>1, TuiAssumption DEF TuiInv, TuiTypes, Files, Scans
  <2>2. QED BY <1>1, <1>6, <2>1 DEF TuiInv, Files
<1>14. QED BY <1>8, <1>9, <1>10, <1>11, <1>12, <1>13 DEF TuiInv

(* Update takes in a message of the scan on the screen.                        *)
LEMMA HandlersKeepTui ==
  ASSUME TuiInv, NEW m \in inbox, OnEvent(m) \/ OnError(m) \/ OnDone(m) \/ OnStopped(m)
  PROVE  TuiInv'
<1>1. /\ Running /\ armed = [s \in Scans |-> 0] /\ screen = "scan" /\ ~view.done /\ ~view.stopped
      /\ UNCHANGED <<screen, scanNo, noAbort, events, emitted>>
      /\ scanNo \in Scans /\ scanNo \in Nat /\ scanNo # 0 /\ outFile \in 0 .. MaxScans
  <2>1. UNCHANGED <<screen, scanNo, noAbort, events, emitted>>
    BY DEF OnEvent, OnError, OnDone, OnStopped, keptVars, engineSide
  <2>2. Running /\ armed = [s \in Scans |-> 0]
    BY DEF TuiInv, Listening
  <2>3. screen = "scan" /\ ~view.done /\ ~view.stopped /\ scanNo # 0
    BY <2>2 DEF Running, TuiInv, ScreenAndView
  <2>4. scanNo \in 0 .. MaxScans /\ outFile \in 0 .. MaxScans
    BY DEF TuiInv, TuiTypes
  <2>5. QED BY <2>1, <2>2, <2>3, <2>4, TuiAssumption DEF Scans
<1>2. PICK ev \in Events : inbox = {<<scanNo, ev>>}
  BY <1>1 DEF TuiInv, Listening
<1>3. m = <<scanNo, ev>> /\ m[2] = ev /\ inbox' = {}
  <2>1. inbox' = inbox \ {m}
    BY DEF OnEvent, OnError, OnDone, OnStopped, Take
  <2>2. QED BY <1>2, <2>1
<1>4. OtherScans'
  BY <1>1 DEF TuiInv, OtherScans
<1>5. \A e \in Told : Holds(emitted[scanNo], e) <=> Seen(e) \/ ev = e \/ Holds(events[scanNo], e)
  BY <1>1, <1>2 DEF TuiInv, SentIsSeenOrAhead, Ahead
<1>6. CASE OnEvent(m) \/ OnError(m)
  <2>1. /\ UNCHANGED <<outFile, results>> /\ view'.done = view.done /\ view'.stopped = view.stopped
        /\ view' \in [done : BOOLEAN, stopped : BOOLEAN, aborted : BOOLEAN, err : BOOLEAN]
        /\ view'.err <=> view.err \/ ev = "error"
        /\ ev \notin Ending
    BY <1>3, <1>6 DEF OnEvent, OnError, keptVars, TuiInv, TuiTypes, Ending, Events
  <2>2. armed' = [s \in Scans |-> IF s = scanNo THEN 1 ELSE 0]
    <3>1. armed' = [armed EXCEPT ![scanNo] = armed[scanNo] + 1] /\ armed[scanNo] + 1 = 1
      BY <1>1, <1>6 DEF OnEvent, OnError, Rearm
    <3>2. QED BY <1>1, <3>1
  <2>3. Running' /\ TuiTypes' /\ Listening'
    BY <1>1, <1>3, <2>1, <2>2 DEF TuiInv, TuiTypes, Listening, Running
  <2>4. SentIsSeenOrAhead'
    <3>1. SUFFICES ASSUME NEW e \in Told
                   PROVE  Holds(emitted[scanNo], e) <=> Seen(e)' \/ Holds(events[scanNo], e)
      BY <1>1, <1>3 DEF SentIsSeenOrAhead, Ahead
    <3>2. Seen(e)' <=> Seen(e) \/ ev = e
      BY <2>1 DEF Seen, Told, Ending
    <3>3. QED BY <1>5, <3>2
  <2>5. EndIsLast' /\ ScreenAndView' /\ Files'
    BY <1>1, <1>3, <2>1, <2>3 DEF TuiInv, EndIsLast, ScreenAndView, Files
  <2>6. QED BY <1>4, <2>3, <2>4, <2>5 DEF TuiInv
<1>7. CASE OnDone(m) \/ OnStopped(m)
  <2>1. /\ ev \in Ending /\ view'.done /\ view'.err = view.err /\ view'.stopped = (ev = "stopped")
        /\ view' \in [done : BOOLEAN, stopped : BOOLEAN, aborted : BOOLEAN, err : BOOLEAN]
        /\ armed' = armed /\ outFile' = 0
        /\ results' = IF ev = "done" /\ outFile # 0 THEN outFile ELSE results
    BY <1>1, <1>3, <1>7 DEF OnDone, OnStopped, Finalize, Ending, TuiInv, TuiTypes
  <2>2. ~Running' /\ events[scanNo] = <<>>
    BY <1>1, <1>2, <2>1 DEF TuiInv, EndIsLast, Running
  <2>3. results' \in 0 .. scanNo /\ outFile' \in 0 .. MaxScans
    BY <1>1, <2>1, TuiAssumption DEF TuiInv, TuiTypes, Files
  <2>4. TuiTypes' /\ Listening'
    BY <1>1, <1>3, <2>1, <2>2, <2>3 DEF TuiInv, TuiTypes, Listening
  <2>5. SentIsSeenOrAhead'
    <3>1. SUFFICES ASSUME NEW e \in Told
                   PROVE  Holds(emitted[scanNo], e) <=> Seen(e)' \/ Holds(events[scanNo], e)
      BY <1>1, <1>3 DEF SentIsSeenOrAhead, Ahead
    <3>2. Seen(e)' <=> Seen(e) \/ ev = e
      BY <1>1, <2>1 DEF Seen, Told, Ending
    <3>3. QED BY <1>5, <3>2
  <2>6. EndIsLast' /\ ScreenAndView'
    BY <1>1, <1>3, <2>1, <2>2 DEF TuiInv, EndIsLast, ScreenAndView
  <2>7. Files'
    <3>1. ev = "done" => Holds(emitted[scanNo], "done")
      BY <1>5 DEF Told, Ending
    <3>2. QED BY <1>1, <2>1, <2>2, <3>1 DEF TuiInv, Files
  <2>8. QED BY <1>4, <2>4, <2>5, <2>6, <2>7 DEF TuiInv
<1>8. QED BY <1>6, <1>7

LEMMA TuiStarts == TuiInit => TuiInv
<1>1. SUFFICES ASSUME TuiInit PROVE TuiInv
  OBVIOUS
<1>2. \A s \in Scans : events[s] = <<>> /\ emitted[s] = <<>>
  BY <1>1 DEF TuiInit
<1>3. TuiTypes
  <2>1. <<>> \in Seq(Events)
    OBVIOUS
  <2>2. events \in [Scans -> Seq(Events)] /\ emitted \in [Scans -> Seq(Events)]
    BY <1>1, <2>1 DEF TuiInit
  <2>3. view \in [done : BOOLEAN, stopped : BOOLEAN, aborted : BOOLEAN, err : BOOLEAN]
    BY <1>1 DEF TuiInit, NewView
  <2>4. 0 \in 0 .. MaxScans /\ 0 \in 0 .. 0
    BY TuiAssumption
  <2>5. QED BY <1>1, <2>2, <2>3, <2>4 DEF TuiInit, TuiTypes
<1>4. Listening /\ ScreenAndView /\ Files
  BY <1>1 DEF TuiInit, Listening, Running, ScreenAndView, Files, NewView
<1>5. SentIsSeenOrAhead /\ EndIsLast
  BY <1>1 DEF TuiInit, SentIsSeenOrAhead, EndIsLast
<1>6. OtherScans
  <2>1. \A s \in Scans : ~(s < 0)
    BY DEF Scans
  <2>2. QED BY <1>1, <1>2, <2>1 DEF TuiInit, OtherScans
<1>7. QED BY <1>3, <1>4, <1>5, <1>6 DEF TuiInv

LEMMA TuiHolds == TuiSpec => []TuiInv
<1>1. TuiInv /\ [TuiNext]_tuiVars => TuiInv'
  <2>1. CASE UNCHANGED tuiVars
    BY <2>1 DEF tuiVars, keptVars, engineSide, listenVars, TuiInv, TuiTypes, Listening, Running,
       SentIsSeenOrAhead, Seen, Ahead, EndIsLast, OtherScans, ScreenAndView, Files
  <2>2. QED BY <2>1, KeysKeepTui, BeginKeepsTui, BackKeepsTui, EngineKeepsTui, ListenerKeepsTui,
               HandlersKeepTui DEF TuiNext, Keys, Loaded, Handled, Engines, Listeners
<1>2. QED BY <1>1, TuiStarts, PTL DEF TuiSpec

(* One message of the running scan at a time, for any number of scans in a     *)
(* session, hits and size of the channel: no result is drawn after the totals  *)
(* and nothing of an earlier scan (#43, #55).                                  *)
THEOREM OneAtATime == TuiSpec => []OneListenerAtATime
<1>1. TuiInv => OneListenerAtATime
  <2>1. SUFFICES ASSUME TuiInv, NEW s \in Scans
                 PROVE  armed[s] + Cardinality({m \in inbox : m[1] = s})
                          = IF screen = "scan" /\ s = scanNo /\ ~view.done THEN 1 ELSE 0
    BY DEF OneListenerAtATime
  <2>2. CASE inbox = {}
    <3>1. {m \in inbox : m[1] = s} = {}
      BY <2>2
    <3>2. Cardinality({m \in inbox : m[1] = s}) = 0
      BY <3>1, FS_EmptySet
    <3>3. armed[s] = IF Running /\ s = scanNo THEN 1 ELSE 0
      BY <2>1, <2>2 DEF TuiInv, Listening
    <3>4. QED BY <3>2, <3>3 DEF Running
  <2>3. CASE inbox # {}
    <3>1. PICK e \in Events : inbox = {<<scanNo, e>>}
      BY <2>1, <2>3 DEF TuiInv, Listening
    <3>2. Running /\ armed[s] = 0
      BY <2>1, <2>3 DEF TuiInv, Listening
    <3>3. {m \in inbox : m[1] = s} = IF s = scanNo THEN {<<scanNo, e>>} ELSE {}
      BY <3>1
    <3>4. Cardinality({m \in inbox : m[1] = s}) = IF s = scanNo THEN 1 ELSE 0
      BY <3>3, FS_EmptySet, FS_Singleton
    <3>5. QED BY <3>2, <3>4 DEF Running
  <2>4. QED BY <2>2, <2>3
<1>2. QED BY <1>1, TuiHolds, PTL

(* However many scans a session starts: exit code 1 tells that the last of     *)
(* them failed, and only a scan that came to its totals replaces the results   *)
(* file (#52, #55, #99).                                                       *)
THEOREM TheEndTellsTheScan == TuiSpec => []EndTellsTheScan
<1>1. TuiInv => EndTellsTheScan
  <2>1. SUFFICES ASSUME TuiInv PROVE EndTellsTheScan
    OBVIOUS
  <2>2. \A s, e : Sent(s, e) = Holds(emitted[s], e)
    BY DEF Sent, Holds
  <2>3. results # 0 => Sent(results, "done") /\ events[results] = <<>>
    BY <2>1, <2>2 DEF TuiInv, Files
  <2>4. outFile # 0 => outFile = scanNo /\ screen = "scan" /\ ~view.done /\ results < outFile
    BY <2>1 DEF TuiInv, Files, Running
  <2>5. ASSUME screen = "quit" PROVE outFile = 0
    BY <2>4, <2>5
  <2>6. ASSUME screen = "quit"
        PROVE  Failed(view)
                 <=> scanNo > 0 /\ Sent(scanNo, "error") /\ (Sent(scanNo, "stopped") \/ ~noAbort)
    <3>1. inbox = {}
      BY <2>1, <2>6 DEF TuiInv, Listening, Running
    <3>2. CASE scanNo = 0
      BY <2>1, <3>2 DEF TuiInv, ScreenAndView, NewView, Failed
    <3>3. CASE scanNo # 0
      <4>1. view.done /\ events[scanNo] = <<>> /\ scanNo > 0
        BY <2>1, <2>6, <3>3 DEF TuiInv, ScreenAndView, EndIsLast, TuiTypes
      <4>2. \A e \in Told : Sent(scanNo, e) <=> Seen(e)
        BY <2>1, <2>2, <3>1, <3>3, <4>1, HoldsNone DEF TuiInv, SentIsSeenOrAhead, Ahead
      <4>3. (Sent(scanNo, "error") <=> view.err) /\ (Sent(scanNo, "stopped") <=> view.stopped)
        BY <4>2 DEF Told, Ending, Seen
      <4>4. QED BY <4>1, <4>3 DEF Failed
    <3>4. QED BY <3>2, <3>3
  <2>7. QED BY <2>3, <2>4, <2>5, <2>6 DEF EndTellsTheScan, ExitCode
<1>2. QED BY <1>1, TuiHolds, PTL

-----------------------------------------------------------------------------
(***************************************************************************)
(* The diff report.  Every name the feed loop has passed is in a worker's  *)
(* hands or in the map of outcomes, and an outcome NXDOMAIN, on its way or *)
(* stored, is that of a name without a record of the types asked for.      *)
(***************************************************************************)
DiffTypes ==
  /\ phase \in {"scan", "grade", "feed", "join", "tally", "done"}
  /\ missing \in Seq(Previous) /\ fed \in Nat /\ fed <= Len(missing)
  /\ holder \in [Worker -> {{}} \cup {{n} : n \in ToSet(missing)}]
  /\ answer \in [Worker -> Answers \cup {""}]
  /\ outcomes \subseteq ToSet(missing) \X Answers

(* The list Verify is given, and that there is none unless the run is complete. *)
Listed ==
  /\ missing # <<>> => /\ phase \notin {"scan", "grade"} /\ verdict = "complete"
                       /\ ToSet(missing) = Missing
  /\ missing = <<>> => /\ phase \in {"scan", "grade", "done"}
                       /\ phase = "done" /\ verdict = "complete" => Missing = {}

SilentIsSilent ==
  /\ \A w \in Worker : Idle(w) => answer[w] = ""
  /\ \A w \in Worker : answer[w] = "nxdomain" => holder[w] \cap Resolving = {}
  /\ \A n : <<n, "nxdomain">> \in outcomes => n \notin Resolving

Stands(n) == \/ \E w \in Worker : holder[w] = {n}
             \/ \E o \in Answers : <<n, o>> \in outcomes

AllPassed ==
  /\ \A i \in 1 .. fed : Stands(missing[i])
  /\ phase \in {"join", "tally", "done"} /\ ~diffCtx => fed = Len(missing)
  /\ phase \in {"tally", "done"} => AllIdle

Parted(a, b, c, S) ==
  a \cup b \cup c = S /\ a \cap b = {} /\ a \cap c = {} /\ b \cap c = {}

Counted ==
  /\ phase # "done" \/ missing = <<>> => removed = {} /\ still = {} /\ unverified = {}
  /\ phase = "done" /\ missing # <<>> =>
       Parted(removed, still, unverified, Missing) /\ removed \cap Resolving = {}

DiffInv == DiffTypes /\ Listed /\ SilentIsSilent /\ AllPassed /\ Counted

(* missingNames lists the missing names, each once.                            *)
LEMMA ListOf ==
  ASSUME NEW S, IsFiniteSet(S), S # {}
  PROVE  SetToSeq(S) \in Seq(S) /\ ToSet(SetToSeq(S)) = S /\ SetToSeq(S) # <<>>
<1>1. /\ Cardinality(S) \in Nat /\ ExistsBijection(1 .. Cardinality(S), S)
  BY FS_CardinalityType
<1>2. PICK n \in Nat : n = Cardinality(S)
  BY <1>1
<1>3. \E f \in [1 .. n -> S] : IsInjective(f)
  BY <1>1, <1>2 DEF ExistsBijection, Bijection, Injection
<1>4. PICK f : f = SetToSeq(S) /\ f \in [1 .. n -> S] /\ IsInjective(f)
  BY <1>2, <1>3 DEF SetToSeq
<1>5. IsFiniteSet(1 .. n) /\ Cardinality(1 .. n) = n
  BY <1>2, FS_Interval
<1>6. f \in Injection(1 .. n, S)
  BY <1>4 DEF Injection
<1>7. f \in Surjection(1 .. n, S)
  BY <1>2, <1>5, <1>6, FS_Injection
<1>8. ToSet(f) = S
  BY <1>4, <1>7 DEF Surjection, ToSet
<1>9. f \in Seq(S)
  BY <1>4
<1>10. f # <<>>
  BY <1>8 DEF ToSet
<1>11. QED BY <1>4, <1>8, <1>9, <1>10

LEMMA MissingFinite == IsFiniteSet(Missing) /\ Missing \subseteq Previous
<1>1. Missing \subseteq Previous
  BY DEF Missing
<1>2. QED BY <1>1, FS_Subset, DiffAssumption

LEMMA ListedNames ==
  ASSUME NEW q \in Seq(Previous)
  PROVE  ToSet(q) = {q[i] : i \in 1 .. Len(q)} /\ ToSet(q) \subseteq Previous
  BY DEF ToSet

LEMMA NoNames == ToSet(<<>>) = {} /\ \A A : {} \X A = {}
  BY DEF ToSet

LEMMA MainKeepsDiff ==
  ASSUME DiffInv, EndScan \/ Grade \/ StopFeeding \/ CancelDiff \/ \E n \in Candidates : Observe(n)
  PROVE  DiffInv'
<1>1. CASE EndScan \/ CancelDiff \/ \E n \in Candidates : Observe(n)
  <2>1. UNCHANGED <<missing, fed, holder, answer, outcomes, removed, still, unverified>>
    BY <1>1 DEF EndScan, CancelDiff, Observe, workVars, tallyVars
  <2>2. CASE phase = "scan" /\ phase' \in {"scan", "grade"}
    BY <2>1, <2>2 DEF DiffInv, DiffTypes, Listed, SilentIsSilent, AllPassed, Counted, Idle, Stands, AllIdle
  <2>3. CASE CancelDiff
    <3>1. UNCHANGED <<phase, verdict, current>> /\ Missing' = Missing /\ diffCtx'
      BY <2>3 DEF CancelDiff, runVars, Missing
    <3>2. QED BY <2>1, <3>1
          DEF DiffInv, DiffTypes, Listed, SilentIsSilent, AllPassed, Counted, Idle, Stands, AllIdle
  <2>4. QED BY <1>1, <2>2, <2>3 DEF EndScan, Observe
<1>2. CASE StopFeeding
  <2>1. /\ UNCHANGED <<missing, fed, holder, answer, outcomes, removed, still, unverified>>
        /\ UNCHANGED <<verdict, current, diffCtx>> /\ Missing' = Missing
        /\ phase = "feed" /\ phase' = "join" /\ (fed = Len(missing) \/ diffCtx)
    BY <1>2 DEF StopFeeding, workVars, tallyVars, runVars, Missing
  <2>2. QED BY <2>1
        DEF DiffInv, DiffTypes, Listed, SilentIsSilent, AllPassed, Counted, Idle, Stands, AllIdle
<1>3. CASE Grade
  <2>1. /\ UNCHANGED <<fed, holder, answer, outcomes, removed, still, unverified>>
        /\ UNCHANGED <<verdict, current, diffCtx>> /\ Missing' = Missing /\ phase = "grade" /\ missing = <<>>
    BY <1>3 DEF Grade, workVars, tallyVars, runVars, Missing, DiffInv, Listed
  <2>2. /\ fed = 0 /\ AllIdle /\ outcomes = {} /\ \A w \in Worker : holder[w] = {}
    <3>1. ToSet(missing) = {} /\ Len(missing) = 0
      BY <2>1, NoNames
    <3>2. fed = 0 /\ outcomes = {}
      <4>1. fed \in Nat /\ fed <= Len(missing) /\ outcomes \subseteq ToSet(missing) \X Answers
        BY DEF DiffInv, DiffTypes
      <4>2. QED BY <3>1, <4>1
    <3>3. \A w \in Worker : holder[w] = {}
      BY <3>1 DEF DiffInv, DiffTypes
    <3>4. QED BY <3>2, <3>3 DEF AllIdle, Idle
  <2>3. CASE verdict = "complete" /\ Missing # {}
    <3>1. missing' = SetToSeq(Missing) /\ phase' = "feed"
      BY <1>3, <2>3 DEF Grade
    <3>2. missing' \in Seq(Missing) /\ ToSet(missing') = Missing /\ missing' # <<>>
      BY <2>3, <3>1, ListOf, MissingFinite
    <3>3. missing' \in Seq(Previous) /\ 0 <= Len(missing')
      BY <3>2, MissingFinite
    <3>4. DiffTypes'
      BY <2>1, <2>2, <3>1, <3>2, <3>3 DEF DiffInv, DiffTypes
    <3>5. Listed' /\ Counted'
      BY <2>1, <2>3, <3>1, <3>2 DEF DiffInv, Listed, Counted
    <3>6. SilentIsSilent'
      BY <2>1 DEF DiffInv, SilentIsSilent, Idle
    <3>7. AllPassed'
      BY <2>1, <2>2, <3>1 DEF AllPassed
    <3>8. QED BY <3>4, <3>5, <3>6, <3>7 DEF DiffInv
  <2>4. CASE ~(verdict = "complete" /\ Missing # {})
    <3>1. missing' = missing /\ phase' = "done"
      BY <1>3, <2>4 DEF Grade
    <3>2. fed = Len(missing)
      BY <2>1, <2>2
    <3>3. QED BY <2>1, <2>2, <2>4, <3>1, <3>2
          DEF DiffInv, DiffTypes, Listed, SilentIsSilent, AllPassed, Counted, Idle, Stands, AllIdle
  <2>5. QED BY <2>3, <2>4
<1>4. QED BY <1>1, <1>2, <1>3

LEMMA FeedKeepsDiff ==
  ASSUME DiffInv, NEW w \in Worker, Feed(w)
  PROVE  DiffInv'
<1>1. /\ phase = "feed" /\ fed < Len(missing) /\ holder[w] = {} /\ fed' = fed + 1
      /\ holder' = [holder EXCEPT ![w] = {missing[fed + 1]}]
      /\ UNCHANGED <<phase, verdict, current, missing, answer, outcomes, diffCtx, removed, still, unverified>>
      /\ Missing' = Missing
  BY DEF Feed, Idle, runVars, tallyVars, Missing
<1>2. PICK n : n = missing[fed + 1]
  OBVIOUS
<1>3. /\ fed \in Nat /\ Len(missing) \in Nat /\ n \in ToSet(missing)
      /\ holder \in [Worker -> {{}} \cup {{x} : x \in ToSet(missing)}]
  <2>1. fed \in Nat /\ missing \in Seq(Previous) /\ holder \in [Worker -> {{}} \cup {{x} : x \in ToSet(missing)}]
    BY DEF DiffInv, DiffTypes
  <2>2. fed + 1 \in 1 .. Len(missing) /\ Len(missing) \in Nat
    BY <1>1, <2>1
  <2>3. QED BY <1>2, <2>1, <2>2, ListedNames
<1>4. /\ holder' \in [Worker -> {{}} \cup {{x} : x \in ToSet(missing)}] /\ holder'[w] = {n}
      /\ \A v \in Worker \ {w} : holder'[v] = holder[v]
  BY <1>1, <1>2, <1>3
<1>5. DiffTypes' /\ Listed' /\ Counted'
  <2>1. fed' \in Nat /\ fed' <= Len(missing)
    BY <1>1, <1>3
  <2>2. DiffTypes'
    BY <1>1, <1>4, <2>1 DEF DiffInv, DiffTypes
  <2>3. QED BY <1>1, <2>2 DEF DiffInv, Listed, Counted
<1>6. answer[w] = ""
  BY <1>1 DEF DiffInv, SilentIsSilent, Idle
<1>7. SilentIsSilent'
  BY <1>1, <1>4, <1>6 DEF DiffInv, SilentIsSilent, Idle
<1>8. AllPassed'
  <2>1. ASSUME NEW i \in 1 .. fed + 1 PROVE Stands(missing[i])'
    <3>1. CASE i = fed + 1
      BY <1>1, <1>2, <1>4, <3>1 DEF Stands
    <3>2. CASE i # fed + 1
      <4>1. Stands(missing[i])
        BY <1>3, <3>2 DEF DiffInv, AllPassed
      <4>2. QED BY <1>1, <1>4, <4>1 DEF Stands
    <3>3. QED BY <3>1, <3>2
  <2>2. QED BY <1>1, <2>1 DEF AllPassed
<1>9. QED BY <1>5, <1>7, <1>8 DEF DiffInv

LEMMA LookupKeepsDiff ==
  ASSUME DiffInv, NEW w \in Worker, VerifyLookup(w)
  PROVE  DiffInv'
<1>1. /\ UNCHANGED <<phase, verdict, current, missing, fed, holder, outcomes, diffCtx, removed, still, unverified>>
      /\ Missing' = Missing /\ holder[w] # {}
  BY DEF VerifyLookup, Idle, runVars, tallyVars, Missing
<1>2. PICK n \in holder[w], o \in Answers :
        answer' = [answer EXCEPT ![w] = o] /\ (o = "nxdomain" => n \notin Resolving)
  BY DEF VerifyLookup, Classified, Reply
<1>3. /\ holder \in [Worker -> {{}} \cup {{x} : x \in ToSet(missing)}]
      /\ answer \in [Worker -> Answers \cup {""}]
  BY DEF DiffInv, DiffTypes
<1>4. holder[w] = {n}
  <2>1. PICK x \in ToSet(missing) : holder[w] = {x}
    BY <1>1, <1>3
  <2>2. QED BY <2>1
<1>5. /\ answer' \in [Worker -> Answers \cup {""}] /\ answer'[w] = o
      /\ \A v \in Worker \ {w} : answer'[v] = answer[v]
  BY <1>2, <1>3
<1>6. DiffTypes' /\ Listed' /\ Counted' /\ AllPassed'
  BY <1>1, <1>5 DEF DiffInv, DiffTypes, Listed, Counted, AllPassed, Stands, AllIdle, Idle
<1>7. SilentIsSilent'
  BY <1>1, <1>2, <1>4, <1>5 DEF DiffInv, SilentIsSilent, Idle
<1>8. QED BY <1>6, <1>7 DEF DiffInv

LEMMA StoreKeepsDiff ==
  ASSUME DiffInv, NEW w \in Worker, Store(w)
  PROVE  DiffInv'
<1>1. /\ UNCHANGED <<phase, verdict, current, missing, fed, diffCtx, removed, still, unverified>>
      /\ Missing' = Missing /\ holder[w] # {} /\ answer[w] # ""
      /\ holder' = [holder EXCEPT ![w] = {}] /\ answer' = [answer EXCEPT ![w] = ""]
  BY DEF Store, Idle, runVars, tallyVars, Missing
<1>2. /\ holder \in [Worker -> {{}} \cup {{x} : x \in ToSet(missing)}]
      /\ answer \in [Worker -> Answers \cup {""}] /\ outcomes \subseteq ToSet(missing) \X Answers
  BY DEF DiffInv, DiffTypes
<1>3. PICK n \in holder[w] : outcomes' = outcomes \cup {<<n, Stored(answer[w])>>}
  BY DEF Store
<1>4. holder[w] = {n} /\ n \in ToSet(missing)
  <2>1. PICK x \in ToSet(missing) : holder[w] = {x}
    BY <1>1, <1>2
  <2>2. QED BY <2>1
<1>5. PICK o \in Answers : o = Stored(answer[w])
  BY <1>1, <1>2 DEF Stored, Answers
<1>6. o = "nxdomain" => n \notin Resolving
  <2>1. o = "nxdomain" => answer[w] = "nxdomain"
    BY <1>5 DEF Stored
  <2>2. QED BY <1>4, <2>1 DEF DiffInv, SilentIsSilent
<1>7. outcomes' = outcomes \cup {<<n, o>>}
  BY <1>3, <1>5
<1>8. /\ holder' \in [Worker -> {{}} \cup {{x} : x \in ToSet(missing)}] /\ holder'[w] = {}
      /\ answer' \in [Worker -> Answers \cup {""}] /\ answer'[w] = ""
      /\ \A v \in Worker \ {w} : holder'[v] = holder[v] /\ answer'[v] = answer[v]
      /\ outcomes' \subseteq ToSet(missing) \X Answers
  <2>1. holder' \in [Worker -> {{}} \cup {{x} : x \in ToSet(missing)}] /\ holder'[w] = {}
    BY <1>1, <1>2
  <2>2. answer' \in [Worker -> Answers \cup {""}] /\ answer'[w] = ""
    BY <1>1, <1>2
  <2>3. \A v \in Worker \ {w} : holder'[v] = holder[v] /\ answer'[v] = answer[v]
    BY <1>1, <1>2
  <2>4. outcomes' \subseteq ToSet(missing) \X Answers
    <3>1. <<n, o>> \in ToSet(missing) \X Answers
      BY <1>4
    <3>2. QED BY <1>2, <1>7, <3>1
  <2>5. QED BY <2>1, <2>2, <2>3, <2>4
<1>9. DiffTypes' /\ Listed' /\ Counted'
  BY <1>1, <1>8 DEF DiffInv, DiffTypes, Listed, Counted
<1>10. SilentIsSilent'
  BY <1>6, <1>7, <1>8 DEF DiffInv, SilentIsSilent, Idle
<1>11. AllPassed'
  <2>1. ASSUME NEW x, Stands(x) PROVE Stands(x)'
    <3>1. CASE x = n
      BY <1>7, <3>1 DEF Stands
    <3>2. CASE x # n
      BY <1>4, <1>7, <1>8, <2>1, <3>2 DEF Stands
    <3>3. QED BY <3>1, <3>2
  <2>2. AllIdle => AllIdle'
    BY <1>8 DEF AllIdle, Idle
  <2>3. QED BY <1>1, <2>1, <2>2 DEF DiffInv, AllPassed
<1>12. QED BY <1>9, <1>10, <1>11 DEF DiffInv

LEMMA TallyKeepsDiff ==
  ASSUME DiffInv, Join \/ Tally
  PROVE  DiffInv'
<1>1. /\ UNCHANGED <<verdict, current, missing, fed, holder, answer, outcomes, diffCtx>> /\ Missing' = Missing
  BY DEF Join, Tally, runVars, workVars, Missing
<1>2. DiffTypes' /\ SilentIsSilent'
  BY <1>1 DEF DiffInv, DiffTypes, SilentIsSilent, Idle, Join, Tally
<1>3. CASE Join
  <2>1. phase = "join" /\ AllIdle /\ phase' = "tally" /\ UNCHANGED <<removed, still, unverified>>
    BY <1>3 DEF Join, tallyVars
  <2>2. Listed' /\ Counted'
    BY <1>1, <2>1 DEF DiffInv, Listed, Counted
  <2>3. AllPassed'
    BY <1>1, <2>1 DEF DiffInv, AllPassed, Stands, AllIdle, Idle
  <2>4. QED BY <1>2, <2>2, <2>3 DEF DiffInv
<1>4. CASE Tally
  <2>1. /\ phase = "tally" /\ phase' = "done" /\ missing # <<>> /\ ToSet(missing) = Missing
        /\ removed' = {n \in Missing : OutcomeOf(n) \in Gone}
        /\ still' = {n \in Missing : OutcomeOf(n) = "found"}
        /\ unverified' = {n \in Missing : OutcomeOf(n) \notin Gone \cup {"found"}}
    BY <1>4 DEF Tally, DiffInv, Listed
  <2>2. Listed' /\ AllPassed'
    BY <1>1, <2>1 DEF DiffInv, Listed, AllPassed, Stands, AllIdle, Idle
  <2>3. Parted(removed', still', unverified', Missing)
    BY <2>1 DEF Parted, Gone
  <2>4. ASSUME NEW n \in removed' PROVE n \notin Resolving
    <3>1. OutcomeOf(n) = "nxdomain"
      BY <2>1, <2>4 DEF Gone
    <3>2. \E o \in Answers : <<n, o>> \in outcomes
      BY <3>1 DEF OutcomeOf
    <3>3. <<n, "nxdomain">> \in outcomes
      BY <3>1, <3>2 DEF OutcomeOf
    <3>4. QED BY <3>3 DEF DiffInv, SilentIsSilent
  <2>5. Counted'
    BY <1>1, <2>1, <2>3, <2>4 DEF Counted
  <2>6. QED BY <1>2, <2>2, <2>5 DEF DiffInv
<1>5. QED BY <1>3, <1>4

LEMMA PartsAddUp ==
  ASSUME NEW S, IsFiniteSet(S), NEW a, NEW b, NEW c, Parted(a, b, c, S)
  PROVE  Cardinality(a) + Cardinality(b) + Cardinality(c) = Cardinality(S)
<1>1. /\ a \subseteq S /\ b \subseteq S /\ c \subseteq S /\ a \cap b = {} /\ (a \cup b) \cap c = {}
      /\ (a \cup b) \cup c = S /\ a \cup b \subseteq S
  BY DEF Parted
<1>2. /\ IsFiniteSet(a) /\ IsFiniteSet(b) /\ IsFiniteSet(c) /\ IsFiniteSet(a \cup b)
  BY <1>1, FS_Subset
<1>3. Cardinality(a \cup b) = Cardinality(a) + Cardinality(b) - Cardinality(a \cap b)
  BY <1>2, FS_Union
<1>4. Cardinality((a \cup b) \cup c) = Cardinality(a \cup b) + Cardinality(c) - Cardinality((a \cup b) \cap c)
  BY <1>2, FS_Union
<1>5. Cardinality(a \cap b) = 0 /\ Cardinality((a \cup b) \cap c) = 0
  BY <1>1, FS_EmptySet
<1>6. /\ Cardinality(a) \in Nat /\ Cardinality(b) \in Nat /\ Cardinality(c) \in Nat
  BY <1>2, FS_CardinalityType
<1>7. Cardinality(a \cup b) = Cardinality(a) + Cardinality(b)
  BY <1>3, <1>5, <1>6
<1>8. Cardinality((a \cup b) \cup c) = Cardinality(a) + Cardinality(b) + Cardinality(c)
  BY <1>4, <1>5, <1>6, <1>7
<1>9. (a \cup b) \cup c = S
  BY <1>1
<1>10. QED BY <1>8, <1>9

(* A name is reported removed only if a lookup of it succeeded and found no    *)
(* record of this run's types, and every missing name is counted once: for any *)
(* number of workers, names and outcomes (#84, #110).                          *)
THEOREM RemovedIsSilent == DiffSpec => []RemovedReportTrue
<1>1. DiffInit => DiffInv
  <2>1. SUFFICES ASSUME DiffInit PROVE DiffInv
    OBVIOUS
  <2>2. <<>> \in Seq(Previous) /\ Len(<<>>) = 0
    OBVIOUS
  <2>3. DiffTypes
    <3>1. holder \in [Worker -> {{}} \cup {{n} : n \in ToSet(missing)}] /\ answer \in [Worker -> Answers \cup {""}]
      BY <2>1 DEF DiffInit
    <3>2. phase \in {"scan", "grade", "feed", "join", "tally", "done"} /\ outcomes = {}
      BY <2>1 DEF DiffInit
    <3>3. missing \in Seq(Previous) /\ fed \in Nat /\ fed <= Len(missing)
      <4>1. missing = <<>> /\ fed = 0
        BY <2>1 DEF DiffInit
      <4>2. 0 \in Nat /\ 0 <= Len(<<>>)
        BY <2>2
      <4>3. QED BY <2>2, <4>1, <4>2
    <3>4. QED BY <3>1, <3>2, <3>3 DEF DiffTypes
  <2>4. Listed /\ Counted
    BY <2>1 DEF DiffInit, Listed, Counted
  <2>5. SilentIsSilent
    BY <2>1 DEF DiffInit, SilentIsSilent, Idle
  <2>6. AllPassed
    <3>1. phase = "scan" /\ fed = 0
      BY <2>1 DEF DiffInit
    <3>2. \A i \in 1 .. 0 : Stands(missing[i])
      OBVIOUS
    <3>3. QED BY <3>1, <3>2 DEF AllPassed
  <2>7. QED BY <2>3, <2>4, <2>5, <2>6 DEF DiffInv
<1>2. DiffInv /\ [DiffNext]_diffVars => DiffInv'
  <2>1. CASE UNCHANGED diffVars
    BY <2>1 DEF diffVars, runVars, workVars, tallyVars, DiffInv, DiffTypes, Listed, SilentIsSilent, AllPassed,
       Counted, Idle, AllIdle, Stands, Missing
  <2>2. QED BY <2>1, MainKeepsDiff, FeedKeepsDiff, LookupKeepsDiff, StoreKeepsDiff, TallyKeepsDiff
            DEF DiffNext, DiffMain, Work
<1>3. DiffInv => RemovedReportTrue
  <2>1. SUFFICES ASSUME DiffInv PROVE RemovedReportTrue
    OBVIOUS
  <2>2. removed \subseteq Missing /\ removed \cap Resolving = {} /\ (removed # {} => verdict = "complete")
    BY <2>1 DEF DiffInv, Counted, Listed, Parted
  <2>3. /\ removed \cap (Resolving \cup current \cup Excluded) = {} /\ removed \subseteq Previous \cap InTargets
    BY <2>2 DEF Missing
  <2>4. ASSUME phase = "done", verdict = "complete"
        PROVE  /\ Parted(removed, still, unverified, Missing)
               /\ ~diffCtx => {pair[1] : pair \in outcomes} = Missing
    <3>1. CASE missing = <<>>
      <4>1. Missing = {} /\ removed = {} /\ still = {} /\ unverified = {}
        BY <2>1, <2>4, <3>1 DEF DiffInv, Listed, Counted
      <4>2. outcomes = {}
        BY <2>1, <3>1, NoNames DEF DiffInv, DiffTypes
      <4>3. QED BY <4>1, <4>2 DEF Parted
    <3>2. CASE missing # <<>>
      <4>1. ToSet(missing) = Missing /\ Parted(removed, still, unverified, Missing)
        BY <2>1, <2>4, <3>2 DEF DiffInv, Listed, Counted
      <4>2. ASSUME NEW p \in outcomes PROVE p[1] \in Missing
        BY <2>1, <4>1 DEF DiffInv, DiffTypes
      <4>3. ASSUME ~diffCtx, NEW n \in Missing PROVE \E p \in outcomes : n = p[1]
        <5>1. fed = Len(missing) /\ AllIdle /\ missing \in Seq(Previous)
          BY <2>1, <2>4, <4>3 DEF DiffInv, DiffTypes, AllPassed
        <5>2. PICK i \in 1 .. Len(missing) : n = missing[i]
          BY <4>1, <5>1, ListedNames
        <5>3. Stands(n)
          BY <2>1, <5>1, <5>2 DEF DiffInv, AllPassed
        <5>4. PICK o \in Answers : <<n, o>> \in outcomes
          BY <5>1, <5>3 DEF Stands, AllIdle, Idle
        <5>5. QED BY <5>4
      <4>4. QED BY <4>1, <4>2, <4>3
    <3>3. QED BY <3>1, <3>2
  <2>5. ASSUME phase = "done", verdict = "complete"
        PROVE  /\ removed \cup still \cup unverified = Missing
               /\ Cardinality(removed) + Cardinality(still) + Cardinality(unverified) = Cardinality(Missing)
    BY <2>4, <2>5, PartsAddUp, MissingFinite DEF Parted
  <2>6. QED BY <2>2, <2>3, <2>4, <2>5 DEF RemovedReportTrue
<1>4. QED BY <1>1, <1>2, <1>3, PTL DEF DiffSpec
=============================================================================
