------------------------------ MODULE LabServer ------------------------------
(***************************************************************************)
(* The local DNS server behind -simulate-zone labs and the tests            *)
(* (internal/dnsserver/server.go): the UDP loop, the accept loops, a        *)
(* goroutine per stream connection and per datagram, and Close, which waits *)
(* for all of them.  What a handler answers is module LabZone; the bytes of *)
(* a message, and DoHHandler, whose requests net/http runs, are left out.   *)
(*                                                                         *)
(* A WaitGroup's counter is the set of goroutines Add was called for and    *)
(* Done was not.                                                           *)
(***************************************************************************)
EXTENDS Naturals, FiniteSets

CONSTANTS
  Datagram,   \* the queries that come by UDP
  Conn,       \* the connections clients open
  Accepting,  \* the stream listeners: the TCP one, and the TLS one after ListenTLS
  udpLoop,    \* the goroutine of serveUDP
  MaxPerConn  \* bound: queries on one connection

ASSUME ServerAssumption ==
  /\ udpLoop \notin Datagram \cup Conn \cup Accepting
  /\ Datagram \cap Conn = {} /\ Conn \cap Accepting = {} /\ Datagram \cap Accepting = {}
  /\ MaxPerConn \in Nat

Goroutine == {udpLoop} \cup Accepting \cup Datagram \cup Conn
Nobody == udpLoop  \* no connection

VARIABLES
  serial,      \* Options.Serial
  closeAfter,  \* CloseStreamsAfter, 0 for never
  spc,         \* where each goroutine is, "none" before it starts
  accepted,    \* the connection an accept loop holds
  dialed,      \* connections waiting to be accepted
  left,        \* connections and datagrams whose client sends no more
  arrived,     \* datagrams in the UDP socket's buffer
  listening,   \* the sockets not closed
  shut,        \* stream connections the server closed
  tracked,       \* Server.conns
  closing,     \* Server.closing
  waited,      \* Server.wg
  closePc,     \* where Close is
  answered     \* per connection: queries answered

netVars == <<dialed, left, arrived>>
closeVars == <<closing, closePc, listening>>
setVars == <<serial, closeAfter>>
labVars == <<setVars, spc, accepted, netVars, closeVars, shut, tracked, waited, answered>>

LabInit ==
  /\ serial \in BOOLEAN /\ closeAfter \in 0..1
  /\ spc = [g \in Goroutine |-> IF g = udpLoop THEN "read"
                                ELSE IF g \in Accepting THEN "accept" ELSE "none"]
  /\ accepted = [l \in Accepting |-> Nobody]
  /\ dialed = {} /\ left = {} /\ arrived = {}
  /\ listening = {udpLoop} \cup Accepting
  /\ shut = {} /\ tracked = {} /\ closing = FALSE
  /\ waited = {udpLoop} \cup Accepting
  /\ closePc = "open"
  /\ answered = [c \in Conn |-> 0]

SAt(g, place) == spc[g] = place
STo(g, place) == spc' = [spc EXCEPT ![g] = place]

-----------------------------------------------------------------------------
(* The clients. *)

SendDatagram(q) ==
  /\ SAt(q, "none") /\ q \notin arrived \cup left /\ udpLoop \in listening
  /\ arrived' = arrived \cup {q} /\ left' = left \cup {q}
  /\ UNCHANGED <<setVars, spc, accepted, dialed, closeVars, shut, tracked, waited, answered>>

Connect(c) ==
  /\ SAt(c, "none") /\ c \notin dialed /\ c \notin {accepted[l] : l \in Accepting}
  /\ c \notin left /\ c \notin shut
  /\ dialed' = dialed \cup {c}
  /\ UNCHANGED <<setVars, spc, accepted, left, arrived, closeVars, shut, tracked, waited, answered>>

HangUp(c) ==
  /\ c \notin left /\ ~SAt(c, "ended") /\ (c \in dialed \/ ~SAt(c, "none"))
  /\ left' = left \cup {c}
  /\ UNCHANGED <<setVars, spc, accepted, dialed, arrived, closeVars, shut, tracked, waited, answered>>

-----------------------------------------------------------------------------
(* serveUDP: a datagram is answered by a goroutine of its own, or in the loop  *)
(* by a serial server.                                                         *)

Unwaited(g) == waited
Added(g) == waited \cup {g}

ReadDatagram(q) ==
  /\ SAt(udpLoop, "read") /\ q \in arrived /\ udpLoop \in listening
  /\ arrived' = arrived \ {q}
  /\ IF serial
     THEN /\ spc' = [spc EXCEPT ![udpLoop] = "busy", ![q] = "handle"]
          /\ UNCHANGED waited
     ELSE STo(q, "handle") /\ waited' = Added(q)
  /\ UNCHANGED <<setVars, accepted, dialed, left, closeVars, shut, tracked, answered>>

LoopEnds(g) ==
  /\ spc' = [spc EXCEPT ![g] = "ended"] /\ waited' = waited \ {g}

UdpFails ==
  /\ SAt(udpLoop, "read") /\ udpLoop \notin listening
  /\ LoopEnds(udpLoop)
  /\ UNCHANGED <<setVars, accepted, netVars, closeVars, shut, tracked, answered>>

(* handle: the handler, its delay, and the answer; a dropped or malformed      *)
(* query has none.                                                             *)
DatagramHandled(q) ==
  /\ q \in Datagram /\ SAt(q, "handle")
  /\ STo(q, "reply")
  /\ UNCHANGED <<setVars, accepted, netVars, closeVars, shut, tracked, waited, answered>>

Replied(q) ==
  /\ q \in Datagram /\ SAt(q, "reply")
  /\ IF serial
     THEN spc' = [spc EXCEPT ![q] = "ended", ![udpLoop] = "read"] /\ UNCHANGED waited
     ELSE LoopEnds(q)
  /\ UNCHANGED <<setVars, accepted, netVars, closeVars, shut, tracked, answered>>

-----------------------------------------------------------------------------
(* serveTCP: the accept loop. *)

Accept(l, c) ==
  /\ SAt(l, "accept") /\ c \in dialed /\ l \in listening
  /\ accepted' = [accepted EXCEPT ![l] = c] /\ dialed' = dialed \ {c}
  /\ STo(l, "track")
  /\ UNCHANGED <<setVars, left, arrived, closeVars, shut, tracked, waited, answered>>

AcceptFails(l) ==
  /\ SAt(l, "accept") /\ l \notin listening
  /\ LoopEnds(l)
  /\ UNCHANGED <<setVars, accepted, netVars, closeVars, shut, tracked, answered>>

(* track: a closing server takes no more connections. *)
TrackAlways == TRUE
MayTrack == ~closing

Track(l) ==
  /\ SAt(l, "track")
  /\ IF MayTrack
     THEN tracked' = tracked \cup {accepted[l]} /\ STo(l, "spawn") /\ UNCHANGED <<shut, waited, accepted>>
     ELSE /\ shut' = shut \cup {accepted[l]} /\ LoopEnds(l)
          /\ accepted' = [accepted EXCEPT ![l] = Nobody] /\ UNCHANGED tracked
  /\ UNCHANGED <<setVars, netVars, closeVars, answered>>

SpawnStream(l) ==
  /\ SAt(l, "spawn")
  /\ spc' = [spc EXCEPT ![l] = "accept", ![accepted[l]] = "read"]
  /\ waited' = waited \cup {accepted[l]}
  /\ accepted' = [accepted EXCEPT ![l] = Nobody]
  /\ UNCHANGED <<setVars, netVars, closeVars, shut, tracked, answered>>

-----------------------------------------------------------------------------
(* A connection's goroutine. *)

ReadQuery(c) ==
  /\ c \in Conn /\ SAt(c, "read") /\ c \notin shut /\ answered[c] < MaxPerConn
  /\ STo(c, "handle")
  /\ UNCHANGED <<setVars, accepted, netVars, closeVars, shut, tracked, waited, answered>>

(* The connection is closed by either side, or its deadline passes.            *)
Cut(c) == c \in shut \/ c \in left

StreamEnds(c) ==
  /\ c \in Conn /\ spc[c] \in {"read", "parked"} /\ Cut(c)
  /\ STo(c, "leave")
  /\ UNCHANGED <<setVars, accepted, netVars, closeVars, shut, tracked, waited, answered>>

DeadlinePasses(c) ==
  /\ c \in Conn /\ spc[c] \in {"read", "reply", "parked"}
  /\ STo(c, "leave")
  /\ UNCHANGED <<setVars, accepted, netVars, closeVars, shut, tracked, waited, answered>>

(* A dropped query leaves the connection open without an answer.               *)
StreamHandled(c) ==
  /\ c \in Conn /\ SAt(c, "handle")
  /\ STo(c, "reply") \/ STo(c, "parked")
  /\ UNCHANGED <<setVars, accepted, netVars, closeVars, shut, tracked, waited, answered>>

Enough(c) == closeAfter > 0 /\ answered[c] + 1 >= closeAfter

WriteAnswer(c) ==
  /\ c \in Conn /\ SAt(c, "reply")
  /\ \/ /\ c \notin shut
        /\ answered' = [answered EXCEPT ![c] = @ + 1]
        /\ STo(c, IF Enough(c) THEN "leave" ELSE "read")
     \/ Cut(c) /\ STo(c, "leave") /\ UNCHANGED answered
  /\ UNCHANGED <<setVars, accepted, netVars, closeVars, shut, tracked, waited>>

(* The deferred calls: c.Close, untrack, and last wg.Done.                     *)
Untrack(c) ==
  /\ c \in Conn /\ SAt(c, "leave")
  /\ shut' = shut \cup {c} /\ tracked' = tracked \ {c}
  /\ STo(c, "done")
  /\ UNCHANGED <<setVars, accepted, netVars, closeVars, waited, answered>>

StreamDone(c) ==
  /\ c \in Conn /\ SAt(c, "done")
  /\ LoopEnds(c)
  /\ UNCHANGED <<setVars, accepted, netVars, closeVars, shut, tracked, answered>>

-----------------------------------------------------------------------------
(* Close: the connections under the lock, then the listeners, then wg.Wait.    *)

CloseStreams ==
  /\ closePc = "open" /\ closePc' = "closers"
  /\ closing' = TRUE /\ shut' = shut \cup tracked
  /\ UNCHANGED <<setVars, spc, accepted, netVars, listening, tracked, waited, answered>>

(* In any order: the code's is TCP, UDP, TLS. *)
CloseListener(g) ==
  /\ closePc = "closers" /\ g \in listening
  /\ listening' = listening \ {g}
  /\ closePc' = IF listening' = {} THEN "wait" ELSE "closers"
  /\ UNCHANGED <<setVars, spc, accepted, netVars, closing, shut, tracked, waited, answered>>

CloseReturned ==
  /\ closePc = "wait" /\ waited = {} /\ closePc' = "returned"
  /\ UNCHANGED <<setVars, spc, accepted, netVars, closing, listening, shut, tracked, waited, answered>>

Clients == \/ \E q \in Datagram : SendDatagram(q)
           \/ \E c \in Conn : Connect(c) \/ HangUp(c)
Deadlines == \E c \in Conn : DeadlinePasses(c)
DatagramStep(q) == ReadDatagram(q) \/ DatagramHandled(q) \/ Replied(q)
ListenerStep(l) == AcceptFails(l) \/ Track(l) \/ SpawnStream(l) \/ (\E c \in Conn : Accept(l, c))
StreamStep(c) ==
  \/ StreamEnds(c) \/ StreamHandled(c) \/ WriteAnswer(c) \/ Untrack(c)
  \/ StreamDone(c)
Closer == CloseReturned \/ (\E g \in {udpLoop} \cup Accepting : CloseListener(g))

(* What the server does by itself: reading a query takes a client. *)
ServerStep ==
  \/ UdpFails \/ Closer
  \/ \E q \in Datagram : DatagramStep(q)
  \/ \E l \in Accepting : ListenerStep(l)
  \/ \E c \in Conn : StreamStep(c)

LabNext ==
  \/ CloseStreams \/ Clients \/ Deadlines \/ ServerStep
  \/ \E c \in Conn : ReadQuery(c)

LabSpec == LabInit /\ [][LabNext]_labVars /\ WF_labVars(ServerStep)
=============================================================================
