------------------------------ MODULE DotDialer ------------------------------
(***************************************************************************)
(* The DNS-over-TLS dialer (internal/dns/transport.go): it keeps           *)
(* connections for reuse, probes one before it hands it out, and takes it  *)
(* back unless a read or a write on it failed.                             *)
(*                                                                         *)
(* Go's resolver is external: for each query it dials, writes, reads one   *)
(* answer or gives up at its deadline, and closes.  So is the server: it   *)
(* answers the queries of a connection in turn, late or never, and may     *)
(* close the connection.                                                   *)
(***************************************************************************)
EXTENDS Integers, Sequences

CONSTANTS
  Query,        \* the queries
  dotIdleConns  \* the connections kept for reuse

VARIABLES
  qpc,     \* where each query is
  on,      \* on[q]: its connection
  bad,     \* pooledConn.bad
  heard,     \* heard[q]: the query whose answer it read
  idle,    \* dotDialer.idle, a buffered channel of connections
  conns    \* the connections opened, in order:
           \*   [due: queries sent, ready: answers to read, open: BOOLEAN]

dotVars == <<qpc, on, bad, heard, idle, conns>>

NoConn == 0
Fresh == [due |-> <<>>, ready |-> <<>>, open |-> TRUE]

DotInit ==
  /\ qpc = [q \in Query |-> "dial"] /\ on = [q \in Query |-> NoConn]
  /\ bad = [q \in Query |-> FALSE] /\ heard = [q \in Query |-> "none"]
  /\ idle = <<>> /\ conns = <<>>

DotTo(q, place) == qpc' = [qpc EXCEPT ![q] = place]
Shut(k) == conns' = [conns EXCEPT ![k].open = FALSE]

-----------------------------------------------------------------------------
(* alive: a live connection has nothing to read between two queries. *)
alive(k) == conns[k].open /\ conns[k].ready = <<>>

(* dial takes the pooled connections one by one and drops those that are too   *)
(* old or not alive.                                                           *)
DialPooled(q) ==
  /\ qpc[q] = "dial" /\ idle # <<>> /\ idle' = Tail(idle)
  /\ \/ /\ alive(Head(idle))
        /\ on' = [on EXCEPT ![q] = Head(idle)]
        /\ DotTo(q, "write") /\ UNCHANGED conns
     \/ Shut(Head(idle)) /\ UNCHANGED <<qpc, on>>
  /\ UNCHANGED <<bad, heard>>

DialNew(q) ==
  /\ qpc[q] = "dial" /\ idle = <<>>
  /\ \/ /\ conns' = Append(conns, Fresh) /\ on' = [on EXCEPT ![q] = Len(conns) + 1]
        /\ DotTo(q, "write")
     \/ DotTo(q, "over") /\ UNCHANGED <<on, conns>>
  /\ UNCHANGED <<bad, heard, idle>>

(* A write to a connection the server closed may still succeed.                *)
WriteQuery(q) ==
  /\ qpc[q] = "write"
  /\ \/ /\ conns' = [conns EXCEPT ![on[q]].due = Append(@, q)]
        /\ DotTo(q, "read") /\ UNCHANGED bad
     \/ bad' = [bad EXCEPT ![q] = TRUE] /\ DotTo(q, "close") /\ UNCHANGED conns
  /\ UNCHANGED <<on, heard, idle>>

ReadAnswer(q) ==
  /\ qpc[q] = "read" /\ conns[on[q]].ready # <<>>
  /\ heard' = [heard EXCEPT ![q] = Head(conns[on[q]].ready)]
  /\ conns' = [conns EXCEPT ![on[q]].ready = Tail(@)]
  /\ DotTo(q, "close")
  /\ UNCHANGED <<on, bad, idle>>

(* The deadline passes, or the server has closed the connection: the answer    *)
(* may still be on its way.                                                    *)
NotMarked(q) == UNCHANGED bad
MarkBad(q) == bad' = [bad EXCEPT ![q] = TRUE]

ReadFails(q) ==
  /\ qpc[q] = "read" /\ MarkBad(q) /\ DotTo(q, "close")
  /\ UNCHANGED <<on, heard, idle, conns>>

(* pooledConn.Close *)
CloseConn(q) ==
  /\ qpc[q] = "close" /\ DotTo(q, "over")
  /\ IF ~bad[q] /\ Len(idle) < dotIdleConns
     THEN idle' = Append(idle, on[q]) /\ UNCHANGED conns
     ELSE Shut(on[q]) /\ UNCHANGED idle
  /\ UNCHANGED <<on, bad, heard>>

(* closeIdle, one connection at a time; any scan that ends calls it.           *)
CloseIdleOne ==
  /\ idle # <<>> /\ idle' = Tail(idle) /\ Shut(Head(idle))
  /\ UNCHANGED <<qpc, on, bad, heard>>

-----------------------------------------------------------------------------
ServerAnswers(k) ==
  /\ conns[k].open /\ conns[k].due # <<>>
  /\ conns' = [conns EXCEPT ![k].due = Tail(@), ![k].ready = Append(@, Head(conns[k].due))]
  /\ UNCHANGED <<qpc, on, bad, heard, idle>>

ServerCloses(k) ==
  /\ conns[k].open /\ Shut(k)
  /\ UNCHANGED <<qpc, on, bad, heard, idle>>

DotNext ==
  \/ CloseIdleOne
  \/ \E q \in Query :
       DialPooled(q) \/ DialNew(q) \/ WriteQuery(q) \/ ReadAnswer(q)
         \/ ReadFails(q) \/ CloseConn(q)
  \/ \E k \in DOMAIN conns : ServerAnswers(k) \/ ServerCloses(k)

DotSpec == DotInit /\ [][DotNext]_dotVars
=============================================================================
