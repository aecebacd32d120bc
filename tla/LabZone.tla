------------------------------- MODULE LabZone -------------------------------
(***************************************************************************)
(* A -simulate-zone scenario (internal/labzone/labzone.go): the lines of    *)
(* its file, parsed one by one into tables, and the handler that answers    *)
(* queries from them, refusing those above $REFUSE-ABOVE.                   *)
(*                                                                         *)
(* A name is the sequence of its labels, relative to the scanned domain     *)
(* where the code's is; an address is a number.  The syntax of names and    *)
(* values is left out.                                                     *)
(***************************************************************************)
EXTENDS Integers, Sequences, SequencesExt

CONSTANTS
  Lines,     \* the lines a file is made of
  Origins,   \* the scanned domains
  Questions, \* the names clients ask for
  Second,    \* ticks of the clock in a second
  MaxLines, MaxAsked, Horizon  \* bounds: lines, limited queries, time

failures == {"TIMEOUT", "SERVFAIL", "REFUSED", "NXDOMAIN"}
RecordLines == {l \in Lines : l.kind = "record"}
Owner == {[wild |-> l.wild, name |-> l.name] : l \in RecordLines}
Undefined == [a |-> {}, aaaa |-> {}, cname |-> {}, fail |-> "none"]

(* parseLine accepts no other lines; a name is a sequence of labels.           *)
Labels ==
  UNION {ToSet(n) : n \in Origins \cup Questions \cup
           UNION {{l.name, l.target.name} : l \in RecordLines}}

ASSUME LabZoneAssumption ==
  /\ \A l \in Lines : l.kind \in {"record", "delay", "limit"}
  /\ \A l \in Lines : l.kind = "limit" => l.value \in Nat \ {0}
  /\ \A l \in RecordLines :
       /\ l.wild \in BOOLEAN /\ l.type \in {"A", "AAAA", "CNAME"} \cup failures
       /\ {l.name, l.target.name} \subseteq Seq(Labels) /\ l.target.absolute \in BOOLEAN
  /\ Origins \subseteq Seq(Labels) /\ Questions \subseteq Seq(Labels)
  /\ Second \in Nat \ {0}

VARIABLES
  zonePc,       \* "parse", "serve", or "error" after a line that is refused
  lines,        \* history: the lines read
  tables,       \* Zone.entries and Zone.wildcards
  named,       \* Zone.exists
  delay, limit, \* $DELAY and $REFUSE-ABOVE
  window, inWindow, clock,  \* the handler's window, and now
  asked,        \* history: when queries came, if there is a limit
  question, reply           \* the last query and its answer

parsed == <<lines, tables, named, delay, limit>>
served == <<window, inWindow, asked, question, reply>>
zoneVars == <<zonePc, parsed, served, clock>>

NoReply == [code |-> "none", a |-> {}, aaaa |-> {}, cname |-> {}, delayed |-> FALSE]

ZoneInit ==
  /\ zonePc = "parse" /\ lines = <<>>
  /\ tables = [o \in Owner |-> Undefined] /\ named = {<<>>}
  /\ delay = FALSE /\ limit = 0
  /\ window = -Second /\ inWindow = 0 /\ clock = 0
  /\ asked = <<>> /\ question = <<>> /\ reply = NoReply

-----------------------------------------------------------------------------
(* parseLine *)

ReadLine(l) ==
  /\ zonePc = "parse" /\ Len(lines) < MaxLines
  /\ lines' = Append(lines, l)
  /\ UNCHANGED <<served, clock>>

Directive(l) ==
  /\ l \notin RecordLines /\ ReadLine(l)
  /\ IF l.kind = "delay" THEN delay' = TRUE /\ UNCHANGED limit
     ELSE limit' = l.value /\ UNCHANGED delay
  /\ UNCHANGED <<zonePc, tables, named>>

(* A failure or an alias shares its name with no other record.                 *)
Combines(l, e) ==
  IF l.type \in {"A", "AAAA"} THEN e.fail = "none" /\ e.cname = {} ELSE e = Undefined

Extended(l, e) ==
  CASE l.type = "A"     -> [e EXCEPT !.a = @ \cup {l.value}]
    [] l.type = "AAAA"  -> [e EXCEPT !.aaaa = @ \cup {l.value}]
    [] l.type = "CNAME" -> [e EXCEPT !.cname = {l.target}]
    [] OTHER            -> [e EXCEPT !.fail = l.type]

(* A name exists with all its ancestors; *.dev makes dev exist too. *)
Ancestors(name) == {SubSeq(name, k, Len(name)) : k \in 1..(Len(name) + 1)}

Record(l) ==
  /\ l \in RecordLines /\ ReadLine(l)
  /\ LET o == [wild |-> l.wild, name |-> l.name]
     IN IF Combines(l, tables[o])
        THEN /\ tables' = [tables EXCEPT ![o] = Extended(l, @)]
             /\ named' = named \cup Ancestors(l.name)
             /\ UNCHANGED zonePc
        ELSE zonePc' = "error" /\ UNCHANGED <<tables, named>>
  /\ UNCHANGED <<delay, limit>>

Parsed ==
  /\ zonePc = "parse"
  /\ zonePc' = IF \A o \in Owner : tables[o] = Undefined THEN "error" ELSE "serve"
  /\ UNCHANGED <<parsed, served, clock>>

-----------------------------------------------------------------------------
(* Zone.Answer *)

Entry(wild, name) ==
  LET o == [wild |-> wild, name |-> name] IN IF o \in Owner THEN tables[o] ELSE Undefined

Under(name, k) == SubSeq(name, k + 1, Len(name))

(* RFC 4592: a wildcard applies at the closest existing ancestor.              *)
AnyEncloser(rel, k) == Entry(TRUE, Under(rel, k)) # Undefined \/ k = Len(rel)
Encloses(rel, k) == Under(rel, k) \in named

Encloser(rel) ==
  Under(rel, CHOOSE k \in 1..Len(rel) :
               Encloses(rel, k) /\ \A j \in 1..(k - 1) : ~Encloses(rel, j))

Found(rel) ==
  IF Entry(FALSE, rel) # Undefined \/ rel \in named THEN Entry(FALSE, rel)
  ELSE Entry(TRUE, Encloser(rel))

Absolute(target, origin) == IF target.absolute THEN target.name ELSE target.name \o origin
Relative(name, origin) == SubSeq(name, 1, Len(name) - Len(origin))

(* An alias within the zone is followed one step. *)
Following(e, origin) ==
  LET full == Absolute(CHOOSE t \in e.cname : TRUE, origin)
      held == IF IsSuffix(origin, full) THEN Entry(FALSE, Relative(full, origin)) ELSE Undefined
      adds == held.fail = "none" /\ held.cname = {}
  IN [NoReply EXCEPT !.code = "NOERROR", !.cname = {full},
        !.a = IF adds THEN held.a ELSE {}, !.aaaa = IF adds THEN held.aaaa ELSE {}]

AnswerFor(rel, origin) ==
  LET e == Found(rel)
  IN IF e = Undefined
     THEN [NoReply EXCEPT !.code = IF rel \in named THEN "NOERROR" ELSE "NXDOMAIN"]
     ELSE IF e.fail # "none" THEN [NoReply EXCEPT !.code = e.fail]
     ELSE IF e.cname # {} THEN Following(e, origin)
     ELSE [NoReply EXCEPT !.code = "NOERROR", !.a = e.a, !.aaaa = e.aaaa]

-----------------------------------------------------------------------------
(* Handler *)

Tick == clock < Horizon /\ clock' = clock + 1

TimePasses ==
  /\ zonePc = "serve" /\ limit > 0 /\ Tick
  /\ UNCHANGED <<zonePc, parsed, served>>

Refusal == [NoReply EXCEPT !.code = "REFUSED"]

(* The longest origin the name is under. *)
Best(name) == {o \in Origins : IsSuffix(o, name) /\
                 \A p \in Origins : IsSuffix(p, name) => Len(p) <= Len(o)}

Resolved(name) ==
  LET r == IF Best(name) = {} THEN [NoReply EXCEPT !.code = "NXDOMAIN"]
           ELSE LET o == CHOOSE o \in Best(name) : TRUE IN AnswerFor(Relative(name, o), o)
  IN [r EXCEPT !.delayed = delay /\ r.code # "TIMEOUT"]

WindowOver == clock - window >= Second

Ask(name) ==
  /\ zonePc = "serve" /\ Len(asked) < MaxAsked
  /\ question' = name
  /\ IF limit = 0
     THEN reply' = Resolved(name) /\ UNCHANGED <<window, inWindow, asked>>
     ELSE /\ asked' = Append(asked, clock)
          /\ window' = IF WindowOver THEN clock ELSE window
          /\ inWindow' = IF WindowOver THEN 1 ELSE inWindow + 1
          /\ reply' = IF inWindow' > limit THEN Refusal ELSE Resolved(name)
  /\ UNCHANGED <<zonePc, parsed, clock>>

ZoneNext ==
  \/ \E l \in Lines : Directive(l) \/ Record(l)
  \/ Parsed \/ TimePasses
  \/ \E name \in Questions : Ask(name)

ZoneSpec == ZoneInit /\ [][ZoneNext]_zoneVars
=============================================================================
