---------------------------- MODULE LabZoneProps ----------------------------
(* What a lab's scenario promises: the property of module LabZone.            *)
EXTENDS LabZone, FiniteSets

(* What the file says, whatever the order of its lines. *)
Given == {l \in ToSet(lines) : l \in RecordLines}
At(wild, name) == {l \in Given : l.wild = wild /\ l.name = name}
Exists(name) == name = <<>> \/ \E l \in Given : IsSuffix(name, l.name)

(* RFC 4592: a wildcard answers for a name that does not exist, unless a name  *)
(* between the two exists.                                                     *)
Covering(name) ==
  {l \in Given : l.wild /\ IsStrictSuffix(l.name, name) /\
     \A m \in Suffixes(name) : Exists(m) => Len(m) <= Len(l.name)}

Source(name) ==
  IF At(FALSE, name) # {} THEN At(FALSE, name)
  ELSE IF Exists(name) THEN {} ELSE Covering(name)

Of(set, type) == {l.value : l \in {r \in set : r.type = type}}
Code(set, name) ==
  IF \E l \in set : l.type \in failures THEN (CHOOSE l \in set : TRUE).type
  ELSE IF set = {} /\ ~Exists(name) THEN "NXDOMAIN" ELSE "NOERROR"

Unaliased(set) == IF \A l \in set : l.type \in {"A", "AAAA"} THEN set ELSE {}

ZoneSays(name, origin) ==
  LET set == Source(name)
      aliases == {Absolute(l.target, origin) : l \in {r \in set : r.type = "CNAME"}}
      within == {Relative(n, origin) : n \in {m \in aliases : IsSuffix(origin, m)}}
      addresses == IF aliases = {} THEN set ELSE UNION {Unaliased(At(FALSE, n)) : n \in within}
  IN [code |-> Code(set, name), cname |-> aliases, delayed |-> FALSE,
      a |-> Of(addresses, "A"), aaaa |-> Of(addresses, "AAAA")]

(* A name below two scanned domains is the deeper one's. *)
Expected(name) ==
  LET domains == {o \in Origins : IsSuffix(o, name)}
      mine == {o \in domains : \A p \in domains : IsSuffix(p, o)}
      says == IF domains = {} THEN [NoReply EXCEPT !.code = "NXDOMAIN"]
              ELSE LET o == CHOOSE o \in mine : TRUE IN ZoneSays(Relative(name, o), o)
  IN [says EXCEPT !.delayed = delay /\ says.code # "TIMEOUT"]

Clash(l, r) ==
  l.wild = r.wild /\ l.name = r.name /\ ~({l.type, r.type} \subseteq {"A", "AAAA"})

(* The limited queries of the last ticks, up to the one just answered. *)
Within(ticks) == Cardinality({i \in DOMAIN asked : asked[i] > Last(asked) - ticks})

(* A file is refused exactly if two of its lines contradict each other or it   *)
(* defines nothing, and otherwise every query is answered as its lines, in     *)
(* any order, say: with wildcards as in RFC 4592, names above a defined one    *)
(* as NODATA, and everything outside the scanned domains as NXDOMAIN.  Only a  *)
(* client that asked more than $REFUSE-ABOVE names in the last second is       *)
(* refused, so a -rate below the limit never is, and one that asks more at     *)
(* once is.                                                                    *)
AnswersAsZone ==
  /\ zonePc = "error" <=>
       \/ \E i, j \in DOMAIN lines :
            i < j /\ {lines[i], lines[j]} \subseteq RecordLines /\ Clash(lines[i], lines[j])
       \/ zonePc # "parse" /\ Given = {}
  /\ reply # NoReply =>
       \/ reply = Expected(question) /\ (limit > 0 => Within(1) <= limit)
       \/ reply = Refusal /\ limit > 0 /\ Within(Second) > limit
=============================================================================
