------------------------------ MODULE MCOutcome ------------------------------
(* How a run starts, filters its results, is summed up, and is interrupted and *)
(* resumed, and how a lab's zone answers it: a behaviour is one of module      *)
(* ResumeGate, Wildcard, RunEnd, ResumeRun or LabZone, and the others stay as  *)
(* they start.                                                                 *)
EXTENDS WildcardProps, RunEndProps, ResumeGateProps, LabZoneProps, MCResume
CONSTANTS r1, r2, r3, own, w1, w2, depth, v, c1, c2,
          lx, ly, dom, away
VARIABLE part

(* No wildcard, one answer, answers apart, and answers that overlap. *)
MCZones == {{}, {{r1}}, {{r1}, {r2}, {r3}}, {{r1, r2}, {r2, r3}, {r3, r1}}}
MCOwn == {{own}, {r1, own}}
(* Theorem FilterIsExact speaks of these zones. *)
ASSUME MCRotation == ShortRotation
MCCheckers == {w1, w2}

MCSettings == {depth, v}
MCUnsaved == {v}
MCValues == {1, 2}
MCContents == {c1, c2}

(* A zone below dom, where lx.dom is scanned too and away is elsewhere. *)
Rec(wild, name, type, value) ==
  [kind |-> "record", wild |-> wild, name |-> name, type |-> type, value |-> value,
   target |-> [absolute |-> FALSE, name |-> <<>>]]
To(line, absolute, name) ==
  [line EXCEPT !.target = [absolute |-> absolute, name |-> name]]
Directs(kind) == [Rec(FALSE, <<>>, "", 1) EXCEPT !.kind = kind]
MCLines ==
  {Rec(FALSE, <<lx>>, "A", 1), Rec(FALSE, <<lx>>, "AAAA", 2), Rec(FALSE, <<ly, lx>>, "A", 3),
   Rec(TRUE, <<lx>>, "A", 4), Rec(TRUE, <<>>, "A", 5), Rec(TRUE, <<lx>>, "NXDOMAIN", 0),
   Rec(FALSE, <<ly, lx>>, "TIMEOUT", 0), Rec(FALSE, <<lx>>, "CNAME", 0),
   To(Rec(FALSE, <<ly>>, "CNAME", 0), FALSE, <<lx>>),
   To(Rec(FALSE, <<ly>>, "CNAME", 0), TRUE, <<away>>),
   To(Rec(TRUE, <<lx>>, "CNAME", 0), TRUE, <<ly, lx, dom>>),
   Directs("limit"), Directs("delay")}
MCOrigins == {<<dom>>, <<lx, dom>>}
MCQuestions ==
  {<<away>>, <<dom>>, <<lx, dom>>, <<ly, dom>>, <<lx, ly, dom>>, <<ly, lx, dom>>, <<lx, lx, dom>>,
   <<ly, lx, lx, dom>>, <<lx, ly, lx, dom>>, <<lx, ly, lx, lx, dom>>}

(* The parts a behaviour is not of start in one state only. *)
WildIdle == zone = {} /\ ~lossy /\ mode = "root"
RunIdle == ~noAbort /\ ~permute /\ ~inDiff
GateIdle ==
  ~bundled /\ args = Nowhere /\ seedArg = Absent

OutcomeInit ==
  /\ part \in {"wildcard", "run", "gate", "resume", "zone"}
  /\ WildInit /\ RunInit /\ GateInit /\ Init /\ ZoneInit
  /\ disk = [i \in Input |-> c1]
  /\ part # "wildcard" => WildIdle
  /\ part # "run" => RunIdle
  /\ part # "gate" => GateIdle
  /\ part # "resume" => world = Tree

OutcomeNext ==
  \/ part = "wildcard" /\ WildNext /\ UNCHANGED <<part, runVars, gateVars, vars, zoneVars>>
  \/ part = "run" /\ RunNext /\ UNCHANGED <<part, wildVars, gateVars, vars, zoneVars>>
  \/ part = "gate" /\ GateNext /\ UNCHANGED <<part, wildVars, runVars, vars, zoneVars>>
  \/ part = "resume" /\ Next /\ UNCHANGED <<part, wildVars, runVars, gateVars, zoneVars>>
  \/ part = "zone" /\ ZoneNext /\ UNCHANGED <<part, wildVars, runVars, gateVars, vars>>

OutcomeSpec ==
  OutcomeInit /\ [][OutcomeNext]_<<part, wildVars, runVars, gateVars, vars, zoneVars>>
=============================================================================
