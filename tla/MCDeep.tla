------------------------------- MODULE MCDeep -------------------------------
(* A recursive scan, the resolver pool its workers ask, and the lookups under  *)
(* -rate a worker makes: a behaviour is one of module ScanRun, ResolverPool or *)
(* Lookup, and the others stay as they start.  Workers are interchangeable in  *)
(* all of them.                                                                *)
EXTENDS MCScan, ResolverPoolProps, LookupProps
CONSTANTS real, fake
VARIABLE part

(* An honest member beside a liar, and two liars. *)
MCQueried == {real, fake}
MCReal == {real}
MCLiar == {"denies", "invents"}
MCWorlds == {<<{}, MCLiar>>, <<MCLiar, MCLiar>>}
MCSecond == {2}

(* Lookups: the default record types. *)
MCTypes == <<"A", "AAAA">>

DeepInit ==
  /\ part \in {"scan", "pool", "lookup"} /\ Init /\ PoolInit /\ LookInit
  /\ part # "scan" => ~force /\ target = t
  /\ part # "pool" => lies = <<MCLiar, MCLiar>>

(* Nobody looks anything up: the pool may rest, and only then.                 *)
PoolRests ==
  part = "pool" /\ (\A caller \in Caller : pc[caller] = "idle")
    /\ UNCHANGED <<part, vars, allPoolVars, lookVars>>

(* The lookups have all returned. *)
LookupsRest ==
  part = "lookup" /\ (\A k \in Client : LookAt(k, "over"))
    /\ UNCHANGED <<part, vars, allPoolVars, lookVars>>

DeepNext ==
  \/ PoolRests \/ LookupsRest
  \/ part = "scan" /\ Next /\ UNCHANGED <<part, allPoolVars, lookVars>>
  \/ part = "pool" /\ PoolNext /\ UNCHANGED <<part, vars, lookVars>>
  \/ part = "lookup" /\ LookNext /\ UNCHANGED <<part, vars, allPoolVars>>

DeepSpec == DeepInit /\ [][DeepNext]_<<part, vars, allPoolVars, lookVars>>
=============================================================================
