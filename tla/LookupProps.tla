----------------------------- MODULE LookupProps -----------------------------
(* What a lookup promises the scan: the properties of module Lookup.         *)
EXTENDS Lookup

(* -rate bounds what is on the wire, however many queries Go decides to send   *)
(* and whoever gives up while it waits (#32, #50): at no time have more        *)
(* queries gone out than slots have come.                                      *)
PaceHeld == wire <= Cardinality({k \in DOMAIN handed : handed[k] <= now})

(* A reply means what the scan takes it for: a negative only when every type   *)
(* said so in one attempt (#31), a failure only after the last attempt, a      *)
(* cancellation only under a cancelled context.                                *)
ReplyEarned ==
  \A c \in Client :
    /\ reply[c] = "found" => Contains(answers[c], "records")
    /\ reply[c] = "nxdomain" =>
         Len(answers[c]) = Len(Types) /\ ToSet(answers[c]) \subseteq {"nxdomain", "nodata"}
    /\ reply[c] = "failed" => attempt[c] = Attempts
    /\ reply[c] = "canceled" => lookCtx
=============================================================================
